---------------------------- MODULE Contiguity_Proofs ----------------------------
(***************************************************************************)
(* Proofs about Contiguity: a skipped number is a gap on record and a gap  *)
(* on record has a skipped number behind it, with the exceptions the two   *)
(* properties name; for any number of records, sessions and skips, batches *)
(* of any size and any restarts.                                           *)
(*                                                                         *)
(* The inductive invariant, Judged, speaks of the last numbers after any   *)
(* number of records, so that it holds within a batch as well as between   *)
(* two: what one record does to it is one lemma, and a batch is a run of   *)
(* them.                                                                   *)
(***************************************************************************)
EXTENDS Contiguity, FiniteSetTheorems, TLAPS

Row == [session: Sessions, number: Numbers \cup {Unseen}, sound: BOOLEAN]

\* The gateway's log: sessions follow each other, and numbers within a session.
Ordered ==
    /\ log \in Seq(Row) /\ session \in Sessions /\ next \in Nat
    /\ Len(log) <= MaxRecords /\ next <= Len(log) + MaxSkips
    /\ \A n \in 1 .. Len(log) :
          /\ log[n].session <= session
          /\ log[n].sound => log[n].number # Unseen
          /\ log[n].session = session => log[n].number < next
    /\ \A m, n \in 1 .. Len(log) : m < n =>
          /\ log[m].session <= log[n].session
          /\ log[m].session = log[n].session /\ log[n].number # Unseen
                => log[m].number < log[n].number

Placed ==
    /\ cursor \in 0 .. Len(log) /\ acked \in 0 .. cursor /\ after \in acked .. cursor
    /\ gap \in BOOLEAN /\ recounted \in BOOLEAN

\* A number before k was never published.
Hole(s, k) == \E m \in 0 .. k - 1 : ~Published(s, m)

\* The first record the bridge can read.
Opens(p) == log[p].sound /\ \A k \in 1 .. p - 1 : ~log[k].sound

\* Published, or before the channel's history.
Explained(s, m, c) ==
    Published(s, m) \/ \E p \in 1 .. c : Opens(p) /\ log[p].session = s /\ m < log[p].number

\* With f for the last numbers, c records judged, g for a gap on record and r for an unsound body
\* judged twice: what was read is behind the last numbers, and they were read.
Read(f, c) ==
    /\ f \in [Sessions -> Nat \cup {Unseen}]
    /\ \A n \in 1 .. c : log[n].sound => log[n].number <= f[log[n].session]
    /\ \A s \in Sessions : f[s] # Unseen => \E n \in 1 .. c : log[n].sound /\ log[n].session = s

\* What was not read, but counted, is behind them too, unless something was skipped before it.
Counted(f, c) ==
    \A n \in 1 .. c : log[n].number # Unseen /\ f[log[n].session] # Unseen =>
       log[n].number <= f[log[n].session] \/ Hole(log[n].session, log[n].number)

\* GapMeansSkip, by positions.
Warranted(c, g) ==
    g => \E n \in 1 .. c : \E m \in 0 .. log[n].number - 1 :
            /\ log[n].sound
            /\ \/ ~Published(log[n].session, m)
               \/ \A o \in 1 .. c :
                     log[o].session = log[n].session /\ log[o].sound => log[o].number > m

\* Without a gap on record and what hides one: what is before a record that was read is explained;
\* no last number is beyond the numbers of its session; and where it is not behind them, all that
\* is before any of them is explained.
Unhidden(c, g, r) == ~g /\ ~r /\ \A n \in 1 .. c : log[n].number # Unseen

Followed(f, c) ==
    /\ \A n \in 1 .. c : log[n].sound =>
          \A m \in 0 .. log[n].number - 1 : Explained(log[n].session, m, c)
    /\ \A s \in Sessions : f[s] # Unseen =>
          /\ \E n \in 1 .. c : log[n].session = s /\ f[s] <= log[n].number
          /\ (\A n \in 1 .. c : log[n].session = s => log[n].number <= f[s]) =>
                \A n \in 1 .. c : log[n].session = s =>
                   \A m \in 0 .. log[n].number - 1 : Explained(s, m, c)

Judged(f, c, g, r) ==
    Read(f, c) /\ Counted(f, c) /\ Warranted(c, g) /\ (Unhidden(c, g, r) => Followed(f, c))

-----------------------------------------------------------------------------
\* One record.

LEMMA RowsAre ==
    ASSUME Ordered
    PROVE  /\ Len(log) \in Nat
           /\ \A n \in 1 .. Len(log) :
                 /\ log[n] \in Row /\ log[n].session \in Sessions /\ log[n].sound \in BOOLEAN
                 /\ log[n].number \in Nat \/ log[n].number = Unseen
                 /\ log[n].number \in Int /\ log[n].number >= -1
                 /\ log[n].number # Unseen => log[n].number \in Numbers
                 /\ log[n].sound => log[n].number \in Nat
<1>1. Len(log) \in Nat /\ \A n \in 1 .. Len(log) : log[n] \in Row
  BY DEF Ordered
<1>2. \A row \in Row : /\ row.session \in Sessions /\ row.sound \in BOOLEAN
                       /\ row.number \in Numbers \cup {Unseen}
  BY DEF Row
<1>3. Numbers \in SUBSET Nat
  BY ContiguityAssumption DEF Numbers
<1>4. \A x \in Numbers \cup {Unseen} : /\ x \in Nat \/ x = Unseen
                                       /\ x \in Int /\ x >= -1
                                       /\ x # Unseen => x \in Numbers
  BY <1>3 DEF Unseen
<1>5. \A n \in 1 .. Len(log) : log[n].sound => log[n].number # Unseen
  BY DEF Ordered
<1>6. QED
  BY <1>1, <1>2, <1>4, <1>5

\* What a record does to the last numbers: they only grow, and only that of its session.
LEMMA SeenGrows ==
    ASSUME Ordered, NEW f \in [Sessions -> Nat \cup {Unseen}], NEW q \in 1 .. Len(log)
    PROVE  /\ SeenAfter(f, log[q]) \in [Sessions -> Nat \cup {Unseen}]
           /\ \A s \in Sessions : /\ f[s] <= SeenAfter(f, log[q])[s]
                                  /\ s # log[q].session => SeenAfter(f, log[q])[s] = f[s]
           /\ LET s == log[q].session
              IN  /\ log[q].sound => SeenAfter(f, log[q])[s] = Highest(f[s], log[q].number)
                  /\ ~log[q].sound => SeenAfter(f, log[q])[s]
                                       = IF f[s] # Unseen THEN f[s] + 1 ELSE f[s]
<1> DEFINE s == log[q].session
           k == log[q].number
           v == IF log[q].sound THEN Highest(f[s], k) ELSE IF f[s] # Unseen THEN f[s] + 1 ELSE f[s]
<1>1. s \in Sessions /\ k \in Int /\ k >= -1 /\ (log[q].sound => k \in Nat) /\ log[q].sound \in BOOLEAN
  BY RowsAre
<1>2. SeenAfter(f, log[q]) = [f EXCEPT ![s] = v]
  BY <1>1 DEF SeenAfter
<1>3. f[s] \in Nat \cup {Unseen}
  BY <1>1
<1> HIDE DEF s, k
<1>4. v \in Nat \cup {Unseen} /\ f[s] <= v
  BY <1>1, <1>3 DEF Highest, Unseen
<1>5. v = IF log[q].sound THEN Highest(f[s], k) ELSE IF f[s] # Unseen THEN f[s] + 1 ELSE f[s]
  OBVIOUS
<1> HIDE DEF v
<1>6. \A x \in Sessions : f[x] \in Nat \cup {Unseen} /\ f[x] <= f[x]
  BY DEF Unseen
<1>7. SeenAfter(f, log[q])[s] = v /\ SeenAfter(f, log[q]) \in [Sessions -> Nat \cup {Unseen}]
  BY <1>1, <1>2, <1>4
<1>8. \A x \in Sessions : x # s => SeenAfter(f, log[q])[x] = f[x]
  BY <1>1, <1>2
<1>9. QED
  BY <1>1, <1>4, <1>5, <1>6, <1>7, <1>8 DEF s, k

\* A run of judged records and the next one to judge, which may have been judged before.
Judging(f, c, q) ==
    /\ Ordered /\ c \in 0 .. Len(log) /\ q \in 1 .. Len(log) /\ q <= c + 1
    /\ Read(f, c)

LEMMA HighestIs ==
    ASSUME Ordered, NEW c \in 0 .. Len(log), NEW q \in 1 .. Len(log), q <= c + 1
    PROVE  /\ Highest(c, q) \in c .. Len(log) /\ Highest(c, q) \in Nat
           /\ q \in 1 .. Highest(c, q)
           /\ \A n \in 1 .. Highest(c, q) : n \in 1 .. Len(log) /\ (n \in 1 .. c \/ n = q)
           /\ \A n \in 1 .. c : n \in 1 .. Highest(c, q)
           /\ q \notin 1 .. c => \A n \in 1 .. c : n < q
BY RowsAre DEF Highest

\* Of two records of a session the later has the greater number.
LEMMA LaterIsGreater ==
    ASSUME Ordered, NEW m \in 1 .. Len(log), NEW n \in 1 .. Len(log), m < n,
           log[m].session = log[n].session, log[n].number # Unseen
    PROVE  log[m].number < log[n].number
BY DEF Ordered

LEMMA ReadNext ==
    ASSUME NEW f, NEW c, NEW q, Judging(f, c, q)
    PROVE  Read(SeenAfter(f, log[q]), Highest(c, q))
<1> DEFINE h == SeenAfter(f, log[q])
           d == Highest(c, q)
<1> USE DEF Judging
<1>1. /\ f \in [Sessions -> Nat \cup {Unseen}] /\ h \in [Sessions -> Nat \cup {Unseen}]
      /\ \A s \in Sessions : f[s] <= h[s] /\ (s # log[q].session => h[s] = f[s])
      /\ log[q].sound => h[log[q].session] = Highest(f[log[q].session], log[q].number)
      /\ ~log[q].sound => h[log[q].session] = IF f[log[q].session] # Unseen
                                                THEN f[log[q].session] + 1
                                                ELSE f[log[q].session]
  BY SeenGrows DEF Read
<1>2. /\ q \in 1 .. d /\ \A n \in 1 .. d : n \in 1 .. Len(log) /\ (n \in 1 .. c \/ n = q)
      /\ \A n \in 1 .. c : n \in 1 .. d
  BY HighestIs
<1> HIDE DEF h, d
<1>3. ASSUME NEW n \in 1 .. d, log[n].sound
      PROVE  log[n].number <= h[log[n].session]
  <2>1. log[n].number \in Nat /\ log[n].session \in Sessions
    BY <1>2, <1>3, RowsAre
  <2>2. f[log[n].session] \in Int /\ h[log[n].session] \in Int
    BY <1>1, <2>1 DEF Unseen
  <2>3. CASE n \in 1 .. c
    <3>1. log[n].number <= f[log[n].session] /\ f[log[n].session] <= h[log[n].session]
      BY <1>1, <1>3, <2>1, <2>3 DEF Read
    <3>2. QED
      BY <2>1, <2>2, <3>1
  <2>4. CASE n = q
    BY <1>1, <1>3, <2>1, <2>2, <2>4 DEF Highest
  <2>5. QED
    BY <1>2, <2>3, <2>4
<1>4. ASSUME NEW s \in Sessions, h[s] # Unseen
      PROVE  \E n \in 1 .. d : log[n].sound /\ log[n].session = s
  <2>1. CASE f[s] # Unseen
    BY <1>2, <2>1 DEF Read
  <2>2. CASE f[s] = Unseen
    <3>1. s = log[q].session /\ log[q].sound
      BY <1>1, <1>4, <2>2
    <3>2. QED
      BY <1>2, <3>1
  <2>3. QED
    BY <2>1, <2>2
<1>5. QED
  BY <1>1, <1>3, <1>4 DEF Read, h, d

\* A session nothing was read of: a readable record of it is judged for the first time.
LEMMA UnseenIsNew ==
    ASSUME NEW f, NEW c, NEW q, Judging(f, c, q), log[q].sound,
           f[log[q].session] = Unseen \/ f[log[q].session] < log[q].number
    PROVE  q \notin 1 .. c
<1>1. log[q].number \in Nat /\ log[q].session \in Sessions
  BY RowsAre DEF Judging
<1>2. q \in 1 .. c => log[q].number <= f[log[q].session]
  BY DEF Judging, Read
<1>3. f[log[q].session] \in Int
  BY <1>1 DEF Judging, Read, Unseen
<1>4. QED
  BY <1>1, <1>2, <1>3 DEF Unseen

LEMMA CountedNext ==
    ASSUME NEW f, NEW c, NEW q, Judging(f, c, q), Counted(f, c)
    PROVE  Counted(SeenAfter(f, log[q]), Highest(c, q))
<1> DEFINE h == SeenAfter(f, log[q])
           d == Highest(c, q)
<1> USE DEF Judging
<1>1. /\ f \in [Sessions -> Nat \cup {Unseen}] /\ h \in [Sessions -> Nat \cup {Unseen}]
      /\ \A s \in Sessions : f[s] <= h[s] /\ (s # log[q].session => h[s] = f[s])
      /\ log[q].sound => h[log[q].session] = Highest(f[log[q].session], log[q].number)
      /\ ~log[q].sound => h[log[q].session] = IF f[log[q].session] # Unseen
                                                THEN f[log[q].session] + 1
                                                ELSE f[log[q].session]
  BY SeenGrows DEF Read
<1>2. /\ \A n \in 1 .. d : n \in 1 .. Len(log) /\ (n \in 1 .. c \/ n = q)
      /\ q \notin 1 .. c => \A n \in 1 .. c : n < q
      /\ \A n \in 1 .. c : n \in 1 .. Len(log)
  BY HighestIs, RowsAre
<1> HIDE DEF h, d
<1>3. ASSUME NEW n \in 1 .. d, log[n].number # Unseen, h[log[n].session] # Unseen
      PROVE  log[n].number <= h[log[n].session] \/ Hole(log[n].session, log[n].number)
  <2> DEFINE s == log[n].session
             k == log[n].number
  <2>1. n \in 1 .. Len(log) /\ k \in Nat /\ s \in Sessions /\ f[s] \in Int /\ h[s] \in Int
    <3>1. n \in 1 .. Len(log)
      BY <1>2
    <3>2. k \in Nat /\ s \in Sessions
      BY <1>3, <3>1, RowsAre
    <3>3. QED
      BY <1>1, <3>1, <3>2 DEF Unseen
  <2>2. CASE n \in 1 .. c /\ f[s] # Unseen
    <3>1. k <= f[s] \/ Hole(s, k)
      BY <1>3, <2>2 DEF Counted
    <3>2. f[s] <= h[s]
      BY <1>1, <2>1
    <3> HIDE DEF s, k
    <3>3. k <= h[s] \/ Hole(s, k)
      BY <2>1, <3>1, <3>2
    <3>4. QED
      BY <3>3 DEF s, k
  <2>3. CASE n \in 1 .. c /\ f[s] = Unseen
    <3>1. s = log[q].session /\ log[q].sound
      BY <1>1, <1>3, <2>1, <2>3
    <3>2. q \notin 1 .. c
      BY <2>3, <3>1, UnseenIsNew
    <3>3. n < q /\ q \in 1 .. Len(log)
      BY <1>2, <2>3, <3>2
    <3>4. log[q].number \in Nat /\ log[q].number # Unseen
      BY <3>1, <3>3, RowsAre DEF Unseen
    <3>5. k < log[q].number
      BY <2>1, <3>1, <3>3, <3>4, LaterIsGreater
    <3>6. log[q].number <= h[s]
      BY <1>1, <2>1, <3>1, <3>4 DEF Highest
    <3>7. QED
      BY <2>1, <3>4, <3>5, <3>6
  <2>4. CASE n = q /\ n \notin 1 .. c
    <3>1. CASE log[q].sound
      BY <1>1, <2>1, <2>4, <3>1 DEF Highest
    <3>2. CASE ~log[q].sound /\ k = 0
      BY <1>1, <1>3, <2>1, <2>4, <3>2 DEF Unseen
    <3>3. CASE ~log[q].sound /\ k # 0
      <4>1. f[s] # Unseen /\ h[s] = f[s] + 1
        BY <1>1, <1>3, <2>4, <3>3
      <4>2. CASE ~Published(s, k - 1)
        <5>1. k - 1 \in 0 .. k - 1
          BY <2>1, <3>3
        <5>2. QED
          BY <4>2, <5>1 DEF Hole
      <4>3. CASE Published(s, k - 1)
        <5>1. PICK x \in 1 .. Len(log) : log[x].session = s /\ log[x].number = k - 1
          BY <4>3 DEF Published
        <5>2. x < n
          <6>1. n < x => log[n].number < log[x].number
            <7>1. log[x].number # Unseen
              BY <2>1, <3>3, <5>1 DEF Unseen
            <7>2. QED
              BY <2>1, <5>1, <7>1, LaterIsGreater
          <6>2. x # n
            BY <2>1, <5>1
          <6>3. QED
            BY <2>1, <5>1, <6>1, <6>2
        <5>3. x \in 1 .. c
          BY <2>1, <2>4, <5>1, <5>2
        <5>4. k - 1 <= f[s] \/ Hole(s, k - 1)
          <6>1. log[x].number # Unseen
            BY <2>1, <3>3, <5>1 DEF Unseen
          <6>2. QED
            BY <4>1, <5>1, <5>3, <6>1 DEF Counted
        <5>5. Hole(s, k - 1) => Hole(s, k)
          BY <2>1 DEF Hole
        <5> HIDE DEF s, k
        <5>6. k <= h[s] \/ Hole(s, k)
          BY <2>1, <4>1, <5>4, <5>5
        <5>7. QED
          BY <5>6 DEF s, k
      <4>4. QED
        BY <4>2, <4>3
    <3>4. QED
      BY <3>1, <3>2, <3>3
  <2>5. QED
    BY <1>2, <2>2, <2>3, <2>4
<1>4. QED
  BY <1>3 DEF Counted, h, d

\* A gap that goes on record has a reason, and no later record takes it away.
LEMMA WarrantedNext ==
    ASSUME NEW f, NEW c, NEW q, Judging(f, c, q), Counted(f, c),
           NEW g \in BOOLEAN, Warranted(c, g)
    PROVE  Warranted(Highest(c, q), g \/ IsGap(f, log[q]))
<1> DEFINE d == Highest(c, q)
           s == log[q].session
           k == log[q].number
<1> USE DEF Judging
<1>1. /\ q \in 1 .. d /\ \A n \in 1 .. d : n \in 1 .. Len(log) /\ (n \in 1 .. c \/ n = q)
      /\ q \notin 1 .. c => \A n \in 1 .. c : n < q
      /\ \A n \in 1 .. c : n \in 1 .. d /\ n \in 1 .. Len(log)
  BY HighestIs, RowsAre
<1>2. s \in Sessions /\ f[s] \in Nat \cup {Unseen} /\ (log[q].sound => k \in Nat)
  <2>1. s \in Sessions /\ (log[q].sound => k \in Nat)
    BY RowsAre
  <2>2. QED
    BY <2>1 DEF Read
<1> HIDE DEF d
<1>3. ASSUME g PROVE Warranted(d, TRUE)
  <2>1. PICK n \in 1 .. c : \E m \in 0 .. log[n].number - 1 :
            /\ log[n].sound
            /\ \/ ~Published(log[n].session, m)
               \/ \A o \in 1 .. c :
                     log[o].session = log[n].session /\ log[o].sound => log[o].number > m
    BY <1>3 DEF Warranted
  <2>2. PICK m \in 0 .. log[n].number - 1 :
            /\ log[n].sound
            /\ \/ ~Published(log[n].session, m)
               \/ \A o \in 1 .. c :
                     log[o].session = log[n].session /\ log[o].sound => log[o].number > m
    BY <2>1
  <2>3. n \in 1 .. d /\ n \in 1 .. Len(log) /\ log[n].number \in Nat
    BY <1>1, <2>2, RowsAre
  <2>4. ASSUME log[q].session = log[n].session, log[q].sound, q \notin 1 .. c
        PROVE  log[q].number > m
    <3>1. n < q /\ k \in Nat /\ k # Unseen
      BY <1>1, <1>2, <2>4 DEF Unseen
    <3>2. log[n].number < k
      BY <2>3, <2>4, <3>1, LaterIsGreater
    <3>3. QED
      BY <2>2, <2>3, <3>1, <3>2
  <2>5. \/ ~Published(log[n].session, m)
        \/ \A o \in 1 .. d : log[o].session = log[n].session /\ log[o].sound => log[o].number > m
    BY <1>1, <2>2, <2>4
  <2>6. QED
    BY <2>2, <2>3, <2>5 DEF Warranted
<1>4. ASSUME IsGap(f, log[q]) PROVE Warranted(d, TRUE)
  <2>1. log[q].sound /\ k \in Nat
    BY <1>2, <1>4 DEF IsGap
  <2>2. CASE f[s] = Unseen
    <3>1. k # 0 /\ q \notin 1 .. c
      BY <1>4, <2>1, <2>2, UnseenIsNew DEF IsGap
    <3>2. ASSUME NEW o \in 1 .. d, log[o].session = s, log[o].sound
          PROVE  log[o].number > 0
      <4>1. CASE o = q
        BY <2>1, <3>1, <4>1
      <4>2. CASE o \in 1 .. c
        <5>1. log[o].number \in Nat
          BY <1>1, <3>2, RowsAre
        <5>2. log[o].number <= f[s]
          BY <3>2, <4>2 DEF Read
        <5>3. QED
          BY <2>2, <5>1, <5>2 DEF Unseen
      <4>3. QED
        BY <1>1, <4>1, <4>2
    <3>3. 0 \in 0 .. k - 1
      BY <2>1, <3>1
    <3>4. QED
      BY <1>1, <2>1, <3>2, <3>3 DEF Warranted
  <2>3. CASE f[s] # Unseen
    <3>1. f[s] \in Nat /\ k > f[s] + 1
      BY <1>2, <1>4, <2>3 DEF IsGap
    <3>2. q \notin 1 .. c
      <4>1. f[s] < k
        BY <2>1, <3>1
      <4>2. QED
        BY <2>1, <4>1, UnseenIsNew
    <3>3. Hole(s, k)
      <4>1. CASE ~Published(s, k - 1)
        <5>1. k - 1 \in 0 .. k - 1
          BY <2>1, <3>1
        <5>2. QED
          BY <4>1, <5>1 DEF Hole
      <4>2. CASE Published(s, k - 1)
        <5>1. PICK x \in 1 .. Len(log) : log[x].session = s /\ log[x].number = k - 1
          BY <4>2 DEF Published
        <5>2. log[x].number # Unseen
          BY <2>1, <3>1, <5>1 DEF Unseen
        <5>3. x < q
          <6>1. q < x => k < log[x].number
            BY <5>1, <5>2, LaterIsGreater
          <6>2. x # q
            BY <2>1, <5>1
          <6>3. QED
            BY <2>1, <5>1, <6>1, <6>2
        <5>4. x \in 1 .. c
          BY <3>2, <5>1, <5>3
        <5>5. k - 1 <= f[s] \/ Hole(s, k - 1)
          BY <2>3, <5>1, <5>2, <5>4 DEF Counted
        <5>6. Hole(s, k - 1) => Hole(s, k)
          BY <2>1 DEF Hole
        <5> HIDE DEF s, k
        <5>7. QED
          BY <2>1, <3>1, <5>5, <5>6
      <4>3. QED
        BY <4>1, <4>2
    <3>4. QED
      BY <1>1, <2>1, <3>3 DEF Warranted, Hole
  <2>4. QED
    BY <2>2, <2>3
<1>5. QED
  BY <1>3, <1>4 DEF Warranted, d

\* Where the last number of a session is its highest, the next number explains all before it.
LEMMA NextIsExplained ==
    ASSUME NEW f, NEW c, NEW q, Judging(f, c, q), Followed(f, c), q \notin 1 .. c,
           log[q].number # Unseen, f[log[q].session] # Unseen,
           \A n \in 1 .. c : log[n].number # Unseen
    PROVE  /\ f[log[q].session] + 1 <= log[q].number
           /\ log[q].number <= f[log[q].session] + 1 =>
                 \A m \in 0 .. log[q].number - 1 : Explained(log[q].session, m, c)
<1> DEFINE s == log[q].session
           k == log[q].number
<1> USE DEF Judging
<1>1. \A n \in 1 .. c : n < q /\ n \in 1 .. Len(log)
  BY HighestIs, RowsAre
<1>2. s \in Sessions /\ k \in Nat /\ f[s] \in Nat
  <2>1. s \in Sessions /\ k \in Nat
    BY RowsAre
  <2>2. QED
    BY <2>1 DEF Read
<1>3. PICK n \in 1 .. c : log[n].session = s /\ f[s] <= log[n].number
  BY <1>2 DEF Followed
<1>4. \A x \in 1 .. c : log[x].session = s => log[x].number < k /\ log[x].number \in Nat
  BY <1>1, LaterIsGreater, RowsAre
<1>5. f[s] + 1 <= k
  <2>1. log[n].number \in Nat /\ log[n].number < k
    BY <1>3, <1>4
  <2>2. QED
    BY <1>2, <1>3, <2>1
<1>6. ASSUME k <= f[s] + 1, NEW m \in 0 .. k - 1 PROVE Explained(s, m, c)
  <2>1. k = f[s] + 1
    BY <1>2, <1>5, <1>6
  <2>2. log[n].number = f[s] /\ log[n].number \in Nat
    BY <1>2, <1>3, <1>4, <2>1
  <2>3. CASE m = f[s]
    <3>1. Published(s, m)
      BY <1>1, <1>3, <2>2, <2>3 DEF Published
    <3>2. QED
      BY <3>1 DEF Explained
  <2>4. CASE m # f[s]
    <3>1. m \in 0 .. log[n].number - 1
      BY <1>2, <2>1, <2>2, <2>4
    <3>2. \A x \in 1 .. c : log[x].session = s => log[x].number <= f[s]
      BY <1>2, <1>4, <2>1
    <3>3. QED
      BY <1>2, <1>3, <3>1, <3>2 DEF Followed
  <2>5. QED
    BY <2>3, <2>4
<1>7. QED
  BY <1>5, <1>6

\* What is explained stays so with more records judged.
LEMMA ExplainedStays ==
    ASSUME NEW c, NEW d, \A n \in 1 .. c : n \in 1 .. d,
           NEW s, NEW m, Explained(s, m, c)
    PROVE  Explained(s, m, d)
BY DEF Explained

\* A record that no gap is found at.
LEMMA StepExplains ==
    ASSUME NEW f, NEW c, NEW q, Judging(f, c, q), Followed(f, c), q \notin 1 .. c,
           log[q].number # Unseen, \A n \in 1 .. c : log[n].number # Unseen,
           ~IsGap(f, log[q]),
           log[q].sound \/ (f[log[q].session] # Unseen /\ log[q].number <= f[log[q].session] + 1)
    PROVE  \A m \in 0 .. log[q].number - 1 : Explained(log[q].session, m, q)
<1> DEFINE s == log[q].session
           k == log[q].number
<1> USE DEF Judging
<1>1. s \in Sessions /\ k \in Nat /\ q \in Nat /\ \A n \in 1 .. c : n \in 1 .. q /\ n \in 1 .. Len(log)
  BY HighestIs, RowsAre
<1>2. f[s] \in Nat \cup {Unseen}
  BY <1>1 DEF Read
<1>3. CASE f[s] # Unseen
  <2>1. k <= f[s] + 1
    BY <1>1, <1>2, <1>3 DEF IsGap
  <2>2. \A m \in 0 .. k - 1 : Explained(s, m, c)
    BY <1>3, <2>1, NextIsExplained
  <2>3. QED
    BY <1>1, <2>2, ExplainedStays
<1>4. CASE f[s] = Unseen /\ k = 0
  <2>1. 0 .. k - 1 = {}
    BY <1>4
  <2>2. QED
    BY <2>1
<1>5. CASE f[s] = Unseen /\ k # 0
  <2>1. log[q].sound /\ \A x \in Sessions : f[x] = Unseen
    BY <1>5 DEF IsGap, FirstEver
  <2>2. ASSUME NEW j \in 1 .. q - 1, log[j].sound PROVE FALSE
    <3>1. j \in 1 .. c /\ j \in 1 .. Len(log)
      BY <1>1
    <3>2. log[j].number \in Nat /\ log[j].session \in Sessions
      BY <2>2, <3>1, RowsAre
    <3>3. log[j].number <= f[log[j].session]
      BY <2>2, <3>1 DEF Read
    <3>4. QED
      BY <2>1, <3>2, <3>3 DEF Unseen
  <2>3. Opens(q) /\ q \in 1 .. q
    BY <1>1, <2>1, <2>2 DEF Opens
  <2>4. \A m \in 0 .. k - 1 : m < k
    BY <1>1
  <2>5. QED
    BY <2>3, <2>4 DEF Explained
<1>6. QED
  BY <1>3, <1>4, <1>5

LEMMA FollowedNext ==
    ASSUME NEW f, NEW c, NEW q, Judging(f, c, q), NEW g, NEW r, NEW t,
           Unhidden(c, g, r) => Followed(f, c),
           r => t, q \in 1 .. c /\ ~log[q].sound => t,
           Unhidden(Highest(c, q), g \/ IsGap(f, log[q]), t)
    PROVE  Followed(SeenAfter(f, log[q]), Highest(c, q))
<1> DEFINE h == SeenAfter(f, log[q])
           d == Highest(c, q)
           s == log[q].session
           k == log[q].number
<1> USE DEF Judging
<1>1. /\ f \in [Sessions -> Nat \cup {Unseen}] /\ h \in [Sessions -> Nat \cup {Unseen}]
      /\ \A x \in Sessions : f[x] <= h[x] /\ (x # s => h[x] = f[x])
      /\ log[q].sound => h[s] = Highest(f[s], k)
      /\ ~log[q].sound => h[s] = IF f[s] # Unseen THEN f[s] + 1 ELSE f[s]
  BY SeenGrows DEF Read
<1>2. /\ q \in 1 .. d /\ \A n \in 1 .. d : n \in 1 .. Len(log) /\ (n \in 1 .. c \/ n = q)
      /\ q \notin 1 .. c => \A n \in 1 .. c : n < q
      /\ \A n \in 1 .. c : n \in 1 .. d /\ n \in 1 .. Len(log)
  BY HighestIs, RowsAre
<1>3. /\ ~g /\ ~IsGap(f, log[q]) /\ ~t /\ ~r
      /\ \A n \in 1 .. d : log[n].number # Unseen
      /\ \A n \in 1 .. c : log[n].number # Unseen
  BY <1>2 DEF Unhidden
<1>4. Followed(f, c)
  BY <1>3 DEF Unhidden
<1>5. s \in Sessions /\ k \in Nat /\ f[s] \in Nat \cup {Unseen}
  <2>1. s \in Sessions /\ k \in Nat
    BY <1>2, <1>3, RowsAre
  <2>2. QED
    BY <1>1, <2>1
<1>6. CASE q \in 1 .. c
  <2>1. d = c
    BY <1>6 DEF Highest
  <2>2. log[q].sound /\ k <= f[s]
    BY <1>3, <1>6 DEF Read
  <2>3. h[s] = f[s]
    BY <1>1, <1>5, <2>2 DEF Highest, Unseen
  <2>4. h = f
    BY <1>1, <2>3
  <2>5. QED
    BY <1>4, <2>1, <2>4
<1>7. CASE q \notin 1 .. c
  <2>1. d = q
    BY <1>2, <1>7 DEF Highest
  <2>2. \A m : \A x \in Sessions : Explained(x, m, c) => Explained(x, m, d)
    BY <1>2, ExplainedStays
  <2>3. log[q].sound \/ (f[s] # Unseen /\ k <= f[s] + 1) =>
           \A m \in 0 .. k - 1 : Explained(s, m, d)
    <3>1. k # Unseen
      BY <1>2, <1>3
    <3>2. log[q].sound \/ (f[s] # Unseen /\ k <= f[s] + 1) =>
             \A m \in 0 .. k - 1 : Explained(s, m, q)
      BY <1>3, <1>4, <1>7, <3>1, StepExplains
    <3>3. QED
      BY <2>1, <3>2
  <2>4. f[s] # Unseen => f[s] + 1 <= k
    <3>1. k # Unseen
      BY <1>2, <1>3
    <3>2. QED
      BY <1>3, <1>4, <1>7, <3>1, NextIsExplained
  <2>5. \A n \in 1 .. c : log[n].session = s => log[n].number < k /\ log[n].number \in Nat
    BY <1>2, <1>3, <1>7, LaterIsGreater, RowsAre
  <2> HIDE DEF h, d
  <2>6. ASSUME NEW n \in 1 .. d, log[n].sound, NEW m \in 0 .. log[n].number - 1
        PROVE  Explained(log[n].session, m, d)
    <3>1. CASE n = q
      BY <2>3, <2>6, <3>1
    <3>2. CASE n \in 1 .. c
      <4>1. log[n].session \in Sessions
        BY <1>2, RowsAre
      <4>2. Explained(log[n].session, m, c)
        BY <1>4, <2>6, <3>2 DEF Followed
      <4>3. QED
        BY <2>2, <4>1, <4>2
    <3>3. QED
      BY <1>2, <3>1, <3>2
  <2>7. ASSUME NEW x \in Sessions, h[x] # Unseen, x # s
        PROVE  /\ \E n \in 1 .. d : log[n].session = x /\ h[x] <= log[n].number
               /\ (\A n \in 1 .. d : log[n].session = x => log[n].number <= h[x]) =>
                     \A n \in 1 .. d : log[n].session = x =>
                        \A m \in 0 .. log[n].number - 1 : Explained(x, m, d)
    <3>1. h[x] = f[x]
      BY <1>1, <2>7
    <3>2. \A n \in 1 .. d : log[n].session = x => n \in 1 .. c
      BY <1>2, <2>7
    <3>3. /\ \E n \in 1 .. c : log[n].session = x /\ f[x] <= log[n].number
          /\ (\A n \in 1 .. c : log[n].session = x => log[n].number <= f[x]) =>
                \A n \in 1 .. c : log[n].session = x =>
                   \A m \in 0 .. log[n].number - 1 : Explained(x, m, c)
      BY <1>4, <2>7, <3>1 DEF Followed
    <3>4. QED
      BY <1>2, <2>2, <3>1, <3>2, <3>3
  <2>8. ASSUME h[s] # Unseen
        PROVE  /\ \E n \in 1 .. d : log[n].session = s /\ h[s] <= log[n].number
               /\ (\A n \in 1 .. d : log[n].session = s => log[n].number <= h[s]) =>
                     \A n \in 1 .. d : log[n].session = s =>
                        \A m \in 0 .. log[n].number - 1 : Explained(s, m, d)
    <3>1. h[s] <= k
      BY <1>1, <1>5, <2>4, <2>8 DEF Highest, Unseen
    <3>2. ASSUME k <= h[s]
          PROVE  \A n \in 1 .. d : log[n].session = s =>
                    \A m \in 0 .. log[n].number - 1 : Explained(s, m, d)
      <4>1. log[q].sound \/ (f[s] # Unseen /\ k <= f[s] + 1)
        BY <1>1, <2>8, <3>2
      <4>2. \A m \in 0 .. k - 1 : Explained(s, m, d)
        BY <2>3, <4>1
      <4>3. ASSUME NEW n \in 1 .. d, log[n].session = s, NEW m \in 0 .. log[n].number - 1
            PROVE  m \in 0 .. k - 1
        <5>1. n = q \/ (log[n].number < k /\ log[n].number \in Nat)
          BY <1>2, <2>5, <4>3
        <5>2. QED
          BY <1>5, <4>3, <5>1
      <4>4. QED
        BY <4>2, <4>3
    <3>3. QED
      BY <1>2, <3>1, <3>2
  <2>9. QED
    BY <2>6, <2>7, <2>8 DEF Followed, h, d
<1>8. QED
  BY <1>6, <1>7

LEMMA JudgesNext ==
    ASSUME NEW f, NEW c, NEW q, Ordered, c \in 0 .. Len(log), q \in 1 .. Len(log), q <= c + 1,
           NEW g \in BOOLEAN, NEW r \in BOOLEAN, NEW t \in BOOLEAN, Judged(f, c, g, r),
           r => t, q \in 1 .. c /\ ~log[q].sound => t
    PROVE  Judged(SeenAfter(f, log[q]), Highest(c, q), g \/ IsGap(f, log[q]), t)
<1>1. /\ Judging(f, c, q) /\ Counted(f, c) /\ Warranted(c, g)
      /\ Unhidden(c, g, r) => Followed(f, c)
  BY DEF Judged, Judging
<1>2. Read(SeenAfter(f, log[q]), Highest(c, q)) /\ Counted(SeenAfter(f, log[q]), Highest(c, q))
  BY <1>1, ReadNext, CountedNext
<1>3. Warranted(Highest(c, q), g \/ IsGap(f, log[q]))
  BY <1>1, WarrantedNext
<1>4. Unhidden(Highest(c, q), g \/ IsGap(f, log[q]), t)
        => Followed(SeenAfter(f, log[q]), Highest(c, q))
  BY <1>1, FollowedNext
<1>5. QED
  BY <1>2, <1>3, <1>4 DEF Judged

-----------------------------------------------------------------------------
\* A batch.

\* A set of naturals that is not empty has a least element: the number of its lower bounds, less
\* one.  (It stands for the induction theorems, whose operator parameter no prover instantiates.)
LEMMA LeastNatural ==
    ASSUME NEW T \in SUBSET Nat, T # {}
    PROVE  \E x \in T : \A y \in T : x <= y
<1> DEFINE D == {m \in Nat : \A y \in T : m <= y}
           k == Cardinality(D)
<1>1. PICK n \in T : TRUE
  OBVIOUS
<1>2. D \in SUBSET Nat /\ n \in Nat /\ \A m \in D : m <= n
  BY <1>1
<1>3. IsFiniteSet(D) /\ k \in Nat
  BY <1>2, FS_BoundedSetOfNaturals, FS_CardinalityType
<1>4. 0 \in D /\ \A m \in D : 0 .. m \in SUBSET D
  OBVIOUS
<1>5. k \notin D
  <2>1. Cardinality(0 .. k) = k + 1
    BY <1>3, FS_Interval
  <2>2. k \in D => Cardinality(0 .. k) <= k
    BY <1>3, <1>4, FS_Subset
  <2>3. QED
    BY <1>3, <2>1, <2>2
<1>6. k - 1 \in D
  <2>1. ASSUME k - 1 \notin D
        PROVE  D \in SUBSET (0 .. k - 2)
    <3>1. ASSUME NEW m \in D, ~(m <= k - 2)
          PROVE  FALSE
      <4>1. m \in Nat /\ k - 1 <= m
        BY <1>2, <1>3, <3>1
      <4>2. k # 0
        <5>1. D # {}
          BY <1>4
        <5>2. QED
          BY <1>3, <5>1, FS_EmptySet
      <4>3. k - 1 \in 0 .. m
        BY <1>3, <4>1, <4>2
      <4>4. QED
        BY <1>4, <2>1, <4>3
    <3>2. QED
      BY <1>2, <1>3, <3>1
  <2>2. IsFiniteSet(0 .. k - 2) /\ Cardinality(0 .. k - 2) = IF 0 > k - 2 THEN 0 ELSE k - 1
    <3>1. k - 2 \in Int /\ k - 2 - 0 + 1 = k - 1
      BY <1>3
    <3>2. 0 \in Int
      OBVIOUS
    <3>3. /\ IsFiniteSet(0 .. k - 2)
          /\ Cardinality(0 .. k - 2) = IF 0 > k - 2 THEN 0 ELSE k - 2 - 0 + 1
      BY <3>1, <3>2, FS_Interval
    <3>4. QED
      BY <3>1, <3>3
  <2>3. k # 0
    <3>1. D # {}
      BY <1>4
    <3>2. QED
      BY <1>3, <3>1, FS_EmptySet
  <2>4. ASSUME k - 1 \notin D
        PROVE  k <= Cardinality(0 .. k - 2)
    BY <2>1, <2>2, <2>4, FS_Subset
  <2>5. QED
    BY <1>3, <2>2, <2>3, <2>4
<1>7. PICK y \in T : ~(k <= y)
  BY <1>3, <1>5
<1>8. y \in Nat /\ k - 1 <= y
  BY <1>6, <1>7
<1>9. y = k - 1
  BY <1>3, <1>7, <1>8
<1>10. QED
  BY <1>6, <1>9


\* The last numbers after each record of a batch up to u.
Run(u) ==
    LET batch == SubSeq(log, after + 1, u)
        seen[n \in 0 .. Len(batch)] ==
           IF n = 0 THEN last ELSE SeenAfter(seen[n - 1], batch[n])
    IN  seen

LEMMA BatchIs ==
    ASSUME Ordered, Placed, NEW u \in after + 1 .. Len(log)
    PROVE  /\ Len(SubSeq(log, after + 1, u)) = u - after /\ u - after \in Nat
           /\ \A n \in 1 .. u - after : /\ SubSeq(log, after + 1, u)[n] = log[after + n]
                                        /\ after + n \in 1 .. Len(log)
<1>1. log \in Seq(Row) /\ after \in Nat /\ Len(log) \in Nat /\ u \in Nat /\ after + 1 <= u /\ u <= Len(log)
  BY DEF Ordered, Placed
<1>2. QED
  BY <1>1

\* Run is what its recursion says: a function on the first records of a batch can be extended by the
\* next, so that there is no batch on which it cannot be built.
LEMMA RunIs ==
    ASSUME Ordered, Placed, NEW u \in after + 1 .. Len(log), last \in [Sessions -> Nat \cup {Unseen}]
    PROVE  /\ \A n \in 0 .. u - after : Run(u)[n] \in [Sessions -> Nat \cup {Unseen}]
           /\ Run(u)[0] = last
           /\ \A n \in 1 .. u - after : Run(u)[n] = SeenAfter(Run(u)[n - 1], log[after + n])
<1> DEFINE L == u - after
           Lasts == [Sessions -> Nat \cup {Unseen}]
           Built(g, m) == /\ g \in [0 .. m -> Lasts] /\ g[0] = last
                          /\ \A n \in 1 .. m : g[n] = SeenAfter(g[n - 1], log[after + n])
           Unbuilt == {m \in 0 .. L : ~\E g \in [0 .. m -> Lasts] : Built(g, m)}
<1>1. L \in Nat /\ \A n \in 1 .. L : after + n \in 1 .. Len(log)
  BY BatchIs
<1>2. \A n \in 1 .. L : \A f \in Lasts : SeenAfter(f, log[after + n]) \in Lasts
  BY <1>1, SeenGrows
<1> HIDE DEF L, Lasts
<1>3. 0 \notin Unbuilt
  <2>1. Built([n \in 0 .. 0 |-> last], 0)
    BY DEF Lasts
  <2>2. QED
    BY <2>1
<1>4. ASSUME NEW m \in 0 .. L, m # 0, m - 1 \notin Unbuilt PROVE m \notin Unbuilt
  <2>1. m \in 1 .. L /\ m - 1 \in 0 .. L
    BY <1>1, <1>4
  <2>2. PICK g \in [0 .. m - 1 -> Lasts] : Built(g, m - 1)
    BY <1>4, <2>1
  <2> DEFINE x == SeenAfter(g[m - 1], log[after + m])
             h == [n \in 0 .. m |-> IF n = m THEN x ELSE g[n]]
  <2>3. g[m - 1] \in Lasts /\ \A n \in 0 .. m - 1 : g[n] \in Lasts
    <3>1. m - 1 \in 0 .. m - 1
      BY <1>1, <2>1
    <3>2. g \in [0 .. m - 1 -> Lasts]
      BY <2>2
    <3>3. QED
      BY <3>1, <3>2
  <2>4. x \in Lasts
    BY <1>2, <2>1, <2>3
  <2>5. h \in [0 .. m -> Lasts]
    <3> HIDE DEF x
    <3>1. \A n \in 0 .. m : n = m \/ n \in 0 .. m - 1
      BY <2>1
    <3>2. QED
      BY <2>3, <2>4, <3>1
  <2>6. h[0] = last
    BY <1>1, <2>1, <2>2
  <2>7. ASSUME NEW n \in 1 .. m PROVE h[n] = SeenAfter(h[n - 1], log[after + n])
    <3>1. n - 1 \in 0 .. m - 1 /\ n - 1 # m /\ n \in 0 .. m /\ n - 1 \in 0 .. m
      BY <1>1, <2>1
    <3>2. h[n - 1] = g[n - 1]
      BY <3>1
    <3>3. CASE n = m
      BY <3>1, <3>2, <3>3
    <3>4. CASE n # m
      <4>1. n \in 1 .. m - 1 /\ h[n] = g[n]
        BY <1>1, <2>1, <3>1, <3>4
      <4>2. QED
        BY <2>2, <3>2, <4>1
    <3>5. QED
      BY <3>3, <3>4
  <2>8. Built(h, m)
    BY <2>5, <2>6, <2>7
  <2>9. QED
    BY <2>5, <2>8
<1>5. Unbuilt = {}
  <2>1. SUFFICES ASSUME Unbuilt # {} PROVE FALSE
    OBVIOUS
  <2>2. Unbuilt \in SUBSET Nat
    BY <1>1
  <2>3. PICK m \in Unbuilt : \A x \in Unbuilt : m <= x
    BY <2>1, <2>2, LeastNatural
  <2>4. m \in 0 .. L /\ m # 0 /\ m \in Nat
    <3>1. m \in 0 .. L
      BY <2>3
    <3>2. m # 0
      BY <1>3, <2>3
    <3>3. QED
      BY <1>1, <3>1, <3>2
  <2>5. m - 1 \notin Unbuilt
    BY <2>3, <2>4
  <2>6. QED
    BY <1>4, <2>3, <2>4, <2>5
<1>6. PICK g \in [0 .. L -> Lasts] : Built(g, L)
  <2>1. L \in 0 .. L
    BY <1>1
  <2>2. \E g \in [0 .. L -> Lasts] : Built(g, L)
    BY <1>5, <2>1
  <2>3. QED
    BY <2>2
<1> DEFINE batch == SubSeq(log, after + 1, u)
           Body(f) == [n \in 0 .. Len(batch) |->
                         IF n = 0 THEN last ELSE SeenAfter(f[n - 1], batch[n])]
           s == Run(u)
<1>7. Len(batch) = L /\ \A n \in 1 .. L : batch[n] = log[after + n]
  BY BatchIs DEF L
<1>8. s = CHOOSE f : f = Body(f)
  BY DEF Run
<1> HIDE DEF batch, s
<1>9. g = Body(g)
  <2>1. DOMAIN g = 0 .. L
    BY <1>6
  <2>2. ASSUME NEW n \in 0 .. L PROVE g[n] = Body(g)[n]
    <3>1. n = 0 \/ n \in 1 .. L
      BY <1>1
    <3>2. QED
      BY <1>6, <1>7, <3>1
  <2>3. QED
    BY <1>6, <1>7, <2>1, <2>2
<1>10. s = Body(s)
  BY <1>8, <1>9
<1>11. /\ DOMAIN s = 0 .. L /\ s[0] = last
       /\ \A n \in 1 .. L : s[n] = SeenAfter(s[n - 1], log[after + n])
  <2>1. DOMAIN s = 0 .. L /\ \A n \in 0 .. L : s[n] = Body(s)[n]
    BY <1>7, <1>10
  <2>2. 0 \in 0 .. L /\ \A n \in 1 .. L : n \in 0 .. L /\ n # 0
    BY <1>1
  <2>3. QED
    BY <1>7, <2>1, <2>2
<1>12. \A n \in 0 .. L : s[n] \in Lasts
  <2> DEFINE Outside == {m \in 0 .. L : s[m] \notin Lasts}
  <2>1. SUFFICES ASSUME Outside # {} PROVE FALSE
    OBVIOUS
  <2>2. Outside \in SUBSET Nat
    BY <1>1
  <2>3. PICK m \in Outside : \A x \in Outside : m <= x
    BY <2>1, <2>2, LeastNatural
  <2>4. m \in 0 .. L /\ m # 0
    BY <1>11, <2>3 DEF Lasts
  <2>5. m \in 1 .. L /\ m - 1 \in 0 .. L /\ ~(m <= m - 1)
    BY <1>1, <2>4
  <2>6. s[m - 1] \in Lasts
    BY <2>3, <2>5
  <2>7. s[m] \in Lasts
    BY <1>2, <1>11, <2>5, <2>6
  <2>8. QED
    BY <2>3, <2>7
<1>13. QED
  BY <1>11, <1>12 DEF s, L, Lasts

\* The records of a batch up to the n-th: a gap found at one of them, an unsound one judged again.
Skips(u, n) == \E m \in 1 .. n : IsGap(Run(u)[m - 1], log[after + m])
Again(n)    == \E x \in after + 1 .. Highest(after, cursor) : x <= after + n /\ ~log[x].sound

LEMMA BatchJudged ==
    ASSUME Ordered, Placed, NEW u \in after + 1 .. Len(log), Judged(last, cursor, gap, recounted)
    PROVE  Judged(Run(u)[u - after], Highest(cursor, u), gap \/ Skips(u, u - after),
                  recounted \/ Again(u - after))
<1> DEFINE L == u - after
           Good(n) == Judged(Run(u)[n], Highest(cursor, after + n), gap \/ Skips(u, n),
                             recounted \/ Again(n))
           Bad == {n \in 0 .. L : ~Good(n)}
<1>1. /\ L \in Nat /\ after \in Nat /\ cursor \in Nat /\ after <= cursor /\ cursor <= Len(log)
      /\ Len(log) \in Nat /\ u \in Nat /\ gap \in BOOLEAN /\ recounted \in BOOLEAN
      /\ after + L = u /\ \A n \in 1 .. L : after + n \in 1 .. Len(log)
  BY RowsAre DEF Placed
<1>2. last \in [Sessions -> Nat \cup {Unseen}]
  BY DEF Judged, Read
<1>3. /\ \A n \in 0 .. L : Run(u)[n] \in [Sessions -> Nat \cup {Unseen}]
      /\ Run(u)[0] = last
      /\ \A n \in 1 .. L : Run(u)[n] = SeenAfter(Run(u)[n - 1], log[after + n])
  BY <1>2, RunIs
<1>4. Good(0)
  <2>1. Highest(cursor, after + 0) = cursor
    BY <1>1 DEF Highest
  <2>2. Skips(u, 0) = FALSE
    BY DEF Skips
  <2>3. Again(0) = FALSE
    BY <1>1 DEF Again, Highest
  <2>4. (gap \/ Skips(u, 0)) = gap /\ (recounted \/ Again(0)) = recounted
    BY <1>1, <2>2, <2>3
  <2>5. QED
    BY <1>3, <2>1, <2>4
<1>5. ASSUME NEW n \in 1 .. L, Good(n - 1) PROVE Good(n)
  <2> DEFINE q == after + n
             c == Highest(cursor, after + (n - 1))
             f == Run(u)[n - 1]
             g == gap \/ Skips(u, n - 1)
             r == recounted \/ Again(n - 1)
             t == recounted \/ Again(n)
  <2>1. /\ q \in 1 .. Len(log) /\ c \in 0 .. Len(log) /\ q <= c + 1 /\ n \in Nat
        /\ Highest(c, q) = Highest(cursor, q)
    BY <1>1 DEF Highest
  <2>2. g \in BOOLEAN /\ r \in BOOLEAN /\ t \in BOOLEAN
    BY <1>1 DEF Skips, Again
  <2>3. r => t
    BY <1>1 DEF Again, Highest
  <2>4. q \in 1 .. c /\ ~log[q].sound => t
    BY <1>1 DEF Again, Highest
  <2>5. Judged(f, c, g, r)
    BY <1>5
  <2>6. (g \/ IsGap(f, log[q])) = (gap \/ Skips(u, n))
    <3>1. \A m \in 1 .. n : m = n \/ m \in 1 .. n - 1
      BY <2>1
    <3>2. n \in 1 .. n /\ \A m \in 1 .. n - 1 : m \in 1 .. n
      BY <1>1
    <3>3. Skips(u, n) <=> Skips(u, n - 1) \/ IsGap(f, log[q])
      BY <3>1, <3>2 DEF Skips
    <3>4. IsGap(f, log[q]) \in BOOLEAN /\ Skips(u, n) \in BOOLEAN /\ Skips(u, n - 1) \in BOOLEAN
      <4>1. log[q].sound \in BOOLEAN
        BY <2>1, RowsAre DEF Placed
      <4>2. QED
        BY <4>1 DEF Skips, IsGap
    <3>5. QED
      BY <1>1, <3>3, <3>4
  <2> HIDE DEF c, f, g, r, t, q
  <2>7. Judged(SeenAfter(f, log[q]), Highest(c, q), g \/ IsGap(f, log[q]), t)
    BY <2>1, <2>2, <2>3, <2>4, <2>5, JudgesNext
  <2>8. Run(u)[n] = SeenAfter(f, log[q])
    BY <1>3 DEF f, q
  <2>9. Judged(Run(u)[n], Highest(cursor, q), gap \/ Skips(u, n), t)
    BY <2>1, <2>6, <2>7, <2>8
  <2>10. QED
    BY <2>9 DEF q, t
<1> HIDE DEF Good
<1>6. Bad = {}
  <2>1. SUFFICES ASSUME Bad # {} PROVE FALSE
    OBVIOUS
  <2>2. Bad \in SUBSET Nat
    BY <1>1
  <2>3. PICK m \in Bad : \A x \in Bad : m <= x
    BY <2>1, <2>2, LeastNatural
  <2>4. m \in 0 .. L /\ m # 0
    BY <1>4, <2>3
  <2>5. m \in 1 .. L /\ m - 1 \in 0 .. L /\ ~(m <= m - 1)
    BY <1>1, <2>4
  <2>6. Good(m - 1)
    BY <2>3, <2>5
  <2>7. QED
    BY <1>5, <2>3, <2>5, <2>6
<1>7. Good(L)
  BY <1>1, <1>6
<1>8. QED
  BY <1>1, <1>7 DEF Good

-----------------------------------------------------------------------------
\* The steps.

\* What is judged is a matter of the log alone.
LEMMA SameLog ==
    ASSUME log' = log, Judged(last', cursor', gap', recounted')
    PROVE  Judged(last, cursor, gap, recounted)'
BY DEF Judged, Read, Counted, Warranted, Unhidden, Followed, Hole, Published, Explained, Opens

LEMMA OrderStays ==
    ASSUME Ordered, Placed, [Next]_vars
    PROVE  Ordered' /\ Placed'
<1>1. /\ log \in Seq(Row) /\ Len(log) \in Nat /\ session \in Sessions /\ next \in Nat
      /\ Len(log) <= MaxRecords /\ next <= Len(log) + MaxSkips
      /\ MaxRecords \in Nat /\ MaxSkips \in Nat
  BY ContiguityAssumption DEF Ordered
<1>2. ASSUME NEW row \in Row, log' = Append(log, row), row.session = session,
             \/ row.number = next /\ next' = next + 1
             \/ row.number = Unseen /\ ~row.sound /\ next' = next,
             Len(log) < MaxRecords, UNCHANGED <<session, cursor, acked, after, last, gap, recounted>>
      PROVE  Ordered' /\ Placed'
  <2>1. /\ Len(log') = Len(log) + 1 /\ log' \in Seq(Row) /\ log'[Len(log) + 1] = row
        /\ \A n \in 1 .. Len(log) : log'[n] = log[n]
    BY <1>1, <1>2
  <2>2. /\ Len(log') <= MaxRecords /\ next' \in Nat /\ next' <= Len(log') + MaxSkips
        /\ next <= next'
    BY <1>1, <1>2, <2>1
  <2>3. \A n \in 1 .. Len(log') : n \in 1 .. Len(log) \/ n = Len(log) + 1
    BY <1>1, <2>1
  <2>4. session \in Int /\ \A n \in 1 .. Len(log) : log[n].number \in Int /\ log[n].session \in Int
    <3>1. \A s \in Sessions : s \in Int
      BY ContiguityAssumption DEF Sessions
    <3>2. QED
      BY <1>1, <3>1, RowsAre
  <2>5. \A n \in 1 .. Len(log) : /\ log[n].session <= session
                                 /\ log[n].sound => log[n].number # Unseen
                                 /\ log[n].session = session => log[n].number < next
    BY DEF Ordered
  <2>6. ASSUME NEW n \in 1 .. Len(log')
        PROVE  /\ log'[n].session <= session
               /\ log'[n].sound => log'[n].number # Unseen
               /\ log'[n].session = session => log'[n].number < next'
    <3>1. CASE n \in 1 .. Len(log)
      <4>1. log'[n] = log[n]
        BY <2>1, <3>1
      <4>2. log[n].session = session => log[n].number < next'
        BY <1>1, <2>2, <2>4, <2>5, <3>1
      <4>3. QED
        BY <2>5, <3>1, <4>1, <4>2
    <3>2. CASE n = Len(log) + 1
      BY <1>1, <1>2, <2>1, <2>4, <3>2 DEF Unseen
    <3>3. QED
      BY <2>3, <3>1, <3>2
  <2>7. ASSUME NEW m \in 1 .. Len(log'), NEW n \in 1 .. Len(log'), m < n
        PROVE  /\ log'[m].session <= log'[n].session
               /\ log'[m].session = log'[n].session /\ log'[n].number # Unseen
                     => log'[m].number < log'[n].number
    <3>1. m \in 1 .. Len(log) /\ log'[m] = log[m]
      BY <1>1, <2>1, <2>7
    <3>2. CASE n \in 1 .. Len(log)
      BY <2>1, <2>7, <3>1, <3>2 DEF Ordered
    <3>3. CASE n = Len(log) + 1
      <4>1. log'[n] = row
        BY <2>1, <3>3
      <4>2. QED
        BY <1>2, <2>5, <3>1, <4>1
    <3>4. QED
      BY <2>3, <3>2, <3>3
  <2>8. Ordered'
    BY <1>1, <1>2, <2>1, <2>2, <2>6, <2>7 DEF Ordered
  <2>9. Placed'
    BY <1>1, <1>2, <2>1 DEF Placed
  <2>10. QED
    BY <2>8, <2>9
<1>3. ASSUME NEW sound \in BOOLEAN, Publish(sound) PROVE Ordered' /\ Placed'
  <2> DEFINE row == [session |-> session, number |-> next, sound |-> sound]
  <2>1. next \in Numbers /\ next # Unseen
    BY <1>1, <1>3 DEF Publish, Numbers, Unseen
  <2>2. row \in Row /\ row.session = session /\ row.number = next
    BY <1>1, <2>1 DEF Row
  <2>3. log' = Append(log, row) /\ next' = next + 1 /\ Len(log) < MaxRecords
        /\ UNCHANGED <<session, cursor, acked, after, last, gap, recounted>>
    BY <1>3 DEF Publish
  <2> HIDE DEF row
  <2>4. QED
    BY <1>2, <2>2, <2>3
<1>4. CASE Inject
  <2> DEFINE row == [session |-> session, number |-> Unseen, sound |-> FALSE]
  <2>1. row \in Row /\ row.session = session /\ row.number = Unseen /\ ~row.sound
    BY <1>1 DEF Row
  <2>2. log' = Append(log, row) /\ next' = next /\ Len(log) < MaxRecords
        /\ UNCHANGED <<session, cursor, acked, after, last, gap, recounted>>
    BY <1>4 DEF Inject
  <2> HIDE DEF row
  <2>3. QED
    BY <1>2, <2>1, <2>2
<1>5. ASSUME UNCHANGED <<log, session>>, next' \in Nat, next <= next', next' <= Len(log) + MaxSkips
      PROVE  Ordered'
  <2>1. \A n \in 1 .. Len(log) : log[n].session = session => log[n].number < next
    BY DEF Ordered
  <2>2. \A n \in 1 .. Len(log) : log[n].number \in Int
    BY RowsAre
  <2>3. \A n \in 1 .. Len(log) : log[n].session = session => log[n].number < next'
    BY <1>1, <1>5, <2>1, <2>2
  <2>4. QED
    BY <1>5, <2>3 DEF Ordered
<1>6. UNCHANGED <<log, cursor, acked, after, gap, recounted>> => Placed'
  BY DEF Placed
<1>7. CASE SkipSequence
  <2>1. UNCHANGED <<log, session, cursor, acked, after, gap, recounted>> /\ next' = next + 1
        /\ next < Len(log) + MaxSkips
    BY <1>7 DEF SkipSequence
  <2>2. QED
    BY <1>1, <1>5, <1>6, <2>1
<1>8. CASE NewSession
  <2>1. /\ UNCHANGED <<log, cursor, acked, after, gap, recounted>>
        /\ session' = session + 1 /\ session' \in Sessions /\ next' = 0
    BY <1>1, <1>8, ContiguityAssumption DEF NewSession, Sessions
  <2>2. session \in Nat /\ \A n \in 1 .. Len(log) :
           /\ log[n].session \in Nat /\ log[n].session <= session
    <3>1. \A s \in Sessions : s \in Nat
      BY ContiguityAssumption DEF Sessions
    <3>2. QED
      BY <1>1, <3>1, RowsAre DEF Ordered
  <2>3. \A n \in 1 .. Len(log) : log[n].session <= session' /\ log[n].session # session'
    BY <2>1, <2>2
  <2>4. Ordered'
    BY <1>1, <2>1, <2>3 DEF Ordered
  <2>5. QED
    BY <1>6, <2>1, <2>4
<1>9. CASE Commit
  <2>1. PICK u \in after + 1 .. Len(log) :
           cursor' = Highest(cursor, u) /\ after' = u /\ gap' \in BOOLEAN /\ recounted' \in BOOLEAN
    BY <1>9 DEF Commit, Placed
  <2>2. UNCHANGED <<log, session, next, acked>>
    BY <1>9 DEF Commit
  <2>3. Placed'
    BY <1>1, <2>1, <2>2 DEF Placed, Highest
  <2>4. QED
    BY <1>1, <1>5, <2>2, <2>3
<1>10. CASE Acknowledge
  <2>1. UNCHANGED <<log, session, next, cursor, after, gap, recounted>> /\ acked' = cursor
        /\ after = cursor
    BY <1>10 DEF Acknowledge
  <2>2. QED
    BY <1>1, <1>5, <2>1 DEF Placed
<1>11. CASE Restart
  <2>1. UNCHANGED <<log, session, next, cursor, acked, gap, recounted>> /\ after' = acked
    BY <1>11 DEF Restart
  <2>2. QED
    BY <1>1, <1>5, <2>1 DEF Placed
<1>12. CASE UNCHANGED vars
  BY <1>12 DEF vars, Ordered, Placed
<1>13. QED
  BY <1>3, <1>4, <1>7, <1>8, <1>9, <1>10, <1>11, <1>12 DEF Next

LEMMA CommitJudges ==
    ASSUME Ordered, Placed, Judged(last, cursor, gap, recounted), Commit
    PROVE  Judged(last, cursor, gap, recounted)'
<1>1. PICK u \in after + 1 .. Len(log) :
         LET batch == SubSeq(log, after + 1, u)
         IN  /\ last' = Run(u)[Len(batch)]
             /\ gap' = (gap \/ \E n \in 1 .. Len(batch) : IsGap(Run(u)[n - 1], batch[n]))
             /\ recounted' = (recounted \/ \E n \in after + 1 .. Highest(after, cursor) :
                                              n <= u /\ ~log[n].sound)
             /\ cursor' = Highest(cursor, u)
  BY DEF Commit, Run
<1> DEFINE L == u - after
           batch == SubSeq(log, after + 1, u)
<1>2. Len(batch) = L /\ L \in Nat /\ after + L = u /\ \A n \in 1 .. L : batch[n] = log[after + n]
  <2>1. after \in Int /\ u \in Int
    BY RowsAre DEF Placed
  <2>2. QED
    BY <2>1, BatchIs
<1>3. Judged(Run(u)[L], Highest(cursor, u), gap \/ Skips(u, L), recounted \/ Again(L))
  BY BatchJudged
<1>4. last' = Run(u)[L] /\ cursor' = Highest(cursor, u)
  BY <1>1, <1>2
<1>5. gap' = (gap \/ Skips(u, L))
  <2> HIDE DEF batch, L
  <2>1. gap' = (gap \/ \E n \in 1 .. L : IsGap(Run(u)[n - 1], batch[n]))
    BY <1>1, <1>2 DEF batch
  <2>2. (\E n \in 1 .. L : IsGap(Run(u)[n - 1], batch[n])) <=> Skips(u, L)
    BY <1>2 DEF Skips
  <2>3. QED
    BY <2>1, <2>2
<1>6. recounted' = (recounted \/ Again(L))
  BY <1>1, <1>2 DEF Again
<1>7. log' = log
  BY DEF Commit
<1> HIDE DEF L, batch
<1>8. Judged(last', cursor', gap', recounted')
  BY <1>3, <1>4, <1>5, <1>6
<1>9. QED
  BY <1>7, <1>8, SameLog

\* A record more in the log, of the gateway's session and with its next number or none: what was
\* skipped before a committed one stays so.
LEMMA PublishedLater ==
    ASSUME Ordered, Placed, NEW row \in Row, log' = Append(log, row), row.session = session,
           row.number = next \/ row.number = Unseen
    PROVE  /\ \A n \in 1 .. cursor : log'[n] = log[n]
           /\ \A m : \A s \in Sessions : Published(s, m) => Published(s, m)'
           /\ \A n \in 1 .. cursor : \A m \in 0 .. log[n].number - 1 : \A s \in Sessions :
                 s = log[n].session /\ ~Published(s, m) => ~Published(s, m)'
<1>1. /\ log \in Seq(Row) /\ Len(log) \in Nat /\ next \in Nat
      /\ \A n \in 1 .. Len(log) : log[n].session = session => log[n].number < next
  BY DEF Ordered
<1>2. /\ Len(log') = Len(log) + 1 /\ log'[Len(log) + 1] = row
      /\ \A n \in 1 .. Len(log) : log'[n] = log[n]
  BY <1>1
<1>3. \A n \in 1 .. cursor : n \in 1 .. Len(log)
  BY <1>1 DEF Placed
<1>4. \A n \in 1 .. Len(log) : n \in 1 .. Len(log')
  BY <1>1, <1>2
<1>5. ASSUME NEW m, NEW s \in Sessions, Published(s, m) PROVE Published(s, m)'
  BY <1>2, <1>4, <1>5 DEF Published
<1>6. ASSUME NEW n \in 1 .. cursor, NEW m \in 0 .. log[n].number - 1, NEW s \in Sessions,
             s = log[n].session, ~Published(s, m), Published(s, m)'
      PROVE  FALSE
  <2>1. log'[n] = log[n] /\ n \in 1 .. Len(log)
    BY <1>2, <1>3
  <2>2. PICK x \in 1 .. Len(log') : log'[x].session = log[n].session /\ log'[x].number = m
    BY <1>6 DEF Published
  <2>3. x \notin 1 .. Len(log)
    BY <1>2, <1>6, <2>2 DEF Published
  <2>4. log'[x] = row
    BY <1>1, <1>2, <2>2, <2>3
  <2>5. log[n].number \in Int /\ m \in Nat /\ m < log[n].number
    BY <1>6, <2>1, RowsAre
  <2>6. log[n].number < next
    BY <1>1, <2>1, <2>2, <2>4
  <2>7. QED
    BY <1>1, <2>2, <2>4, <2>5, <2>6 DEF Unseen
<1>7. \A n \in 1 .. cursor : log'[n] = log[n]
  BY <1>2, <1>3
<1>8. QED
  BY <1>5, <1>6, <1>7

LEMMA AppendJudged ==
    ASSUME Ordered, Placed, Judged(last, cursor, gap, recounted),
           NEW row \in Row, log' = Append(log, row), row.session = session,
           row.number = next \/ row.number = Unseen,
           UNCHANGED <<cursor, last, gap, recounted>>
    PROVE  Judged(last, cursor, gap, recounted)'
<1>1. /\ \A n \in 1 .. cursor : log'[n] = log[n]
      /\ \A m : \A s \in Sessions : Published(s, m) => Published(s, m)'
      /\ \A n \in 1 .. cursor : \A m \in 0 .. log[n].number - 1 : \A s \in Sessions :
            s = log[n].session /\ ~Published(s, m) => ~Published(s, m)'
  BY PublishedLater
<1>2. \A n \in 1 .. cursor : log[n].session \in Sessions /\ log[n].number \in Int
  BY RowsAre DEF Placed
<1>3. Read(last, cursor)'
  BY <1>1 DEF Judged, Read
<1>4. Counted(last, cursor)'
  <2>1. \A n \in 1 .. cursor :
           Hole(log[n].session, log[n].number) => Hole(log[n].session, log[n].number)'
    BY <1>1, <1>2 DEF Hole
  <2>2. Counted(last, cursor)
    BY DEF Judged
  <2> HIDE DEF Hole
  <2>3. ASSUME NEW n \in 1 .. cursor, log[n].number # Unseen, last[log[n].session] # Unseen
        PROVE  \/ log[n].number <= last[log[n].session]
               \/ Hole(log[n].session, log[n].number)'
    BY <2>1, <2>2, <2>3 DEF Counted
  <2>4. QED
    BY <1>1, <2>3 DEF Counted
<1>5. Warranted(cursor, gap)'
  <2>1. SUFFICES ASSUME gap PROVE Warranted(cursor, gap)'
    BY DEF Warranted
  <2>2. PICK n \in 1 .. cursor : \E m \in 0 .. log[n].number - 1 :
            /\ log[n].sound
            /\ \/ ~Published(log[n].session, m)
               \/ \A o \in 1 .. cursor :
                     log[o].session = log[n].session /\ log[o].sound => log[o].number > m
    BY <2>1 DEF Judged, Warranted
  <2>3. PICK m \in 0 .. log[n].number - 1 :
            /\ log[n].sound
            /\ \/ ~Published(log[n].session, m)
               \/ \A o \in 1 .. cursor :
                     log[o].session = log[n].session /\ log[o].sound => log[o].number > m
    BY <2>2
  <2>4. CASE ~Published(log[n].session, m)
    <3> DEFINE s == log[n].session
    <3>1. s \in Sessions
      BY <1>2
    <3>2. log'[n].sound /\ log'[n].session = s /\ m \in 0 .. log'[n].number - 1 /\ n \in 1 .. cursor'
      BY <1>1, <2>3
    <3>3. ~\E x \in 1 .. Len(log') : log'[x].session = s /\ log'[x].number = m
      BY <1>1, <2>3, <2>4, <3>1 DEF Published
    <3> HIDE DEF s
    <3>4. ~\E x \in 1 .. Len(log') : log'[x].session = log'[n].session /\ log'[x].number = m
      BY <3>2, <3>3
    <3>5. QED
      BY <3>2, <3>4 DEF Warranted, Published
  <2>5. CASE \A o \in 1 .. cursor :
                log[o].session = log[n].session /\ log[o].sound => log[o].number > m
    <3>1. n \in 1 .. cursor' /\ log'[n].sound /\ m \in 0 .. log'[n].number - 1
      BY <1>1, <2>3
    <3>2. \A o \in 1 .. cursor' :
             log'[o].session = log'[n].session /\ log'[o].sound => log'[o].number > m
      BY <1>1, <2>5
    <3>3. QED
      BY <3>1, <3>2 DEF Warranted, Published
  <2>6. QED
    BY <2>3, <2>4, <2>5
<1>6. \A m : \A s \in Sessions : Explained(s, m, cursor) => Explained(s, m, cursor)'
  <2>1. \A p \in 1 .. cursor : \A k \in 1 .. p - 1 : k \in 1 .. cursor
    BY DEF Placed
  <2>2. \A p \in 1 .. cursor : Opens(p) => Opens(p)'
    BY <1>1, <2>1 DEF Opens
  <2>3. ASSUME NEW m, NEW s \in Sessions, Explained(s, m, cursor)
        PROVE  Explained(s, m, cursor)'
    <3>1. CASE Published(s, m)
      BY <1>1, <3>1 DEF Explained
    <3>2. CASE \E p \in 1 .. cursor : Opens(p) /\ log[p].session = s /\ m < log[p].number
      BY <1>1, <2>2, <3>2 DEF Explained
    <3>3. QED
      BY <2>3, <3>1, <3>2 DEF Explained
  <2>4. QED
    BY <2>3
<1>7. Unhidden(cursor, gap, recounted)' => Followed(last, cursor)'
  <2>1. SUFFICES ASSUME Unhidden(cursor, gap, recounted)' PROVE Followed(last, cursor)'
    OBVIOUS
  <2>2. Followed(last, cursor)
    BY <1>1, <2>1 DEF Judged, Unhidden
  <2>3. ASSUME NEW n \in 1 .. cursor, log[n].sound, NEW m \in 0 .. log[n].number - 1
        PROVE  Explained(log[n].session, m, cursor)'
    BY <1>1, <1>2, <1>6, <2>2, <2>3 DEF Followed
  <2>4. ASSUME NEW s \in Sessions, last[s] # Unseen
        PROVE  /\ \E n \in 1 .. cursor : log[n].session = s /\ last[s] <= log[n].number
               /\ (\A n \in 1 .. cursor : log[n].session = s => log[n].number <= last[s]) =>
                     \A n \in 1 .. cursor : log[n].session = s =>
                        \A m \in 0 .. log[n].number - 1 : Explained(s, m, cursor)'
    BY <1>6, <2>2, <2>4 DEF Followed
  <2>5. /\ cursor' = cursor /\ last' = last /\ \A n \in 1 .. cursor : log'[n] = log[n]
    BY <1>1
  <2>6. \A n \in 1 .. cursor : log'[n].sound =>
           \A m \in 0 .. log'[n].number - 1 : Explained(log[n].session, m, cursor)'
    BY <2>3, <2>5
  <2>7. \A s \in Sessions : last'[s] # Unseen =>
           /\ \E n \in 1 .. cursor' : log'[n].session = s /\ last'[s] <= log'[n].number
           /\ (\A n \in 1 .. cursor' : log'[n].session = s => log'[n].number <= last'[s]) =>
                 \A n \in 1 .. cursor' : log'[n].session = s =>
                    \A m \in 0 .. log'[n].number - 1 : Explained(s, m, cursor)'
    <3>1. ASSUME NEW s \in Sessions, last'[s] # Unseen
          PROVE  \E n \in 1 .. cursor' : log'[n].session = s /\ last'[s] <= log'[n].number
      <4>1. last[s] # Unseen
        BY <2>5, <3>1
      <4>2. PICK n \in 1 .. cursor : log[n].session = s /\ last[s] <= log[n].number
        BY <2>4, <4>1
      <4>3. QED
        BY <2>5, <4>2
    <3>2. ASSUME NEW s \in Sessions, last'[s] # Unseen,
                 \A n \in 1 .. cursor' : log'[n].session = s => log'[n].number <= last'[s],
                 NEW n \in 1 .. cursor', log'[n].session = s, NEW m \in 0 .. log'[n].number - 1
          PROVE  Explained(s, m, cursor)'
      <4>1. last[s] # Unseen /\ n \in 1 .. cursor /\ log[n].session = s /\ m \in 0 .. log[n].number - 1
        BY <2>5, <3>2
      <4>2. \A x \in 1 .. cursor : log[x].session = s => log[x].number <= last[s]
        BY <2>5, <3>2
      <4>3. QED
        BY <2>4, <4>1, <4>2
    <3>3. QED
      BY <3>1, <3>2
  <2>8. QED
    BY <2>5, <2>6, <2>7 DEF Followed
<1>8. QED
  BY <1>3, <1>4, <1>5, <1>7 DEF Judged

LEMMA JudgedStays ==
    ASSUME Ordered, Placed, Judged(last, cursor, gap, recounted), [Next]_vars
    PROVE  Judged(last, cursor, gap, recounted)'
<1>1. ASSUME NEW sound \in BOOLEAN, Publish(sound)
      PROVE  Judged(last, cursor, gap, recounted)'
  <2> DEFINE row == [session |-> session, number |-> next, sound |-> sound]
  <2>1. next \in Numbers
    BY <1>1, ContiguityAssumption DEF Publish, Numbers, Ordered
  <2>2. row \in Row /\ row.session = session /\ row.number = next
    BY <2>1 DEF Row, Ordered
  <2>3. log' = Append(log, row) /\ UNCHANGED <<cursor, last, gap, recounted>>
    BY <1>1 DEF Publish
  <2> HIDE DEF row
  <2>4. QED
    BY <2>2, <2>3, AppendJudged
<1>2. CASE Inject
  <2> DEFINE row == [session |-> session, number |-> Unseen, sound |-> FALSE]
  <2>1. row \in Row /\ row.session = session /\ row.number = Unseen
    BY DEF Row, Ordered
  <2>2. log' = Append(log, row) /\ UNCHANGED <<cursor, last, gap, recounted>>
    BY <1>2 DEF Inject
  <2> HIDE DEF row
  <2>3. QED
    BY <2>1, <2>2, AppendJudged
<1>3. CASE UNCHANGED <<log, cursor, last, gap, recounted>>
  BY <1>3, SameLog
<1>4. CASE Commit
  BY <1>4, CommitJudges
<1>5. QED
  BY <1>1, <1>2, <1>3, <1>4 DEF Next, SkipSequence, NewSession, Acknowledge, Restart, vars

-----------------------------------------------------------------------------
Sequenced == Ordered /\ Placed /\ Judged(last, cursor, gap, recounted)

LEMMA SequencedAlways == Spec => []Sequenced
<1>1. Init => Sequenced
  <2>1. SUFFICES ASSUME Init PROVE Sequenced
    OBVIOUS
  <2>2. log = <<>> /\ Len(log) = 0 /\ cursor = 0 /\ 1 .. 0 = {} /\ gap = FALSE /\ recounted = FALSE
    BY <2>1 DEF Init
  <2>3. Ordered /\ Placed
    <3>1. log \in Seq(Row)
      BY <2>2
    <3>2. 1 \in Sessions /\ 0 <= MaxRecords /\ 0 <= MaxSkips
      BY ContiguityAssumption DEF Sessions
    <3>3. QED
      <4>1. /\ session = 1 /\ next = 0 /\ acked = 0 /\ after = 0 /\ cursor = 0
            /\ Len(log) = 0 /\ gap \in BOOLEAN /\ recounted \in BOOLEAN
        BY <2>1, <2>2 DEF Init
      <4>2. Ordered
        <5>1. \A n \in 1 .. Len(log) : FALSE
          BY <4>1
        <5>2. MaxRecords \in Nat /\ MaxSkips \in Nat
          BY ContiguityAssumption
        <5>3. QED
          BY <3>1, <3>2, <4>1, <5>1, <5>2 DEF Ordered
      <4>3. Placed
        BY <4>1 DEF Placed
      <4>4. QED
        BY <4>2, <4>3
  <2>4. Judged(last, cursor, gap, recounted)
    <3>1. last = [s \in Sessions |-> Unseen]
      BY <2>1 DEF Init
    <3>2. QED
      BY <2>2, <3>1 DEF Judged, Read, Counted, Warranted, Followed
  <2>5. QED
    BY <2>3, <2>4 DEF Sequenced
<1>2. Sequenced /\ [Next]_vars => Sequenced'
  BY OrderStays, JudgedStays DEF Sequenced
<1>3. QED
  BY <1>1, <1>2, PTL DEF Spec

\* Every reachable state is well typed, for any number of records, sessions and skips.
THEOREM SequenceTypeCorrect == Spec => []TypeOK
<1>1. Sequenced => TypeOK
  <2>1. SUFFICES ASSUME Sequenced PROVE TypeOK
    OBVIOUS
  <2>2. /\ log \in Seq(Row) /\ Len(log) \in Nat /\ session \in Sessions /\ next \in Nat
        /\ Len(log) <= MaxRecords /\ next <= Len(log) + MaxSkips
    BY <2>1, RowsAre DEF Sequenced, Ordered
  <2>3. next \in Numbers
    BY <2>2, ContiguityAssumption DEF Numbers
  <2>4. last \in [Sessions -> Nat \cup {Unseen}]
    BY <2>1 DEF Sequenced, Judged, Read
  <2>5. QED
    BY <2>1, <2>2, <2>3, <2>4 DEF Sequenced, Placed, TypeOK, Row
<1>2. QED
  BY <1>1, SequencedAlways, PTL

\* A number skipped before a readable record is a gap on record, through restarts, batches of any
\* size and bodies that cannot be read (_contiguity), but for the two things SkipIsOnRecord names.
THEOREM SkipsAreOnRecord == Spec => []SkipIsOnRecord
<1>1. Sequenced => SkipIsOnRecord
  <2>1. SUFFICES ASSUME Sequenced, ~Unnumbered, ~recounted, ~gap,
                        NEW n \in 1 .. cursor, NEW m \in Numbers,
                        log[n].sound, m < log[n].number, ~Published(log[n].session, m)
                 PROVE  BeforeHistory(log[n].session, m)
    BY DEF SkipIsOnRecord, Committed
  <2>2. Followed(last, cursor)
    BY <2>1 DEF Sequenced, Judged, Unhidden, Unnumbered
  <2>3. m \in 0 .. log[n].number - 1
    <3>1. m \in Nat /\ n \in 1 .. Len(log)
      BY <2>1, ContiguityAssumption DEF Numbers, Sequenced, Ordered, Placed
    <3>2. log[n].number \in Int
      BY <2>1, <3>1, RowsAre DEF Sequenced
    <3>3. QED
      BY <2>1, <3>1, <3>2
  <2>4. PICK p \in 1 .. cursor : Opens(p) /\ log[p].session = log[n].session /\ m < log[p].number
    BY <2>1, <2>2, <2>3 DEF Followed, Explained
  <2>5. ASSUME NEW q \in 1 .. cursor, log[q].sound, \A k \in 1 .. q - 1 : ~log[k].sound
        PROVE  q = p
    <3>1. ~(p < q)
      BY <2>4, <2>5 DEF Opens
    <3>2. ~(q < p)
      BY <2>4, <2>5 DEF Opens
    <3>3. QED
      BY <3>1, <3>2
  <2>6. QED
    BY <2>4, <2>5 DEF BeforeHistory
<1>2. QED
  BY <1>1, SequencedAlways, PTL

\* A gap on record has a skipped number behind it, however often the records come (_contiguity); only
\* a session that begins with unsound bodies looks like one with a gap.
THEOREM GapsMeanSkips == Spec => []GapMeansSkip
<1>1. Sequenced => GapMeansSkip
  <2>1. SUFFICES ASSUME Sequenced, gap
                 PROVE  \E record \in Committed, number \in Numbers :
                           /\ record.sound /\ number < record.number
                           /\ \/ ~Published(record.session, number)
                              \/ \A other \in Committed :
                                    other.session = record.session /\ other.sound
                                       => other.number > number
    BY DEF GapMeansSkip
  <2>2. PICK n \in 1 .. cursor : \E m \in 0 .. log[n].number - 1 :
            /\ log[n].sound
            /\ \/ ~Published(log[n].session, m)
               \/ \A o \in 1 .. cursor :
                     log[o].session = log[n].session /\ log[o].sound => log[o].number > m
    BY <2>1 DEF Sequenced, Judged, Warranted
  <2>3. PICK m \in 0 .. log[n].number - 1 :
            /\ log[n].sound
            /\ \/ ~Published(log[n].session, m)
               \/ \A o \in 1 .. cursor :
                     log[o].session = log[n].session /\ log[o].sound => log[o].number > m
    BY <2>2
  <2>4. n \in 1 .. Len(log) /\ log[n].number \in Numbers
    <3>1. n \in 1 .. Len(log)
      BY <2>1 DEF Sequenced, Ordered, Placed
    <3>2. QED
      BY <2>1, <2>3, <3>1, RowsAre DEF Sequenced, Unseen
  <2>5. m \in Numbers /\ m < log[n].number
    BY <2>4, ContiguityAssumption DEF Numbers
  <2>6. log[n] \in Committed /\ \A other \in Committed : \E o \in 1 .. cursor : other = log[o]
    BY DEF Committed
  <2>7. \/ ~Published(log[n].session, m)
        \/ \A other \in Committed :
              other.session = log[n].session /\ other.sound => other.number > m
    BY <2>3, <2>6
  <2>8. QED
    BY <2>3, <2>5, <2>6, <2>7
<1>2. QED
  BY <1>1, SequencedAlways, PTL

=============================================================================
