------------------------------ MODULE Backoff_Proofs ------------------------------
(***************************************************************************)
(* Proof that reconnects are paced: with the schedule and the stable       *)
(* period of backoff.py, for any jitter within its range, any pauses       *)
(* between exchanges and any number of them.                               *)
(***************************************************************************)
EXTENDS Backoff, FiniteSetTheorems, TLAPS

\* backoff.py's SCHEDULE and STABLE_RESET_SECONDS.
Deployed == Schedule = <<1, 2, 4, 8, 16, 30>> /\ StableReset = 60

\* The least time from a failure to the k-th after it, without a restart of the schedule between
\* them: the sum of its first k delays at the lowest jitter.
Least(k) == CASE k = 0 -> 0   [] k = 1 -> 8   [] k = 2 -> 24  [] k = 3 -> 56
              [] k = 4 -> 120 [] k = 5 -> 248 [] k = 6 -> 488 [] OTHER -> 600

Types ==
    /\ now \in Nat /\ step \in Nat
    /\ stableSince \in {NotStable} \cup 0 .. now
    /\ failures \in Seq([at: Nat, base: Nat])

\* Each failure is a full period before the one that may come now, or the schedule has not been
\* restarted since and the delays between them have been waited for.
Waited ==
    /\ \A n \in 1 .. Len(failures) :
          \/ now - failures[n].at >= 600
          \/ /\ step >= Len(failures) - n + 1
             /\ now - failures[n].at >= Least(Len(failures) - n + 1)
    /\ stableSince # NotStable =>
          \A n \in 1 .. Len(failures) : failures[n].at <= stableSince
    /\ \A n \in 1 .. Len(failures) : failures[n].at <= now

\* Any two failures are a full period apart, or as far apart as the delays between them.
Paced ==
    \A m, n \in 1 .. Len(failures) : m <= n =>
       failures[n].at - failures[m].at >= Least(n - m)

LEMMA DelaysAre ==
    ASSUME Deployed, NEW n \in Nat
    PROVE  /\ DelayOf(n) \in Nat
           /\ n >= 0 => DelayOf(n) >= 1
           /\ n >= 1 => DelayOf(n) >= 2
           /\ n >= 2 => DelayOf(n) >= 4
           /\ n >= 3 => DelayOf(n) >= 8
           /\ n >= 4 => DelayOf(n) >= 16
           /\ n >= 5 => DelayOf(n) >= 30
<1>1. Len(Schedule) = 6 /\ Schedule[1] = 1 /\ Schedule[2] = 2 /\ Schedule[3] = 4 /\ Schedule[4] = 8
      /\ Schedule[5] = 16 /\ Schedule[6] = 30
  BY DEF Deployed
<1> DEFINE i == IF n < 6 THEN n + 1 ELSE 6
<1>2. DelayOf(n) = Schedule[i]
  BY <1>1 DEF DelayOf
<1>3. i \in 1 .. 6
  OBVIOUS
<1>4. CASE n >= 5
  BY <1>1, <1>2, <1>4
<1>5. CASE n < 5
  BY <1>1, <1>2, <1>5
<1>6. QED
  BY <1>4, <1>5

LEMMA LeastGrows ==
    ASSUME Deployed, NEW k \in Nat, NEW n \in Nat, n >= k
    PROVE  /\ Least(k) \in Nat /\ Least(k) <= 600
           /\ Least(k) + 8 * DelayOf(n) >= Least(k + 1)
<1>1. DelayOf(n) \in Nat
  BY DelaysAre
<1>2. CASE k = 0
  BY <1>2, DelaysAre DEF Least
<1>3. CASE k = 1
  BY <1>3, DelaysAre DEF Least
<1>4. CASE k = 2
  BY <1>4, DelaysAre DEF Least
<1>5. CASE k = 3
  BY <1>5, DelaysAre DEF Least
<1>6. CASE k = 4
  BY <1>6, DelaysAre DEF Least
<1>7. CASE k = 5
  BY <1>7, DelaysAre DEF Least
<1>8. CASE k = 6
  BY <1>8, DelaysAre DEF Least
<1>9. CASE k >= 7
  BY <1>9, <1>1 DEF Least
<1>10. QED
  BY <1>2, <1>3, <1>4, <1>5, <1>6, <1>7, <1>8, <1>9

LEMMA TypesStay ==
    ASSUME Deployed, Types, [Next]_vars
    PROVE  Types'
<1>1. CASE Success
  BY <1>1, BackoffAssumption DEF Success, StableAfter, Types, NotStable
<1>2. CASE Failure
  <2> DEFINE from == IF StableLongEnough THEN 0 ELSE step
  <2>1. from \in Nat /\ DelayOf(from) \in Nat
    BY DelaysAre DEF Types
  <2>2. PICK factor \in Jitter : now' = now + factor * DelayOf(from)
    BY <1>2 DEF Failure
  <2>3. factor \in Nat
    BY BackoffAssumption
  <2>4. now' \in Nat
    BY <2>1, <2>2, <2>3 DEF Types
  <2>5. [at |-> now, base |-> DelayOf(from)] \in [at: Nat, base: Nat]
    BY <2>1 DEF Types
  <2>6. QED
    BY <1>2, <2>1, <2>4, <2>5 DEF Failure, Types
<1>3. CASE UNCHANGED vars
  BY <1>3 DEF vars, Types
<1>4. QED
  BY <1>1, <1>2, <1>3 DEF Next

LEMMA FailureTimes ==
    ASSUME Types
    PROVE  \A n \in 1 .. Len(failures) : failures[n].at \in Nat
<1> DEFINE R == [at: Nat, base: Nat]
<1>1. failures \in Seq(R)
  BY DEF Types
<1> HIDE DEF R
<1>2. \A n \in 1 .. Len(failures) : failures[n] \in R
  BY <1>1
<1>3. QED
  BY <1>2 DEF R

\* A success only lets time pass.
LEMMA WaitedThroughSuccess ==
    ASSUME Types, Waited, Success
    PROVE  Waited'
<1>1. PICK pause \in Nat : now' = now + pause
  BY BackoffAssumption DEF Success
<1>2. failures' = failures /\ step' = step /\ stableSince' = StableAfter
  BY DEF Success
<1>3. \A n \in 1 .. Len(failures) : failures[n].at \in Nat
  BY FailureTimes
<1>4. now' >= now /\ now \in Nat
  BY <1>1 DEF Types
<1>5. ASSUME NEW n \in 1 .. Len(failures)
      PROVE  /\ \/ now' - failures[n].at >= 600
                \/ /\ step >= Len(failures) - n + 1
                   /\ now' - failures[n].at >= Least(Len(failures) - n + 1)
             /\ failures[n].at <= now'
             /\ stableSince' # NotStable => failures[n].at <= stableSince'
  <2> DEFINE a == failures[n].at
             l == Least(Len(failures) - n + 1)
  <2>1. a \in Nat /\ a <= now /\ (stableSince # NotStable => a <= stableSince)
    BY <1>3 DEF Waited
  <2>2. \/ now - a >= 600
        \/ step >= Len(failures) - n + 1 /\ now - a >= l
    BY DEF Waited
  <2>3. l \in Nat
    BY DEF Least
  <2> HIDE DEF a, l
  <2>4. now - a >= l => now' - a >= l
    BY <1>1, <1>4, <2>1, <2>3
  <2>5. now - a >= 600 => now' - a >= 600
    BY <1>1, <1>4, <2>1
  <2>6. a <= now' /\ (stableSince' # NotStable => a <= stableSince')
    BY <1>1, <1>2, <1>4, <2>1 DEF StableAfter, Types, NotStable
  <2>7. QED
    BY <2>2, <2>4, <2>5, <2>6 DEF a, l
<1>6. QED
  BY <1>2, <1>5 DEF Waited

\* A failure, and the wait for its delay.
LEMMA WaitedThroughFailure ==
    ASSUME Deployed, Types, Waited, Failure
    PROVE  Waited'
<1> DEFINE from == IF StableLongEnough THEN 0 ELSE step
           d    == DelayOf(from)
           L    == Len(failures)
<1>1. /\ step' = from + 1 /\ stableSince' = NotStable
      /\ failures' = Append(failures, [at |-> now, base |-> d])
  BY DEF Failure
<1>2. from \in Nat /\ now \in Nat /\ L \in Nat /\ step \in Nat
  BY DEF Types
<1>3. d \in Nat
  BY <1>2, DelaysAre
<1>4. now' \in Nat /\ now' >= now + 8 * d
  <2>1. PICK factor \in Jitter : now' = now + factor * d
    BY DEF Failure
  <2> HIDE DEF d
  <2>2. factor \in {8, 9, 10, 11, 12}
    BY BackoffAssumption
  <2>3. QED
    BY <1>2, <1>3, <2>1, <2>2
<1>5. /\ Len(failures') = L + 1 /\ failures'[L + 1].at = now
      /\ \A n \in 1 .. L : failures'[n] = failures[n]
  BY <1>1 DEF Types
<1>6. ASSUME NEW n \in 1 .. L, now - failures[n].at < 600
      PROVE  /\ from >= L - n + 1
             /\ now - failures[n].at >= Least(L - n + 1)
  <2>1. failures[n].at \in Nat
    BY FailureTimes
  <2>2. ~StableLongEnough
    <3>1. stableSince # NotStable => stableSince \in Nat /\ failures[n].at <= stableSince
      BY DEF Types, Waited
    <3>2. StableReset * 10 = 600
      BY DEF Deployed
    <3>3. QED
      BY <1>2, <1>6, <2>1, <3>1, <3>2 DEF StableLongEnough
  <2>3. QED
    BY <1>2, <1>6, <2>1, <2>2 DEF Waited
<1> HIDE DEF from, L
<1>7. ASSUME NEW n \in 1 .. L + 1
      PROVE  /\ \/ now' - failures'[n].at >= 600
                \/ /\ step' >= L + 1 - n + 1
                   /\ now' - failures'[n].at >= Least(L + 1 - n + 1)
             /\ failures'[n].at <= now'
  <2>1. CASE n = L + 1
    <3>1. 0 + 8 * d >= Least(1) /\ L + 1 - n + 1 = 1
      BY <1>2, <2>1, LeastGrows DEF Least, d
    <3> HIDE DEF d
    <3>2. now' - now >= Least(1) /\ now' >= now
      <4>1. Least(1) = 8
        BY DEF Least
      <4>2. QED
        BY <1>2, <1>3, <1>4, <3>1, <4>1
    <3>3. step' >= 1
      BY <1>1, <1>2
    <3>4. QED
      BY <1>5, <2>1, <3>1, <3>2, <3>3
  <2>2. CASE n # L + 1
    <3> DEFINE k == L - n + 1
               a == failures[n].at
    <3>1. n \in 1 .. L /\ failures'[n].at = a /\ a \in Nat /\ a <= now /\ k \in Nat
      BY <1>2, <1>5, <1>7, <2>2, FailureTimes DEF Waited, L
    <3>2. CASE now - a >= 600
      BY <1>2, <1>3, <1>4, <3>1, <3>2
    <3>3. CASE now - a < 600
      <4>1. from >= k /\ now - a >= Least(k)
        BY <1>6, <3>1, <3>3
      <4>2. Least(k) + 8 * d >= Least(k + 1) /\ Least(k) \in Nat /\ Least(k + 1) \in Nat
        BY <1>2, <3>1, <4>1, LeastGrows DEF Least, d
      <4>3. L + 1 - n + 1 = k + 1
        BY <1>2
      <4>4. step' >= k + 1
        BY <1>1, <1>2, <3>1, <4>1
      <4> HIDE DEF k, a, d
      <4>5. now' - a >= Least(k + 1) /\ a <= now'
        BY <1>2, <1>3, <1>4, <3>1, <4>1, <4>2
      <4>6. QED
        BY <3>1, <4>3, <4>4, <4>5
    <3>4. QED
      BY <1>2, <3>1, <3>2, <3>3
  <2>3. QED
    BY <2>1, <2>2
<1>8. QED
  BY <1>1, <1>2, <1>5, <1>7 DEF Waited

LEMMA PacedStays ==
    ASSUME Deployed, Types, Waited, Paced, [Next]_vars
    PROVE  Paced'
<1>1. CASE failures' = failures
  BY <1>1 DEF Paced
<1>2. CASE Failure
  <2> DEFINE L == Len(failures)
  <2>1. /\ Len(failures') = L + 1 /\ failures'[L + 1].at = now
        /\ \A n \in 1 .. L : failures'[n] = failures[n]
    BY <1>2 DEF Failure, Types
  <2>2. L \in Nat /\ now \in Nat
    BY DEF Types
  <2>3. ASSUME NEW m \in 1 .. L
        PROVE  now - failures[m].at >= Least(L + 1 - m)
    <3>1. failures[m].at \in Nat /\ L + 1 - m \in Nat /\ L + 1 - m = L - m + 1
      BY <2>2, FailureTimes
    <3>2. Least(L + 1 - m) \in Nat /\ Least(L + 1 - m) <= 600
      BY <3>1 DEF Least
    <3> HIDE DEF L
    <3>3. \/ now - failures[m].at >= 600
          \/ now - failures[m].at >= Least(L - m + 1)
      BY DEF Waited, L
    <3>4. QED
      BY <2>2, <3>1, <3>2, <3>3
  <2>4. Least(0) = 0 /\ now - now >= 0
    BY <2>2 DEF Least
  <2> HIDE DEF L
  <2>5. ASSUME NEW m \in 1 .. L + 1, NEW n \in 1 .. L + 1, m <= n
        PROVE  failures'[n].at - failures'[m].at >= Least(n - m)
    <3>1. CASE n \in 1 .. L
      <4>1. m \in 1 .. L
        BY <2>2, <2>5, <3>1
      <4>2. QED
        BY <2>1, <2>5, <3>1, <4>1 DEF Paced, L
    <3>2. CASE n = L + 1 /\ m \in 1 .. L
      <4>1. n - m = L + 1 - m
        BY <2>2, <3>2
      <4>2. QED
        BY <2>1, <2>3, <3>2, <4>1
    <3>3. CASE n = L + 1 /\ m = L + 1
      <4>1. n - m = 0
        BY <2>2, <3>3
      <4>2. QED
        BY <2>1, <2>4, <3>3, <4>1
    <3>4. QED
      BY <2>2, <2>5, <3>1, <3>2, <3>3
  <2>6. QED
    BY <2>1, <2>5 DEF Paced
<1>3. failures' = failures \/ Failure
  BY DEF Next, Success, vars
<1>4. QED
  BY <1>1, <1>2, <1>3

\* In any stretch of the stable period there is room for seven failures.
LEMMA SevenAtMost ==
    ASSUME Deployed, Types, Paced
    PROVE  FailuresPaced
<1>1. Len(Schedule) = 6 /\ StableReset * 10 = 600
  BY DEF Deployed
<1>2. ASSUME NEW n \in 1 .. Len(failures)
      PROVE  Cardinality({m \in 1 .. n : failures[n].at - failures[m].at < 600}) <= 7
  <2> DEFINE S == {m \in 1 .. n : failures[n].at - failures[m].at < 600}
  <2>1. n \in Int /\ n <= Len(failures) /\ Len(failures) \in Nat
    BY DEF Types
  <2>2. ASSUME NEW m \in S
        PROVE  m \in n - 6 .. n
    <3>1. m \in 1 .. Len(failures) /\ m <= n /\ m \in Int
      BY <2>1
    <3>2. failures[n].at - failures[m].at >= Least(n - m) /\ failures[n].at - failures[m].at < 600
      BY <3>1 DEF Paced
    <3>3. failures[n].at \in Nat /\ failures[m].at \in Nat
      BY <3>1, FailureTimes
    <3>4. n - m >= 7 => Least(n - m) = 600
      BY <2>1, <3>1 DEF Least
    <3>5. ~(n - m >= 7)
      BY <3>2, <3>3, <3>4
    <3>6. QED
      BY <2>1, <3>1, <3>5
  <2> HIDE DEF S
  <2>3. IsFiniteSet(n - 6 .. n) /\ Cardinality(n - 6 .. n) = 7
    <3> DEFINE a == n - 6
    <3>1. a \in Int /\ a <= n /\ n - a + 1 = 7
      BY <2>1
    <3> HIDE DEF a
    <3>2. IsFiniteSet(a .. n) /\ Cardinality(a .. n) = IF a > n THEN 0 ELSE n - a + 1
      BY <2>1, <3>1, FS_Interval
    <3>3. ~(a > n)
      BY <2>1, <3>1
    <3>4. IsFiniteSet(a .. n) /\ Cardinality(a .. n) = 7
      BY <3>1, <3>2, <3>3
    <3>5. QED
      BY <3>4 DEF a
  <2>4. Cardinality(S) <= Cardinality(n - 6 .. n)
    BY <2>2, <2>3, FS_Subset
  <2>5. QED
    BY <2>3, <2>4 DEF S
<1>3. QED
  BY <1>1, <1>2 DEF FailuresPaced

\* However a service flaps, the bridge meets at most seven failed exchanges in any minute: the delays
\* of the schedule are waited for, and only a minute of success restarts it (failure).
THEOREM ReconnectsArePaced ==
    ASSUME Deployed
    PROVE  Spec => []FailuresPaced
<1>1. Init => Types /\ Waited /\ Paced
  BY DEF Init, Types, Waited, Paced, NotStable
<1>2. Types /\ Waited /\ Paced /\ [Next]_vars => (Types /\ Waited /\ Paced)'
  <2>1. UNCHANGED vars /\ Waited => Waited'
    BY DEF vars, Waited
  <2>2. QED
    BY <2>1, TypesStay, WaitedThroughSuccess, WaitedThroughFailure, PacedStays DEF Next
<1>3. Types /\ Paced => FailuresPaced
  BY SevenAtMost
<1>4. QED
  BY <1>1, <1>2, <1>3, PTL DEF Spec

=============================================================================
