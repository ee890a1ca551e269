--------------------------------- MODULE Backoff ---------------------------------
(***************************************************************************)
(* The reconnect backoff of the bridge (backoff.py) in its loop (bridge.py): *)
(* an exchange that fails makes the pass wait for the next delay of the     *)
(* schedule, jittered; one that succeeds begins, or continues, a stable     *)
(* period; and a structural batch is a failure after a success.  Time is    *)
(* the clock's, in tenths of a second, and advances by the waits.           *)
(***************************************************************************)
EXTENDS Integers, Sequences, FiniteSets

CONSTANTS Schedule,      \* SCHEDULE, in seconds
          StableReset,   \* STABLE_RESET_SECONDS
          Jitter,        \* factors that are drawn, in tenths
          Pauses,        \* waits between exchanges that succeed, in tenths of a second
          MaxExchanges   \* bound: exchanges

ASSUME BackoffAssumption ==
    /\ Schedule \in Seq(Nat \ {0}) /\ Schedule # <<>>
    /\ StableReset \in Nat /\ Jitter \subseteq 8 .. 12 /\ Pauses \subseteq Nat
    /\ MaxExchanges \in Nat

VARIABLES
    now,           \* the clock
    step,          \* _step
    stableSince,   \* _stable_since
    failures,      \* the failures so far: when, and the delay drawn from, in seconds
    exchanges      \* exchanges so far

vars == <<now, step, stableSince, failures, exchanges>>

NotStable == -1

TypeOK ==
    /\ now \in Nat
    /\ step \in 0 .. Len(failures)
    /\ stableSince \in {NotStable} \cup 0 .. now
    /\ \A n \in 1 .. Len(failures) :
          failures[n].at \in 0 .. now /\ failures[n].base \in {Schedule[i] : i \in 1 .. Len(Schedule)}
    /\ exchanges \in Len(failures) .. MaxExchanges

Init ==
    /\ now = 0 /\ step = 0 /\ stableSince = NotStable
    /\ failures = <<>> /\ exchanges = 0

-----------------------------------------------------------------------------
Exchange == exchanges < MaxExchanges /\ exchanges' = exchanges + 1

\* success
StableAfter == IF stableSince = NotStable THEN now ELSE stableSince

Success ==
    /\ Exchange
    /\ stableSince' = StableAfter
    /\ \E pause \in Pauses : now' = now + pause
    /\ UNCHANGED <<step, failures>>

\* Mutant: a success at all restarts the schedule.
MutantStableLongEnough == stableSince # NotStable

StableLongEnough == stableSince # NotStable /\ now - stableSince >= StableReset * 10

DelayOf(n) == Schedule[IF n < Len(Schedule) THEN n + 1 ELSE Len(Schedule)]

\* failure, and the wait for its delay
Failure ==
    LET from == IF StableLongEnough THEN 0 ELSE step
    IN  /\ Exchange
        /\ step' = from + 1
        /\ failures' = Append(failures, [at |-> now, base |-> DelayOf(from)])
        /\ \E factor \in Jitter : now' = now + factor * DelayOf(from)
        /\ stableSince' = NotStable

Next == Success \/ Failure

Spec == Init /\ [][Next]_vars

-----------------------------------------------------------------------------
\* However a service flaps, it meets at most as many failed exchanges in any stretch of a
\* stable period's length as the schedule has delays, and one more (failure; a success in between
\* does not restart the schedule).
FailuresPaced ==
    \A n \in 1 .. Len(failures) :
       Cardinality({m \in 1 .. n : failures[n].at - failures[m].at < StableReset * 10})
          <= Len(Schedule) + 1

=================================================================================
