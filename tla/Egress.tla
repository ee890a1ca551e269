-------------------------------- MODULE Egress --------------------------------
(***************************************************************************)
(* The export side of the Link 16 bridge (egress.py): export jobs in the   *)
(* store, bridge processes and operator commands that share it under the   *)
(* writer lease, and the gateway's transmissions with their idempotency.   *)
(*                                                                         *)
(* A job is marked in flight in one transaction, the POST leaves outside   *)
(* any, and its outcome is recorded in another one; between two of them    *)
(* the process may be overtaken or die, and the call may be lost, late or  *)
(* repeated.  A new fence turns a job in flight into UNKNOWN and one that  *)
(* is not into REVALIDATE.                                                 *)
(*                                                                         *)
(* Time is the age of a job: fresh, late (its expiry has passed) and       *)
(* ancient (the gateway's replay window has, which is the longer one: 24 h *)
(* against at most 1 h, and a job expires before it is first received, or  *)
(* is received before it expires).                                         *)
(***************************************************************************)
EXTENDS Integers, FiniteSets

CONSTANTS Instances,     \* bridge processes
          Operator,      \* the holder of the lease while an operator's command runs
          Requests,      \* request ids
          Refused,       \* those whose report the gateway refuses (409, 422)
          Faults,        \* the failures of the environment an instance of the model has
          Immediate,     \* the synthetic gateway: a request is SENT before the POST is answered
          MaxExports,    \* limits.max_queued_exports
          MaxFence       \* bound: acquisitions of the lease

NoRequest == "none"

ASSUME EgressAssumption ==
    /\ Operator \notin Instances /\ NoRequest \notin Requests /\ Refused \subseteq Requests
    /\ Faults \subseteq {"lost", "unavailable", "auth", "commit", "crash"}
    /\ Immediate \in BOOLEAN
    /\ MaxExports \in Nat \ {0} /\ MaxFence \in Nat \ {0}

VARIABLES
    \* the store
    lease,      \* the lease row: holder, fence, and whether its time is over
    job,        \* export_job rows: state, fence of the last writer, in flight or not
    \* the processes
    pc, fence,
    subject,    \* the request a process works on
    outcome,    \* the state it is about to record
    listing,    \* the loop it is in: a state reconcile has listed, "REVALIDATE", or "none"
    todo,       \* the requests the loop has left
    \* the gateway and the network
    idem,       \* p_idem: the gateway's state of a request, "none" when it has no row
    sent,       \* p_sent: how often a request went out to the peer
    calls,      \* POSTs that left and whose answer nobody waits for
    \* time
    age

storeVars   == <<lease, job>>
processVars == <<pc, fence, subject, outcome, listing, todo>>
gatewayVars == <<idem, sent, calls>>
vars        == <<storeVars, processVars, gatewayVars, age>>

JobStates == {"none", "PENDING", "REVALIDATE", "ACCEPTED", "ENCODED", "UNKNOWN",
              "SENT", "REJECTED", "EXPIRED", "FAILED", "DENIED"}

\* FINAL_STATES: nothing in the bridge moves a job out of them.
Final == {"SENT", "REJECTED", "EXPIRED", "FAILED", "DENIED"}

\* SQL_JOBS_QUEUE: the states that take room in the export queue.
Queued == {"PENDING", "REVALIDATE", "ACCEPTED", "ENCODED", "UNKNOWN"}

\* The states reconcile asks the gateway about, in the order it lists them.
Open == {"UNKNOWN", "ACCEPTED", "ENCODED"}

NextOpen(state) ==
    CASE state = "UNKNOWN"  -> "ACCEPTED"
      [] state = "ACCEPTED" -> "ENCODED"
      [] state = "ENCODED"  -> "none"

GatewayStates == {"none", "ACCEPTED", "ENCODED", "SENT", "REJECTED", "EXPIRED"}

Jobs == [state: JobStates, fence: 0 .. MaxFence, inFlight: BOOLEAN]

\* A row that was never in flight, or is not any more.
Row(state, f) == [state |-> state, fence |-> f, inFlight |-> FALSE]

PCs == {"down", "idle", "checked", "send", "posting", "record", "loop", "adopt"}

TypeOK ==
    /\ lease \in [holder: Instances \cup {Operator}, fence: 0 .. MaxFence, expired: BOOLEAN]
    /\ job \in [Requests -> Jobs]
    /\ pc \in [Instances -> PCs]
    /\ fence \in [Instances -> 0 .. MaxFence]
    /\ subject \in [Instances -> Requests \cup {NoRequest}]
    /\ outcome \in [Instances -> JobStates]
    /\ listing \in [Instances -> Open \cup {"REVALIDATE", "none"}]
    /\ todo \in [Instances -> SUBSET Requests]
    /\ idem \in [Requests -> GatewayStates]
    /\ sent \in [Requests -> Nat]
    /\ calls \subseteq Requests
    /\ age \in [Requests -> {"fresh", "late", "ancient"}]

Init ==
    /\ lease = [holder |-> Operator, fence |-> 0, expired |-> TRUE]
    /\ job = [r \in Requests |-> Row("none", 0)]
    /\ pc = [i \in Instances |-> "down"] /\ fence = [i \in Instances |-> 0]
    /\ subject = [i \in Instances |-> NoRequest]
    /\ outcome = [i \in Instances |-> "none"]
    /\ listing = [i \in Instances |-> "none"] /\ todo = [i \in Instances |-> {}]
    /\ idem = [r \in Requests |-> "none"] /\ sent = [r \in Requests |-> 0]
    /\ calls = {} /\ age = [r \in Requests |-> "fresh"]

-----------------------------------------------------------------------------
\* The lease, and what a new fence does to the jobs of an older one.

\* Lease.check, which runs at the start of every fenced transaction.
Holds(i) == lease.holder = i /\ lease.fence = fence[i] /\ ~lease.expired

\* Mutant: only SQL_JOBS_REVALIDATE.
MutantUnderFence(f) ==
    [r \in Requests |->
       IF job[r].state \in {"PENDING", "ACCEPTED"} /\ ~job[r].inFlight /\ job[r].fence < f
         THEN Row("REVALIDATE", f)
         ELSE job[r]]

\* SQL_JOBS_INFLIGHT_UNKNOWN, then SQL_JOBS_REVALIDATE.
UnderFence(f) ==
    [r \in Requests |->
       IF job[r].inFlight /\ job[r].fence < f
         THEN Row("UNKNOWN", f)
       ELSE IF job[r].state \in {"PENDING", "ACCEPTED"} /\ ~job[r].inFlight /\ job[r].fence < f
         THEN Row("REVALIDATE", f)
       ELSE job[r]]

\* MaxFence leaves room for a successor: the holder of the last fence neither dies nor loses it.
Spare == lease.fence < MaxFence

\* Lease.acquire: the lease is free or expired.
Acquire(holder) ==
    /\ lease.expired /\ Spare
    /\ lease' = [holder |-> holder, fence |-> lease.fence + 1, expired |-> FALSE]

Goto(i, label) == pc' = [pc EXCEPT ![i] = label]

\* The call of the embedding program or of the command returns, or raises.
Return(i) ==
    /\ pc' = [pc EXCEPT ![i] = "idle"]
    /\ subject' = [subject EXCEPT ![i] = NoRequest]
    /\ outcome' = [outcome EXCEPT ![i] = "none"]
    /\ listing' = [listing EXCEPT ![i] = "none"]
    /\ todo' = [todo EXCEPT ![i] = {}]

\* send returns: to its caller, or to the loop of revalidate.
EndSend(i) ==
    IF listing[i] = "none"
      THEN Return(i)
      ELSE /\ Goto(i, "loop")
           /\ subject' = [subject EXCEPT ![i] = NoRequest]
           /\ outcome' = [outcome EXCEPT ![i] = "none"]
           /\ UNCHANGED <<listing, todo>>

\* A fenced transaction that sets the state of one job (_set, SQL_JOB_STATE, SQL_JOB_INSERT).
SetJob(i, r, state) ==
    job' = [job EXCEPT ![r] = Row(state, fence[i])]

\* start: a process takes the lease.
Start(i) ==
    /\ pc[i] = "down"
    /\ Acquire(i)
    /\ job' = UnderFence(lease'.fence)
    /\ fence' = [fence EXCEPT ![i] = lease'.fence]
    /\ Goto(i, "idle")
    /\ UNCHANGED <<subject, outcome, listing, todo, gatewayVars, age>>

\* _reacquire: the loop of a process whose lease expired takes it again.
Reacquire(i) ==
    /\ pc[i] = "idle" /\ ~Holds(i)
    /\ Acquire(i)
    /\ job' = UnderFence(lease'.fence)
    /\ fence' = [fence EXCEPT ![i] = lease'.fence]
    /\ UNCHANGED <<pc, subject, outcome, listing, todo, gatewayVars, age>>

\* _block, LEASE_LOST: the loop of a process that another one overtook ends, and the process with it.
Overtaken(i) ==
    /\ pc[i] = "idle" /\ ~Holds(i) /\ ~lease.expired
    /\ Goto(i, "down")
    /\ fence' = [fence EXCEPT ![i] = 0]
    /\ UNCHANGED <<storeVars, subject, outcome, listing, todo, gatewayVars, age>>

\* close: a process that still holds the lease gives it up.
Close(i) ==
    /\ pc[i] = "idle" /\ Spare
    /\ lease' = IF Holds(i) THEN [lease EXCEPT !.expired = TRUE] ELSE lease
    /\ Goto(i, "down")
    /\ fence' = [fence EXCEPT ![i] = 0]
    /\ UNCHANGED <<job, subject, outcome, listing, todo, gatewayVars, age>>

\* A process dies at any point; a POST it was about to make may have left.
Crash(i) ==
    /\ pc[i] # "down" /\ "crash" \in Faults /\ Spare
    /\ pc' = [pc EXCEPT ![i] = "down"]
    /\ fence' = [fence EXCEPT ![i] = 0]
    /\ subject' = [subject EXCEPT ![i] = NoRequest]
    /\ outcome' = [outcome EXCEPT ![i] = "none"]
    /\ listing' = [listing EXCEPT ![i] = "none"]
    /\ todo' = [todo EXCEPT ![i] = {}]
    /\ calls' \in IF pc[i] = "posting" THEN {calls, calls \cup {subject[i]}} ELSE {calls}
    /\ UNCHANGED <<storeVars, idem, sent, age>>

LeaseExpires ==
    /\ ~lease.expired /\ Spare
    /\ lease' = [lease EXCEPT !.expired = TRUE]
    /\ UNCHANGED <<job, processVars, gatewayVars, age>>

\* A job grows older than its expiry, then than the replay window.
TimePasses ==
    /\ \E r \in Requests :
          /\ job[r].state # "none"
          /\ \/ age[r] = "fresh" /\ age' = [age EXCEPT ![r] = "late"]
             \/ age[r] = "late"  /\ age' = [age EXCEPT ![r] = "ancient"]
    /\ UNCHANGED <<storeVars, processVars, gatewayVars>>

-----------------------------------------------------------------------------
\* export: the checks, then a job of its own transaction, then send.

\* Mutant: one job more than the queue holds.
MutantQueueFull == Cardinality({r \in Requests : job[r].state \in Queued}) > MaxExports

\* limits.exports_full
QueueFull == Cardinality({r \in Requests : job[r].state \in Queued}) >= MaxExports

\* A request id is immutable: one that has a job is answered with its state.
Export(i) ==
    /\ pc[i] = "idle"
    /\ \E r \in Requests :
          /\ job[r].state = "none"
          /\ subject' = [subject EXCEPT ![i] = r]
    /\ Goto(i, "checked")
    /\ UNCHANGED <<storeVars, fence, outcome, listing, todo, gatewayVars, age>>

\* One of the checks refuses (lease, channel, source, freshness, policy, allocation, room, or the
\* adapter): the denial is a row of its own, unless the lease is lost.
Deny(i) ==
    /\ pc[i] = "checked"
    /\ IF Holds(i) THEN SetJob(i, subject[i], "DENIED") ELSE UNCHANGED job
    /\ Return(i)
    /\ UNCHANGED <<lease, fence, gatewayVars, age>>

\* All checks pass and the job is committed PENDING with its immutable body and expiry.
Queue(i) ==
    /\ pc[i] = "checked"
    /\ ~QueueFull
    /\ Holds(i)
    /\ SetJob(i, subject[i], "PENDING")
    /\ Goto(i, "send")
    /\ UNCHANGED <<lease, fence, subject, outcome, listing, todo, gatewayVars, age>>

\* The embedding program calls send for a PENDING job: the retry after a 429 or a 503.
Retry(i) ==
    /\ pc[i] = "idle"
    /\ \E r \in Requests :
          /\ job[r].state = "PENDING"
          /\ subject' = [subject EXCEPT ![i] = r]
    /\ Goto(i, "send")
    /\ UNCHANGED <<storeVars, fence, outcome, listing, todo, gatewayVars, age>>

-----------------------------------------------------------------------------
\* send: expiry and lease again, the in-flight mark, the POST, the record of its outcome.

\* The job is not PENDING, or the lease is lost: nothing is sent.
SendNothing(i) ==
    /\ pc[i] = "send"
    /\ job[subject[i]].state # "PENDING" \/ ~Holds(i)
    /\ EndSend(i)
    /\ UNCHANGED <<storeVars, fence, gatewayVars, age>>

\* The job expired in the queue.
SendExpired(i) ==
    /\ pc[i] = "send"
    /\ job[subject[i]].state = "PENDING" /\ age[subject[i]] # "fresh"
    /\ Holds(i)
    /\ SetJob(i, subject[i], "EXPIRED")
    /\ EndSend(i)
    /\ UNCHANGED <<lease, fence, gatewayVars, age>>

\* SQL_JOB_INFLIGHT
MarkInFlight(i) ==
    /\ pc[i] = "send"
    /\ job[subject[i]].state = "PENDING" /\ age[subject[i]] = "fresh"
    /\ Holds(i)
    /\ job' = [job EXCEPT ![subject[i]].inFlight = TRUE, ![subject[i]].fence = fence[i]]
    /\ Goto(i, "posting")
    /\ UNCHANGED <<lease, fence, subject, outcome, listing, todo, gatewayVars, age>>

\* The process has an answer, or knows that there is none.
Answered(i, state) ==
    /\ outcome' = [outcome EXCEPT ![i] = state]
    /\ Goto(i, "record")
    /\ UNCHANGED <<storeVars, fence, subject, listing, todo>>

\* SQL_P_IDEM_PRUNE at the start of every transmit.
Pruned(r) == age[r] = "ancient"

\* Mutant: a request is known as long as it is not sent.
MutantKnown(r) == idem[r] \notin {"none", "SENT"} /\ ~Pruned(r)

\* The gateway has the request and its body already.
Known(r) == idem[r] # "none" /\ ~Pruned(r)

\* transmit, for a request of age a: the gateway's row of the request afterwards.  A request is
\* judged, accepted and, by the synthetic gateway, sent.
Judged(r, a) ==
    IF Known(r) THEN idem[r]
    ELSE IF a # "fresh" THEN "EXPIRED"
    ELSE IF r \in Refused THEN "REJECTED"
    ELSE IF Immediate THEN "SENT"
    ELSE "ACCEPTED"

\* The whole of transmit; the other rows it prunes are those of ancient requests.
Transmit(r) ==
    /\ idem' = [q \in Requests |-> IF q = r THEN Judged(r, age[r])
                                   ELSE IF Pruned(q) THEN "none" ELSE idem[q]]
    /\ sent' = IF ~Known(r) /\ Judged(r, age[r]) = "SENT" THEN [sent EXCEPT ![r] = @ + 1]
                                                          ELSE sent

\* The gateway answers 202 with its state, 409 or 422, and each is the job's new state.
PostAnswered(i) ==
    /\ pc[i] = "posting"
    /\ Transmit(subject[i])
    /\ Answered(i, idem'[subject[i]])
    /\ UNCHANGED <<calls, age>>

\* The request expires at the gateway between its acceptance and its sending.
PostExpires(i) ==
    /\ pc[i] = "posting" /\ Immediate
    /\ ~Known(subject[i]) /\ subject[i] \notin Refused /\ age[subject[i]] = "fresh"
    /\ age' = [age EXCEPT ![subject[i]] = "late"]
    /\ idem' = [q \in Requests |-> IF q = subject[i] THEN "EXPIRED"
                                   ELSE IF Pruned(q) THEN "none" ELSE idem[q]]
    /\ Answered(i, "EXPIRED")
    /\ UNCHANGED <<sent, calls>>

\* 429, 503 or no connection: nothing left, the job waits for a retry.
PostUnavailable(i) ==
    /\ pc[i] = "posting" /\ "unavailable" \in Faults
    /\ Answered(i, "PENDING")
    /\ UNCHANGED <<gatewayVars, age>>

\* 401 or 403: any answer that is not worth a retry refuses the job.
PostRefused(i) ==
    /\ pc[i] = "posting" /\ "auth" \in Faults
    /\ Answered(i, "REJECTED")
    /\ UNCHANGED <<gatewayVars, age>>

\* No answer, or none of the API's: the request may be on its way.
PostUnanswered(i) ==
    /\ pc[i] = "posting" /\ "lost" \in Faults
    /\ calls' = calls \cup {subject[i]}
    /\ Answered(i, "UNKNOWN")
    /\ UNCHANGED <<idem, sent, age>>

\* A POST nobody waits for reaches the gateway, perhaps more than once.  No connection lives as
\* long as the replay window.
CallArrives ==
    /\ \E r \in calls : age[r] # "ancient" /\ Transmit(r)
    /\ UNCHANGED <<storeVars, processVars, calls, age>>

\* Mutant: the outcome is recorded without the lease.
MutantRecord(i) ==
    /\ pc[i] = "record"
    /\ SetJob(i, subject[i], outcome[i])
    /\ EndSend(i)
    /\ UNCHANGED <<lease, fence, gatewayVars, age>>

\* The outcome is recorded.
Record(i) ==
    /\ pc[i] = "record"
    /\ Holds(i)
    /\ SetJob(i, subject[i], outcome[i])
    /\ EndSend(i)
    /\ UNCHANGED <<lease, fence, gatewayVars, age>>

\* Its transaction raises: the lease is lost, or the commit fails.
RecordFails(i) ==
    /\ pc[i] \in {"record", "adopt"}
    /\ ~Holds(i) \/ "commit" \in Faults
    /\ Return(i)
    /\ UNCHANGED <<storeVars, fence, gatewayVars, age>>

-----------------------------------------------------------------------------
\* A gateway of the API that is not the synthetic one accepts first and sends later.

GatewayEncodes ==
    /\ \E r \in Requests :
          /\ idem[r] = "ACCEPTED"
          /\ idem' = [idem EXCEPT ![r] = "ENCODED"]
    /\ UNCHANGED <<storeVars, processVars, sent, calls, age>>

GatewaySends ==
    /\ \E r \in Requests :
          /\ idem[r] = "ENCODED"
          /\ IF age[r] = "fresh"
               THEN idem' = [idem EXCEPT ![r] = "SENT"] /\ sent' = [sent EXCEPT ![r] = @ + 1]
               ELSE idem' = [idem EXCEPT ![r] = "EXPIRED"] /\ UNCHANGED sent
    /\ UNCHANGED <<storeVars, processVars, calls, age>>

-----------------------------------------------------------------------------
\* reconcile: the open jobs of one state after another, each asked for and adopted.

InState(state) == {r \in Requests : job[r].state = state}

Reconcile(i) ==
    /\ pc[i] = "idle"
    /\ listing' = [listing EXCEPT ![i] = "UNKNOWN"]
    /\ todo' = [todo EXCEPT ![i] = InState("UNKNOWN")]
    /\ Goto(i, "loop")
    /\ UNCHANGED <<storeVars, fence, subject, outcome, gatewayVars, age>>

\* The gateway's state differs from the listed one, and is to be adopted.
AskAdopts(i) ==
    /\ pc[i] = "loop" /\ listing[i] \in Open
    /\ \E r \in todo[i] :
          /\ idem[r] \notin {"none", listing[i]}
          /\ todo' = [todo EXCEPT ![i] = @ \ {r}]
          /\ subject' = [subject EXCEPT ![i] = r]
          /\ outcome' = [outcome EXCEPT ![i] = idem[r]]
    /\ Goto(i, "adopt")
    /\ UNCHANGED <<storeVars, fence, listing, gatewayVars, age>>

\* It is the same, the gateway does not know the request (404), or does not answer.
AskLeaves(i) ==
    /\ pc[i] = "loop" /\ listing[i] \in Open
    /\ \E r \in todo[i] :
          /\ idem[r] \in {"none", listing[i]} \/ Faults \cap {"lost", "unavailable"} # {}
          /\ todo' = [todo EXCEPT ![i] = @ \ {r}]
    /\ UNCHANGED <<storeVars, pc, fence, subject, outcome, listing, gatewayVars, age>>

Adopt(i) ==
    /\ pc[i] = "adopt"
    /\ Holds(i)
    /\ SetJob(i, subject[i], outcome[i])
    /\ Goto(i, "loop")
    /\ subject' = [subject EXCEPT ![i] = NoRequest]
    /\ outcome' = [outcome EXCEPT ![i] = "none"]
    /\ UNCHANGED <<lease, fence, listing, todo, gatewayVars, age>>

\* The next state is listed, or the loop ends.
NextListing(i) ==
    /\ pc[i] = "loop" /\ listing[i] \in Open /\ todo[i] = {}
    /\ IF NextOpen(listing[i]) = "none"
         THEN Return(i)
         ELSE /\ listing' = [listing EXCEPT ![i] = NextOpen(listing[i])]
              /\ todo' = [todo EXCEPT ![i] = InState(NextOpen(listing[i]))]
              /\ UNCHANGED <<pc, subject, outcome>>
    /\ UNCHANGED <<storeVars, fence, gatewayVars, age>>

-----------------------------------------------------------------------------
\* revalidate: the jobs of an older fence are checked again, then sent.

Revalidate(i) ==
    /\ pc[i] = "idle"
    /\ listing' = [listing EXCEPT ![i] = "REVALIDATE"]
    /\ todo' = [todo EXCEPT ![i] = InState("REVALIDATE")]
    /\ Goto(i, "loop")
    /\ UNCHANGED <<storeVars, fence, subject, outcome, gatewayVars, age>>

\* The job has expired, or one of the checks of export refuses it, the room in the queue (in
\* which the job itself is counted) among them.
Refuse(i) ==
    /\ pc[i] = "loop" /\ listing[i] = "REVALIDATE"
    /\ Holds(i)
    /\ \E r \in todo[i] :
          /\ SetJob(i, r, IF age[r] # "fresh" THEN "EXPIRED" ELSE "DENIED")
          /\ todo' = [todo EXCEPT ![i] = @ \ {r}]
    /\ UNCHANGED <<lease, pc, fence, subject, outcome, listing, gatewayVars, age>>

\* SQL_JOB_REBODY, then send.
Requeue(i) ==
    /\ pc[i] = "loop" /\ listing[i] = "REVALIDATE"
    /\ Holds(i) /\ ~QueueFull
    /\ \E r \in todo[i] :
          /\ age[r] = "fresh"
          /\ job' = [job EXCEPT ![r].state = "PENDING", ![r].fence = fence[i]]
          /\ todo' = [todo EXCEPT ![i] = @ \ {r}]
          /\ subject' = [subject EXCEPT ![i] = r]
    /\ Goto(i, "send")
    /\ UNCHANGED <<lease, fence, outcome, listing, gatewayVars, age>>

\* The loop ends; with the lease lost, in an exception of the first job's transaction.
EndRevalidate(i) ==
    /\ pc[i] = "loop" /\ listing[i] = "REVALIDATE"
    /\ todo[i] = {} \/ ~Holds(i)
    /\ Return(i)
    /\ UNCHANGED <<storeVars, fence, gatewayVars, age>>

-----------------------------------------------------------------------------
\* The operator's commands take the lease (and so move the jobs), write and give it up.

\* resolve-send --decision abandon
Abandon(r) ==
    /\ UnderFence(lease'.fence)[r].state = "UNKNOWN"
    /\ job' = [UnderFence(lease'.fence) EXCEPT ![r] = Row("FAILED", lease'.fence)]

ResolveSend ==
    /\ lease.expired /\ Spare
    /\ lease' = [holder |-> Operator, fence |-> lease.fence + 1, expired |-> TRUE]
    /\ \E r \in Requests : Abandon(r)
    /\ UNCHANGED <<processVars, gatewayVars, age>>

\* allocate, recover and the others leave the jobs as the new fence makes them.
OperatorCommand ==
    /\ lease.expired /\ Spare
    /\ lease' = [holder |-> Operator, fence |-> lease.fence + 1, expired |-> TRUE]
    /\ job' = UnderFence(lease'.fence)
    /\ UNCHANGED <<processVars, gatewayVars, age>>

-----------------------------------------------------------------------------
Work(i) ==
    \/ Queue(i) \/ Deny(i)
    \/ SendNothing(i) \/ SendExpired(i) \/ MarkInFlight(i)
    \/ PostAnswered(i) \/ PostExpires(i) \/ PostUnavailable(i) \/ PostRefused(i)
    \/ PostUnanswered(i) \/ Record(i) \/ RecordFails(i)
    \/ AskAdopts(i) \/ AskLeaves(i) \/ Adopt(i) \/ NextListing(i)
    \/ Refuse(i) \/ Requeue(i) \/ EndRevalidate(i)

Call(i) == Export(i) \/ Retry(i) \/ Reconcile(i) \/ Revalidate(i)

Life(i) == Start(i) \/ Reacquire(i) \/ Overtaken(i) \/ Close(i) \/ Crash(i)

Next ==
    \/ \E i \in Instances : Life(i) \/ Call(i) \/ Work(i)
    \/ LeaseExpires \/ TimePasses
    \/ CallArrives \/ GatewayEncodes \/ GatewaySends
    \/ ResolveSend \/ OperatorCommand

Spec == Init /\ [][Next]_vars

\* A call goes on, the loop gets its turn between calls, a process that is down is started again,
\* the lease of one that is gone runs out.  Nothing is assumed of callers, operators, crashes or
\* the gateway.
FairSpec ==
    /\ Spec
    /\ \A i \in Instances : /\ WF_vars(Work(i)) /\ WF_vars(Start(i)) /\ SF_vars(Reacquire(i) \/ Overtaken(i))
                            /\ WF_vars(LeaseExpires /\ (pc[i] = "down" \/ ~Holds(i)))

-----------------------------------------------------------------------------
\* No request goes out to the peer twice, however often its POST was made, received or repeated
\* (the in-flight mark, UNKNOWN instead of a second send, the gateway's idempotency and its
\* replay window; docs/operations.md "never into a second send").
SentOnce == \A r \in Requests : sent[r] <= 1

\* A final state is final: no late answer, overtaken process, new fence, reconcile, revalidate
\* or operator moves a job out of it (FINAL_STATES; send, reconcile and revalidate look at the
\* state before the transaction that writes).
FinalStays ==
    [][\A r \in Requests : job[r].state \in Final => job'[r] = job[r]]_vars

\* The queue never holds more jobs than its limit: the jobs that a new fence, a retry or an
\* adopted state brings back to it are the ones that were counted (limits.exports_full).
QueueBounded == Cardinality({r \in Requests : job[r].state \in Queued}) <= MaxExports

\* Who records an outcome does it under the newest fence the job has seen: the answer of an
\* overtaken process never replaces what its successor wrote (Lease.check, SQL_JOB_STATE).
JobFenceAdvances ==
    [][\A r \in Requests : /\ job'[r].fence >= job[r].fence
                           /\ job'[r] # job[r] => job'[r].fence = lease'.fence]_vars

\* The bridge and the gateway together implement the abstract outcome of an export.
Reported(state) ==
    CASE state = "none" -> "none"
      [] state = "UNKNOWN" -> "doubtful"
      [] state = "SENT" -> "sent"
      [] state \in {"DENIED", "REJECTED", "EXPIRED"} -> "unsent"
      [] state = "FAILED" -> "abandoned"
      [] OTHER -> "open"

Outcome == INSTANCE ExportOutcome WITH
    report <- [r \in Requests |-> Reported(job[r].state)],
    out    <- sent

OutcomeSpec == Outcome!Spec

\* A job does not stay in flight: its outcome is recorded, or a new fence puts it in doubt
\* (MarkInFlight, Record, SQL_JOBS_INFLIGHT_UNKNOWN).
InFlightResolves == \A r \in Requests : job[r].inFlight ~> ~job[r].inFlight

=============================================================================
