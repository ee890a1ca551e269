----------------------------- MODULE Egress_Proofs -----------------------------
(***************************************************************************)
(* Proofs about Egress, for any number of processes, requests, acquisitions*)
(* and jobs in the queue: type correctness, no second sending of a request,*)
(* final states that stay, writes under the newest fence only, a queue     *)
(* within its limit, and that Egress implements ExportOutcome.             *)
(***************************************************************************)
EXTENDS Egress, FiniteSetTheorems, TLAPS

\* A process that works on a request has one.
Working == {"checked", "send", "posting", "record", "adopt"}

Busy == \A i \in Instances : pc[i] \in Working => subject[i] \in Requests

Typed == TypeOK /\ Busy

-----------------------------------------------------------------------------
\* A row that a statement writes is a row.
LEMMA RowType ==
    ASSUME NEW state \in JobStates, NEW f \in 0 .. MaxFence
    PROVE  Row(state, f) \in Jobs
BY DEF Row, Jobs

\* What a new fence makes of the jobs (SQL_JOBS_INFLIGHT_UNKNOWN, SQL_JOBS_REVALIDATE).
LEMMA UnderFenceType ==
    ASSUME job \in [Requests -> Jobs], NEW f \in 0 .. MaxFence
    PROVE  UnderFence(f) \in [Requests -> Jobs]
BY RowType DEF UnderFence, JobStates

\* A transmission leaves rows of the gateway's states, and counts (transmit).
LEMMA TransmitType ==
    ASSUME Typed, NEW r \in Requests, Transmit(r)
    PROVE  /\ idem' \in [Requests -> GatewayStates]
           /\ sent' \in [Requests -> Nat]
BY DEF Transmit, Typed, TypeOK, Judged, GatewayStates

\* A new fence is one, and what it makes of the jobs are jobs (Lease.acquire).
LEMMA NewFenceType ==
    ASSUME TypeOK, Spare, EgressAssumption,
           NEW holder \in Instances \cup {Operator}, NEW expired \in BOOLEAN,
           lease' = [holder |-> holder, fence |-> lease.fence + 1, expired |-> expired]
    PROVE  /\ lease' \in [holder: Instances \cup {Operator}, fence: 0 .. MaxFence, expired: BOOLEAN]
           /\ lease'.fence \in 0 .. MaxFence
           /\ lease'.fence = lease.fence + 1
           /\ UnderFence(lease'.fence) \in [Requests -> Jobs]
<1>1. lease.fence \in 0 .. MaxFence /\ lease.fence < MaxFence /\ MaxFence \in Nat
  BY DEF TypeOK, Spare, EgressAssumption
<1>2. lease'.fence \in 0 .. MaxFence
  BY <1>1
<1>3. UnderFence(lease'.fence) \in [Requests -> Jobs]
  BY <1>2, UnderFenceType DEF TypeOK
<1>4. QED
  BY <1>1, <1>2, <1>3

\* A transaction that sets a job's state leaves jobs (_set).
LEMMA SetJobType ==
    ASSUME TypeOK, NEW i \in Instances, NEW r \in Requests, NEW state \in JobStates,
           SetJob(i, r, state)
    PROVE  job' \in [Requests -> Jobs]
<1>1. Row(state, fence[i]) \in Jobs
  BY RowType DEF TypeOK
<1>2. QED
  BY <1>1 DEF SetJob, TypeOK

\* A call that returns leaves a process without a request.
LEMMA ReturnType ==
    ASSUME Typed, NEW i \in Instances, Return(i)
    PROVE  /\ pc' \in [Instances -> PCs]
           /\ subject' \in [Instances -> Requests \cup {NoRequest}]
           /\ outcome' \in [Instances -> JobStates]
           /\ listing' \in [Instances -> Open \cup {"REVALIDATE", "none"}]
           /\ todo' \in [Instances -> SUBSET Requests]
           /\ Busy'
BY DEF Return, Typed, TypeOK, Busy, Working, PCs, JobStates

\* So does a send that goes back to its loop.
LEMMA EndSendType ==
    ASSUME Typed, NEW i \in Instances, EndSend(i)
    PROVE  /\ pc' \in [Instances -> PCs]
           /\ subject' \in [Instances -> Requests \cup {NoRequest}]
           /\ outcome' \in [Instances -> JobStates]
           /\ listing' \in [Instances -> Open \cup {"REVALIDATE", "none"}]
           /\ todo' \in [Instances -> SUBSET Requests]
           /\ Busy'
<1>1. CASE Return(i)
  BY <1>1, ReturnType
<1>2. CASE ~Return(i)
  BY <1>2 DEF EndSend, Goto, Typed, TypeOK, Busy, Working, PCs, JobStates
<1>3. QED
  BY <1>1, <1>2

\* Every step keeps the types, and no process loses the request it works on.
LEMMA TypedStep == Typed /\ [Next]_vars => Typed'
<1>. SUFFICES ASSUME Typed, [Next]_vars PROVE Typed'
  OBVIOUS
<1>. USE EgressAssumption DEF storeVars, processVars, gatewayVars, vars, Typed, TypeOK
<1>1. ASSUME NEW i \in Instances, Start(i) PROVE Typed'
  <2>1. lease' = [holder |-> i, fence |-> lease.fence + 1, expired |-> FALSE] /\ Spare
    BY <1>1 DEF Start, Acquire
  <2>2. /\ lease' \in [holder: Instances \cup {Operator}, fence: 0 .. MaxFence, expired: BOOLEAN]
        /\ job' \in [Requests -> Jobs] /\ fence' \in [Instances -> 0 .. MaxFence]
    BY <1>1, <2>1, NewFenceType DEF Start
  <2>3. QED
    BY <1>1, <2>2 DEF Start, Goto, Busy, Working, PCs
<1>2. ASSUME NEW i \in Instances, Reacquire(i) PROVE Typed'
  <2>1. lease' = [holder |-> i, fence |-> lease.fence + 1, expired |-> FALSE] /\ Spare
    BY <1>2 DEF Reacquire, Acquire
  <2>2. QED
    BY <1>2, <2>1, NewFenceType DEF Reacquire, Busy
<1>3. ASSUME NEW i \in Instances, Overtaken(i) PROVE Typed'
  BY <1>3 DEF Overtaken, Goto, Busy, Working, PCs
<1>4. ASSUME NEW i \in Instances, Close(i) PROVE Typed'
  <2>1. [lease EXCEPT !.expired = TRUE] \in [holder: Instances \cup {Operator}, fence: 0 .. MaxFence, expired: BOOLEAN]
    OBVIOUS
  <2>2. lease' \in [holder: Instances \cup {Operator}, fence: 0 .. MaxFence, expired: BOOLEAN]
    BY <1>4, <2>1 DEF Close
  <2>3. QED
    BY <1>4, <2>2 DEF Close, Goto, Busy, Working, PCs
<1>5. ASSUME NEW i \in Instances, Crash(i) PROVE Typed'
  BY <1>5 DEF Crash, Busy, Working, PCs, JobStates
<1>6. ASSUME NEW i \in Instances, Export(i) PROVE Typed'
  BY <1>6 DEF Export, Goto, Busy, Working, PCs
<1>7. ASSUME NEW i \in Instances, Retry(i) PROVE Typed'
  BY <1>7 DEF Retry, Goto, Busy, Working, PCs
<1>8. ASSUME NEW i \in Instances, Reconcile(i) PROVE Typed'
  BY <1>8 DEF Reconcile, Goto, InState, Open, Busy, Working, PCs
<1>9. ASSUME NEW i \in Instances, Revalidate(i) PROVE Typed'
  BY <1>9 DEF Revalidate, Goto, InState, Busy, Working, PCs
<1>10. ASSUME NEW i \in Instances, Queue(i) PROVE Typed'
  <2>1. subject[i] \in Requests
    BY <1>10 DEF Queue, Busy, Working
  <2>2. job' \in [Requests -> Jobs]
    BY <1>10, <2>1, SetJobType DEF Queue, JobStates
  <2>3. QED
    BY <1>10, <2>1, <2>2 DEF Queue, Goto, Busy, Working, PCs
<1>11. ASSUME NEW i \in Instances, Deny(i) PROVE Typed'
  <2>1. subject[i] \in Requests
    BY <1>11 DEF Deny, Busy, Working
  <2>2. job' \in [Requests -> Jobs]
    BY <1>11, <2>1, SetJobType DEF Deny, JobStates
  <2>3. QED
    BY <1>11, <2>1, <2>2, ReturnType DEF Deny
<1>12. ASSUME NEW i \in Instances, SendNothing(i) PROVE Typed'
  BY <1>12, EndSendType DEF SendNothing
<1>13. ASSUME NEW i \in Instances, SendExpired(i) PROVE Typed'
  <2>1. subject[i] \in Requests
    BY <1>13 DEF SendExpired, Busy, Working
  <2>2. job' \in [Requests -> Jobs]
    BY <1>13, <2>1, SetJobType DEF SendExpired, JobStates
  <2>3. QED
    BY <1>13, <2>1, <2>2, EndSendType DEF SendExpired
<1>14. ASSUME NEW i \in Instances, MarkInFlight(i) PROVE Typed'
  <2>1. subject[i] \in Requests
    BY <1>14 DEF MarkInFlight, Busy, Working
  <2>2. job' \in [Requests -> Jobs]
    <3>. DEFINE old == job[subject[i]]
                new == [[old EXCEPT !.inFlight = TRUE] EXCEPT !.fence = fence[i]]
    <3>1. old \in Jobs /\ fence[i] \in 0 .. MaxFence
      BY <2>1
    <3>2. new \in Jobs
      BY <3>1 DEF Jobs
    <3>3. job' = [job EXCEPT ![subject[i]] = new]
      BY <1>14, <2>1 DEF MarkInFlight
    <3>4. QED
      BY <2>1, <3>2, <3>3
  <2>3. QED
    BY <1>14, <2>1, <2>2 DEF MarkInFlight, Goto, Busy, Working, PCs
<1>15. ASSUME NEW i \in Instances, PostAnswered(i) PROVE Typed'
  <2>1. subject[i] \in Requests
    BY <1>15 DEF PostAnswered, Busy, Working
  <2>2. idem' \in [Requests -> GatewayStates] /\ sent' \in [Requests -> Nat]
    BY <1>15, <2>1, TransmitType DEF PostAnswered
  <2>3. idem'[subject[i]] \in JobStates
    BY <2>1, <2>2 DEF GatewayStates, JobStates
  <2>4. QED
    BY <1>15, <2>1, <2>2, <2>3 DEF PostAnswered, Answered, Goto, Busy, Working, PCs
<1>16. ASSUME NEW i \in Instances, PostExpires(i) PROVE Typed'
  BY <1>16 DEF PostExpires, GatewayStates, Answered, Goto, Busy, Working, PCs, JobStates
<1>17. ASSUME NEW i \in Instances, PostUnavailable(i) PROVE Typed'
  BY <1>17 DEF PostUnavailable, gatewayVars, Answered, Goto, Busy, Working, PCs, JobStates
<1>18. ASSUME NEW i \in Instances, PostRefused(i) PROVE Typed'
  BY <1>18 DEF PostRefused, Answered, Goto, Busy, Working, PCs, JobStates
<1>19. ASSUME NEW i \in Instances, PostUnanswered(i) PROVE Typed'
  BY <1>19 DEF PostUnanswered, Answered, Goto, Busy, Working, PCs, JobStates
<1>20. ASSUME NEW i \in Instances, Record(i) PROVE Typed'
  <2>1. subject[i] \in Requests
    BY <1>20 DEF Record, Busy, Working
  <2>2. job' \in [Requests -> Jobs]
    BY <1>20, <2>1, SetJobType DEF Record, JobStates
  <2>3. QED
    BY <1>20, <2>1, <2>2, EndSendType DEF Record
<1>21. ASSUME NEW i \in Instances, RecordFails(i) PROVE Typed'
  BY <1>21, ReturnType DEF RecordFails
<1>22. ASSUME NEW i \in Instances, AskAdopts(i) PROVE Typed'
  <2>1. PICK r \in todo[i] : /\ idem[r] \notin {"none", listing[i]}
                             /\ todo' = [todo EXCEPT ![i] = @ \ {r}]
                             /\ subject' = [subject EXCEPT ![i] = r]
                             /\ outcome' = [outcome EXCEPT ![i] = idem[r]]
    BY <1>22 DEF AskAdopts
  <2>2. r \in Requests /\ idem[r] \in JobStates
    BY <2>1 DEF GatewayStates, JobStates
  <2>3. QED
    BY <1>22, <2>1, <2>2 DEF AskAdopts, Goto, Busy, Working, PCs
<1>23. ASSUME NEW i \in Instances, AskLeaves(i) PROVE Typed'
  BY <1>23 DEF AskLeaves, Busy
<1>24. ASSUME NEW i \in Instances, Adopt(i) PROVE Typed'
  <2>1. subject[i] \in Requests
    BY <1>24 DEF Adopt, Busy, Working
  <2>2. job' \in [Requests -> Jobs]
    BY <1>24, <2>1, SetJobType DEF Adopt, JobStates
  <2>3. QED
    BY <1>24, <2>1, <2>2 DEF Adopt, Goto, Busy, Working, PCs, JobStates
<1>25. ASSUME NEW i \in Instances, NextListing(i) PROVE Typed'
  <2>1. CASE Return(i)
    BY <1>25, <2>1, ReturnType DEF NextListing
  <2>2. CASE ~Return(i)
    BY <1>25, <2>2 DEF NextListing, NextOpen, InState, Open, Busy
  <2>3. QED
    BY <2>1, <2>2
<1>26. ASSUME NEW i \in Instances, Refuse(i) PROVE Typed'
  <2>1. PICK r \in todo[i] : /\ SetJob(i, r, IF age[r] # "fresh" THEN "EXPIRED" ELSE "DENIED")
                             /\ todo' = [todo EXCEPT ![i] = @ \ {r}]
    BY <1>26 DEF Refuse
  <2>2. r \in Requests
    BY <2>1
  <2>3. job' \in [Requests -> Jobs]
    BY <2>1, <2>2, SetJobType DEF JobStates
  <2>4. QED
    BY <1>26, <2>1, <2>3 DEF Refuse, Busy
<1>27. ASSUME NEW i \in Instances, Requeue(i) PROVE Typed'
  <2>1. PICK r \in todo[i] :
            /\ job' = [job EXCEPT ![r].state = "PENDING", ![r].fence = fence[i]]
            /\ todo' = [todo EXCEPT ![i] = @ \ {r}]
            /\ subject' = [subject EXCEPT ![i] = r]
    BY <1>27 DEF Requeue
  <2>2. job' \in [Requests -> Jobs] /\ r \in Requests
    BY <2>1 DEF Jobs, JobStates
  <2>3. QED
    BY <1>27, <2>1, <2>2 DEF Requeue, Goto, Busy, Working, PCs
<1>28. ASSUME NEW i \in Instances, EndRevalidate(i) PROVE Typed'
  BY <1>28, ReturnType DEF EndRevalidate
<1>29. CASE LeaseExpires
  <2>1. lease' \in [holder: Instances \cup {Operator}, fence: 0 .. MaxFence, expired: BOOLEAN]
    BY <1>29 DEF LeaseExpires
  <2>2. QED
    BY <1>29, <2>1 DEF LeaseExpires, Busy
<1>30. CASE TimePasses
  BY <1>30 DEF TimePasses, Busy
<1>31. CASE CallArrives
  BY <1>31, TransmitType DEF CallArrives, Busy
<1>32. CASE GatewayEncodes
  BY <1>32 DEF GatewayEncodes, Busy, GatewayStates
<1>33. CASE GatewaySends
  <2>1. sent' \in [Requests -> Nat]
    BY <1>33 DEF GatewaySends
  <2>2. QED
    BY <1>33, <2>1 DEF GatewaySends, Busy, GatewayStates
<1>34. CASE ResolveSend
  <2>1. lease' = [holder |-> Operator, fence |-> lease.fence + 1, expired |-> TRUE] /\ Spare
    BY <1>34 DEF ResolveSend
  <2>2. /\ lease' \in [holder: Instances \cup {Operator}, fence: 0 .. MaxFence, expired: BOOLEAN]
        /\ lease'.fence \in 0 .. MaxFence
        /\ UnderFence(lease'.fence) \in [Requests -> Jobs]
    BY <2>1, NewFenceType
  <2>3. Row("FAILED", lease'.fence) \in Jobs
    BY <2>2, RowType DEF JobStates
  <2>4. job' \in [Requests -> Jobs]
    BY <1>34, <2>2, <2>3 DEF ResolveSend, Abandon
  <2>5. QED
    BY <1>34, <2>2, <2>4 DEF ResolveSend, Busy
<1>35. CASE OperatorCommand
  <2>1. lease' = [holder |-> Operator, fence |-> lease.fence + 1, expired |-> TRUE] /\ Spare
    BY <1>35 DEF OperatorCommand
  <2>2. QED
    BY <1>35, <2>1, NewFenceType DEF OperatorCommand, Busy
<1>36. CASE UNCHANGED vars
  BY <1>36 DEF Busy
<1>37. QED
  BY <1>1, <1>2, <1>3, <1>4, <1>5, <1>6, <1>7, <1>8, <1>9, <1>10, <1>11, <1>12, <1>13, <1>14,
     <1>15, <1>16, <1>17, <1>18, <1>19, <1>20, <1>21, <1>22, <1>23, <1>24, <1>25, <1>26, <1>27,
     <1>28, <1>29, <1>30, <1>31, <1>32, <1>33, <1>34, <1>35, <1>36 DEF Next, Life, Call, Work

LEMMA TypedHolds == Spec => []Typed
<1>1. Init => Typed
  BY EgressAssumption DEF Init, Typed, TypeOK, Busy, Working, PCs, JobStates, Jobs, Row,
     GatewayStates, Open
<1>2. QED
  BY <1>1, TypedStep, PTL DEF Spec

\* Every reachable state is well typed: rows, processes, the gateway's rows and the ages.
THEOREM EgressTypeCorrect == Spec => []TypeOK
BY TypedHolds, PTL DEF Typed

-----------------------------------------------------------------------------
\* No second sending.  A request that went out is on the gateway's record as sent, until the
\* record is so old that the request cannot be taken again; and one that the gateway holds to be
\* sent has not gone out.
SentOnRecord ==
    \A r \in Requests :
       /\ sent[r] <= 1
       /\ sent[r] = 1 => idem[r] = "SENT" \/ age[r] = "ancient"
       /\ idem[r] \in {"ACCEPTED", "ENCODED"} => sent[r] = 0

\* A transmission keeps it: a request the gateway knows is not sent again, and one that is as old
\* as the record it dropped is refused as expired (transmit, SQL_P_IDEM_PRUNE).
LEMMA TransmitKeeps ==
    ASSUME Typed, SentOnRecord, NEW r \in Requests, Transmit(r), UNCHANGED age
    PROVE  SentOnRecord'
<1>1. SUFFICES ASSUME NEW q \in Requests
               PROVE  /\ sent'[q] <= 1
                      /\ sent'[q] = 1 => idem'[q] = "SENT" \/ age[q] = "ancient"
                      /\ idem'[q] \in {"ACCEPTED", "ENCODED"} => sent'[q] = 0
  BY DEF SentOnRecord
<1>2. CASE q # r
  <2>1. sent'[q] = sent[q] /\ idem'[q] \in {idem[q], "none"} /\ (idem'[q] # idem[q] => age[q] = "ancient")
    BY <1>2 DEF Transmit, Pruned, Typed, TypeOK
  <2>2. QED
    BY <2>1 DEF SentOnRecord
<1>3. CASE q = r /\ Known(r)
  <2>1. sent' = sent /\ idem'[q] = idem[q]
    BY <1>3 DEF Transmit, Judged
  <2>2. QED
    BY <2>1 DEF SentOnRecord
<1>4. CASE q = r /\ ~Known(r)
  <2>1. sent[r] \in Nat /\ idem'[r] = Judged(r, age[r])
    BY DEF Typed, TypeOK, Transmit
  <2>2. CASE age[r] # "fresh"
    BY <1>4, <2>1, <2>2 DEF Transmit, Judged, SentOnRecord, Known, Pruned
  <2>3. CASE age[r] = "fresh"
    <3>1. sent[r] = 0
      BY <1>4, <2>1, <2>3 DEF SentOnRecord, Known, Pruned
    <3>2. sent'[r] = IF Judged(r, age[r]) = "SENT" THEN 1 ELSE 0
      BY <1>4, <3>1 DEF Transmit, Typed, TypeOK
    <3>3. Judged(r, age[r]) \in {"REJECTED", "SENT", "ACCEPTED"}
      BY <1>4, <2>3 DEF Judged
    <3>4. QED
      BY <1>4, <2>1, <3>2, <3>3
  <2>4. QED
    BY <2>2, <2>3
<1>5. QED
  BY <1>2, <1>3, <1>4

\* So does a step that leaves the gateway alone, for nothing gets younger.
LEMMA GatewayAlone ==
    ASSUME SentOnRecord, UNCHANGED <<idem, sent>>,
           \A r \in Requests : age[r] = "ancient" => age'[r] = "ancient"
    PROVE  SentOnRecord'
BY DEF SentOnRecord

LEMMA SentOnRecordStep == Typed /\ SentOnRecord /\ [Next]_vars => SentOnRecord'
<1>. SUFFICES ASSUME Typed, SentOnRecord, [Next]_vars PROVE SentOnRecord'
  OBVIOUS
<1>. USE DEF storeVars, processVars, gatewayVars
<1>1. ASSUME NEW i \in Instances, Life(i) \/ Call(i) PROVE SentOnRecord'
  BY <1>1, GatewayAlone DEF Life, Call, Start, Reacquire, Overtaken, Close, Crash, Export, Retry,
     Reconcile, Revalidate
<1>2. ASSUME NEW i \in Instances, PostAnswered(i) PROVE SentOnRecord'
  BY <1>2, TransmitKeeps DEF PostAnswered, Typed, Busy, Working
<1>3. ASSUME NEW i \in Instances, PostExpires(i) PROVE SentOnRecord'
  <2>1. subject[i] \in Requests /\ sent[subject[i]] \in Nat
    BY <1>3 DEF PostExpires, Typed, TypeOK, Busy, Working
  <2>2. sent' = sent /\ sent[subject[i]] = 0 /\ idem'[subject[i]] = "EXPIRED"
    BY <1>3, <2>1 DEF PostExpires, Known, Pruned, SentOnRecord
  <2>3. \A q \in Requests \ {subject[i]} :
           /\ age'[q] = age[q]
           /\ idem'[q] = idem[q] \/ (idem'[q] = "none" /\ age[q] = "ancient")
    BY <1>3, <2>1 DEF PostExpires, Pruned, Typed, TypeOK
  <2>4. QED
    BY <2>1, <2>2, <2>3 DEF SentOnRecord
<1>4. ASSUME NEW i \in Instances, Work(i), ~PostAnswered(i), ~PostExpires(i) PROVE SentOnRecord'
  <2>1. UNCHANGED <<idem, sent, age>>
    BY <1>4 DEF Work, Queue, Deny, SendNothing, SendExpired, MarkInFlight, PostUnavailable,
       PostRefused, PostUnanswered, Record, RecordFails, AskAdopts, AskLeaves, Adopt, NextListing,
       Refuse, Requeue, EndRevalidate
  <2>2. QED
    BY <2>1, GatewayAlone
<1>5. CASE TimePasses
  BY <1>5, GatewayAlone DEF TimePasses, Typed, TypeOK
<1>6. CASE CallArrives
  BY <1>6, TransmitKeeps DEF CallArrives, Typed, TypeOK
<1>7. CASE GatewayEncodes
  BY <1>7 DEF GatewayEncodes, SentOnRecord, Typed, TypeOK
<1>8. CASE GatewaySends
  <2>1. PICK r \in Requests :
          /\ idem[r] = "ENCODED"
          /\ \/ idem' = [idem EXCEPT ![r] = "SENT"] /\ sent' = [sent EXCEPT ![r] = @ + 1]
             \/ idem' = [idem EXCEPT ![r] = "EXPIRED"] /\ sent' = sent
    BY <1>8 DEF GatewaySends
  <2>2. sent[r] = 0 /\ age' = age
    BY <1>8, <2>1 DEF SentOnRecord, GatewaySends
  <2>3. QED
    BY <2>1, <2>2 DEF SentOnRecord, Typed, TypeOK
<1>9. CASE LeaseExpires \/ ResolveSend \/ OperatorCommand \/ UNCHANGED vars
  BY <1>9, GatewayAlone DEF LeaseExpires, ResolveSend, OperatorCommand, vars
<1>10. QED
  BY <1>1, <1>2, <1>3, <1>4, <1>5, <1>6, <1>7, <1>8, <1>9 DEF Next

\* No request goes out to the peer twice: not by a second POST of a new process, of a retry or of
\* the network, and not by a gateway that sends later (transmit, SQL_JOB_INFLIGHT).
THEOREM RequestSentOnce == Spec => []SentOnce
<1>1. Init => SentOnRecord
  BY DEF Init, SentOnRecord
<1>2. SentOnRecord => SentOnce
  BY DEF SentOnRecord, SentOnce
<1>3. QED
  BY <1>1, <1>2, SentOnRecordStep, TypedHolds, PTL DEF Spec

-----------------------------------------------------------------------------
\* Final states.  Only the holder of the lease writes, and nobody else has since it took the
\* lease: what it read of a job before a transaction is still true in it.
Current(i) == lease.holder = i /\ lease.fence = fence[i]

\* A job in flight is PENDING.
Marked == \A r \in Requests : job[r].inFlight => job[r].state = "PENDING"

\* A process between calls has no listing left, and the request it works on is not in the rest of
\* its listing.
Unlisted ==
    \A i \in Instances : /\ pc[i] \in {"idle", "down"} => todo[i] = {}
                         /\ pc[i] \in Working => subject[i] \notin todo[i]

\* The jobs that the holder of the lease is about to write are open; send looks for itself.
StillOpen ==
    \A i \in Instances : Current(i) =>
       /\ pc[i] \in Working \ {"send"} => job[subject[i]].state \notin Final
       /\ \A r \in todo[i] : job[r].state \notin Final

\* No job is written under a fence that is yet to come.
FencesBehind == \A r \in Requests : job[r].fence <= lease.fence

Guarded == Marked /\ Unlisted /\ StillOpen /\ FencesBehind

\* What a step does to the jobs: it leaves the final ones, and writes under the newest fence.
FinalKept == \A r \in Requests : job[r].state \in Final => job'[r] = job[r]

FenceKept ==
    \A r \in Requests : /\ job'[r].fence >= job[r].fence
                        /\ job'[r] # job[r] => job'[r].fence = lease'.fence

\* The jobs under a new fence: final ones stay, none is in flight that is not PENDING.
LEMMA NewFenceKeeps ==
    ASSUME Typed, Guarded, NEW f \in 0 .. MaxFence, f > lease.fence, NEW r \in Requests
    PROVE  /\ job[r].state \in Final => UnderFence(f)[r] = job[r]
           /\ UnderFence(f)[r].inFlight => UnderFence(f)[r].state = "PENDING"
           /\ UnderFence(f)[r] # job[r] => UnderFence(f)[r].fence = f
           /\ UnderFence(f)[r].fence <= f
           /\ UnderFence(f)[r].fence >= job[r].fence
           /\ UnderFence(f)[r].state = "UNKNOWN" => job[r].state \notin Final
<1>1. job[r] \in Jobs /\ job[r].fence <= lease.fence /\ lease.fence \in Nat /\ f \in Nat
  BY EgressAssumption DEF Typed, TypeOK, Guarded, FencesBehind
<1>2. job[r].state \in Final => ~job[r].inFlight /\ job[r].state \notin {"PENDING", "ACCEPTED"}
  BY DEF Guarded, Marked, Final
<1>3. UnderFence(f)[r] \in {job[r], Row("UNKNOWN", f), Row("REVALIDATE", f)}
  BY DEF UnderFence
<1>4. job[r].state \in Final => UnderFence(f)[r] = job[r]
  BY <1>2 DEF UnderFence
<1>5. UnderFence(f)[r].inFlight => UnderFence(f)[r].state = "PENDING"
  BY <1>3 DEF Row, Guarded, Marked
<1>6. /\ UnderFence(f)[r] # job[r] => UnderFence(f)[r].fence = f
      /\ UnderFence(f)[r].fence <= f
      /\ UnderFence(f)[r].fence >= job[r].fence
  BY <1>1, <1>3 DEF Row, Jobs
<1>7. UnderFence(f)[r].state = "UNKNOWN" => job[r].state \notin Final
  BY <1>4 DEF Final
<1>8. QED
  BY <1>4, <1>5, <1>6, <1>7

\* So a step that takes the lease keeps what it must: the new holder has nothing in hand.
LEMMA TakeOver ==
    ASSUME Typed, Guarded, Spare, NEW holder \in Instances \cup {Operator}, NEW expired \in BOOLEAN,
           lease' = [holder |-> holder, fence |-> lease.fence + 1, expired |-> expired],
           holder \in Instances => pc'[holder] \in {"idle", "down"} /\ todo'[holder] = {},
           \/ job' = UnderFence(lease'.fence)
           \/ \E r \in Requests : Abandon(r)
    PROVE  Marked' /\ StillOpen' /\ FencesBehind' /\ FinalKept /\ FenceKept
<1>1. /\ lease'.holder = holder /\ lease'.fence = lease.fence + 1
      /\ lease'.fence \in 0 .. MaxFence /\ lease.fence \in Nat
      /\ lease'.fence > lease.fence
      /\ UnderFence(lease'.fence) \in [Requests -> Jobs]
  BY NewFenceType, EgressAssumption DEF Typed, TypeOK
<1>2. \A r \in Requests :
        \/ job'[r] = UnderFence(lease'.fence)[r]
        \/ job'[r] = Row("FAILED", lease'.fence) /\ UnderFence(lease'.fence)[r].state = "UNKNOWN"
  BY <1>1 DEF Abandon
<1>3. ASSUME NEW r \in Requests
      PROVE  /\ job'[r].inFlight => job'[r].state = "PENDING"
             /\ job'[r].fence <= lease'.fence
             /\ job[r].state \in Final => job'[r] = job[r]
             /\ job'[r].fence >= job[r].fence
             /\ job'[r] # job[r] => job'[r].fence = lease'.fence
  <2>1. CASE job'[r] = UnderFence(lease'.fence)[r]
    BY <1>1, <2>1, NewFenceKeeps
  <2>2. CASE job'[r] = Row("FAILED", lease'.fence) /\ UnderFence(lease'.fence)[r].state = "UNKNOWN"
    <3>1. job[r].state \notin Final /\ job[r].fence <= lease.fence /\ job[r].fence \in 0 .. MaxFence
      BY <1>1, <2>2, NewFenceKeeps DEF Guarded, FencesBehind, Typed, TypeOK, Jobs
    <3>2. job'[r].fence = lease'.fence /\ job'[r].inFlight = FALSE
      BY <2>2 DEF Row
    <3>3. QED
      BY <1>1, <3>1, <3>2
  <2>3. QED
    BY <1>2, <2>1, <2>2
<1>4. StillOpen'
  BY <1>1, EgressAssumption DEF StillOpen, Current, Working
<1>5. QED
  BY <1>3, <1>4 DEF Marked, FencesBehind, FinalKept, FenceKept

\* A fenced transaction that writes one open job keeps it too.
LEMMA WriteOpen ==
    ASSUME Typed, Guarded, NEW i \in Instances, Holds(i), NEW r \in Requests, NEW new \in Jobs,
           job[r].state \notin Final, new.fence = fence[i], new.inFlight => new.state = "PENDING",
           job' = [job EXCEPT ![r] = new], lease' = lease
    PROVE  /\ Marked' /\ FencesBehind' /\ FinalKept /\ FenceKept
           /\ job'[r] = new
           /\ \A q \in Requests \ {r} : job'[q] = job[q]
           /\ \A j \in Instances \ {i} : ~Current(j)'
<1>1. job'[r] = new /\ \A q \in Requests \ {r} : job'[q] = job[q]
  BY DEF Typed, TypeOK
<1>2. fence[i] = lease.fence /\ lease.holder = i /\ lease.fence \in 0 .. MaxFence
  BY DEF Holds, Typed, TypeOK
<1>3. \A q \in Requests : job[q].fence <= lease.fence /\ job[q].fence \in 0 .. MaxFence
  BY DEF Guarded, FencesBehind, Typed, TypeOK, Jobs
<1>4. \A j \in Instances \ {i} : ~Current(j)'
  BY <1>2 DEF Current
<1>5. QED
  BY <1>1, <1>2, <1>3, <1>4 DEF Guarded, Marked, FencesBehind, FinalKept, FenceKept

\* The row that _set writes is one.
LEMMA SetJobWrites ==
    ASSUME Typed, Guarded, NEW i \in Instances, Holds(i), NEW r \in Requests,
           NEW state \in JobStates, job[r].state \notin Final, SetJob(i, r, state), lease' = lease
    PROVE  /\ Marked' /\ FencesBehind' /\ FinalKept /\ FenceKept
           /\ \A q \in Requests \ {r} : job'[q] = job[q]
           /\ job'[r].state = state
           /\ \A j \in Instances \ {i} : ~Current(j)'
<1> DEFINE row == Row(state, fence[i])
<1>1. row \in Jobs /\ row.fence = fence[i] /\ ~row.inFlight /\ row.state = state
  BY DEF Row, Jobs, Typed, TypeOK
<1>2. job' = [job EXCEPT ![r] = row]
  BY DEF SetJob
<1> HIDE DEF row
<1>3. QED
  BY <1>1, <1>2, WriteOpen

\* A step that leaves the store keeps all but what it says of the processes.
LEMMA StoreAlone ==
    ASSUME Typed, Guarded, UNCHANGED storeVars
    PROVE  /\ Marked' /\ FencesBehind' /\ FinalKept /\ FenceKept
<1>1. \A r \in Requests : job[r].fence \in 0 .. MaxFence
  BY DEF Typed, TypeOK, Jobs
<1>2. QED
  BY <1>1 DEF storeVars, Guarded, Marked, FencesBehind, FinalKept, FenceKept


\* A call that returns, and a send that goes back to its loop, leave the rest of the listing.
LEMMA ReturnKeeps ==
    ASSUME Typed, Unlisted, NEW i \in Instances, EndSend(i) \/ Return(i)
    PROVE  /\ Unlisted'
           /\ \A j \in Instances : todo'[j] \subseteq todo[j]
           /\ pc'[i] \notin Working
           /\ \A j \in Instances \ {i} : pc'[j] = pc[j] /\ subject'[j] = subject[j]
BY DEF EndSend, Return, Goto, Unlisted, Working, Typed, TypeOK

\* Every step keeps the invariant, the final states and the order of the fences.
LEMMA GuardedStep == Typed /\ Guarded /\ [Next]_vars => Guarded' /\ FinalKept /\ FenceKept
<1>. SUFFICES ASSUME Typed, Guarded, [Next]_vars PROVE Guarded' /\ FinalKept /\ FenceKept
  OBVIOUS
<1>1. ASSUME NEW i \in Instances, Start(i) PROVE Guarded' /\ FinalKept /\ FenceKept
  <2>1. lease' = [holder |-> i, fence |-> lease.fence + 1, expired |-> FALSE] /\ Spare
    BY <1>1 DEF Start, Acquire
  <2>2. pc'[i] = "idle" /\ todo' = todo /\ todo[i] = {} /\ job' = UnderFence(lease'.fence)
    BY <1>1 DEF Start, Goto, Guarded, Unlisted, Typed, TypeOK
  <2>3. Marked' /\ StillOpen' /\ FencesBehind' /\ FinalKept /\ FenceKept
    BY <2>1, <2>2, TakeOver
  <2>4. Unlisted'
    BY <1>1, <2>2 DEF Start, Goto, Guarded, Unlisted, Working, Typed, TypeOK
  <2>5. QED
    BY <2>3, <2>4 DEF Guarded
<1>2. ASSUME NEW i \in Instances, Reacquire(i) PROVE Guarded' /\ FinalKept /\ FenceKept
  <2>1. lease' = [holder |-> i, fence |-> lease.fence + 1, expired |-> FALSE] /\ Spare
    BY <1>2 DEF Reacquire, Acquire
  <2>2. pc'[i] = "idle" /\ todo' = todo /\ todo[i] = {} /\ job' = UnderFence(lease'.fence)
    BY <1>2 DEF Reacquire, Goto, Guarded, Unlisted, Typed, TypeOK
  <2>3. Marked' /\ StillOpen' /\ FencesBehind' /\ FinalKept /\ FenceKept
    BY <2>1, <2>2, TakeOver
  <2>4. Unlisted'
    BY <1>2, <2>2 DEF Reacquire, Goto, Guarded, Unlisted, Working, Typed, TypeOK
  <2>5. QED
    BY <2>3, <2>4 DEF Guarded
<1>3. ASSUME NEW i \in Instances, Overtaken(i) PROVE Guarded' /\ FinalKept /\ FenceKept
  <2>1. Marked' /\ FencesBehind' /\ FinalKept /\ FenceKept
    BY <1>3, StoreAlone DEF Overtaken
  <2>2. Unlisted' /\ StillOpen'
    BY <1>3 DEF Overtaken, Goto, storeVars, Guarded, Unlisted, StillOpen, Current, Working, Typed,
       TypeOK
  <2>3. QED
    BY <2>1, <2>2 DEF Guarded
<1>4. ASSUME NEW i \in Instances, Close(i) PROVE Guarded' /\ FinalKept /\ FenceKept
  <2>1. lease'.holder = lease.holder /\ lease'.fence = lease.fence /\ job' = job
    BY <1>4 DEF Close, Typed, TypeOK
  <2>2. Marked' /\ FencesBehind' /\ FinalKept /\ FenceKept
    <3>1. \A r \in Requests : job[r].fence \in 0 .. MaxFence
      BY DEF Typed, TypeOK, Jobs
    <3>2. QED
      BY <2>1, <3>1 DEF Guarded, Marked, FencesBehind, FinalKept, FenceKept
  <2>3. Unlisted' /\ StillOpen'
    BY <1>4, <2>1 DEF Close, Goto, Guarded, Unlisted, StillOpen, Current, Working, Typed, TypeOK
  <2>4. QED
    BY <2>2, <2>3 DEF Guarded
<1>5. ASSUME NEW i \in Instances, Crash(i) PROVE Guarded' /\ FinalKept /\ FenceKept
  <2>1. Marked' /\ FencesBehind' /\ FinalKept /\ FenceKept
    BY <1>5, StoreAlone DEF Crash
  <2>2. Unlisted' /\ StillOpen'
    BY <1>5 DEF Crash, storeVars, Guarded, Unlisted, StillOpen, Current, Working, Typed, TypeOK
  <2>3. QED
    BY <2>1, <2>2 DEF Guarded
<1>6. ASSUME NEW i \in Instances, Export(i) PROVE Guarded' /\ FinalKept /\ FenceKept
  <2>1. Marked' /\ FencesBehind' /\ FinalKept /\ FenceKept
    BY <1>6, StoreAlone DEF Export
  <2>2. Unlisted' /\ StillOpen'
    BY <1>6 DEF Export, Goto, Final, storeVars, Guarded, Unlisted, StillOpen, Current, Working,
       Typed, TypeOK
  <2>3. QED
    BY <2>1, <2>2 DEF Guarded
<1>7. ASSUME NEW i \in Instances, Retry(i) PROVE Guarded' /\ FinalKept /\ FenceKept
  <2>1. Marked' /\ FencesBehind' /\ FinalKept /\ FenceKept
    BY <1>7, StoreAlone DEF Retry
  <2>2. Unlisted' /\ StillOpen'
    BY <1>7 DEF Retry, Goto, storeVars, Guarded, Unlisted, StillOpen, Current, Working, Typed,
       TypeOK
  <2>3. QED
    BY <2>1, <2>2 DEF Guarded
<1>8. ASSUME NEW i \in Instances, Reconcile(i) PROVE Guarded' /\ FinalKept /\ FenceKept
  <2>1. Marked' /\ FencesBehind' /\ FinalKept /\ FenceKept
    BY <1>8, StoreAlone DEF Reconcile
  <2>2. Unlisted' /\ StillOpen'
    BY <1>8 DEF Reconcile, Goto, InState, Final, storeVars, Guarded, Unlisted, StillOpen, Current,
       Working, Typed, TypeOK
  <2>3. QED
    BY <2>1, <2>2 DEF Guarded
<1>9. ASSUME NEW i \in Instances, Revalidate(i) PROVE Guarded' /\ FinalKept /\ FenceKept
  <2>1. Marked' /\ FencesBehind' /\ FinalKept /\ FenceKept
    BY <1>9, StoreAlone DEF Revalidate
  <2>2. Unlisted' /\ StillOpen'
    BY <1>9 DEF Revalidate, Goto, InState, Final, storeVars, Guarded, Unlisted, StillOpen,
       Current, Working, Typed, TypeOK
  <2>3. QED
    BY <2>1, <2>2 DEF Guarded
<1>10. ASSUME NEW i \in Instances, Queue(i) PROVE Guarded' /\ FinalKept /\ FenceKept
  <2>1. subject[i] \in Requests \ todo[i] /\ Holds(i) /\ Current(i) /\ lease' = lease /\ fence' = fence
    BY <1>10 DEF Queue, Holds, Current, Guarded, Unlisted, Typed, Busy, Working
  <2>2. job[subject[i]].state \notin Final
    BY <1>10, <2>1 DEF Queue, Guarded, StillOpen, Working, Final
  <2>3. SetJob(i, subject[i], "PENDING") /\ "PENDING" \in JobStates
    BY <1>10 DEF Queue, JobStates, Typed, TypeOK
  <2>4. /\ Marked' /\ FencesBehind' /\ FinalKept /\ FenceKept
        /\ \A q \in Requests \ {subject[i]} : job'[q] = job[q]
        /\ job'[subject[i]].state = "PENDING"
        /\ \A j \in Instances \ {i} : ~Current(j)'
    BY <2>1, <2>2, <2>3, SetJobWrites
  <2>5. Unlisted' /\ StillOpen'
    BY <1>10, <2>1, <2>4 DEF Queue, Goto, Final, Guarded, Unlisted, StillOpen, Current, Working,
       Typed, TypeOK
  <2>6. QED
    BY <2>4, <2>5 DEF Guarded
<1>11. ASSUME NEW i \in Instances, Deny(i) PROVE Guarded' /\ FinalKept /\ FenceKept
  <2>1. Unlisted' /\ todo'[i] = {} /\ pc'[i] = "idle" /\ lease' = lease /\ fence' = fence
    BY <1>11, ReturnKeeps DEF Deny, Return, Guarded, Typed, TypeOK
  <2>2. \A j \in Instances \ {i} : pc'[j] = pc[j] /\ subject'[j] = subject[j] /\ todo'[j] = todo[j]
    BY <1>11 DEF Deny, Return, Typed, TypeOK
  <2>3. CASE Holds(i)
    <3>1. subject[i] \in Requests /\ Current(i)
      BY <1>11, <2>3 DEF Deny, Holds, Current, Typed, Busy, Working
    <3>2. job[subject[i]].state \notin Final
      BY <1>11, <3>1 DEF Deny, Guarded, StillOpen, Working
    <3>3. /\ Marked' /\ FencesBehind' /\ FinalKept /\ FenceKept
          /\ \A j \in Instances \ {i} : ~Current(j)'
      BY <1>11, <2>1, <2>3, <3>1, <3>2, SetJobWrites DEF Deny, JobStates
    <3>4. QED
      BY <2>1, <3>3 DEF Guarded, StillOpen, Working
  <2>4. CASE ~Holds(i)
    <3>1. UNCHANGED storeVars
      BY <1>11, <2>4 DEF Deny, storeVars
    <3>2. Marked' /\ FencesBehind' /\ FinalKept /\ FenceKept
      BY <3>1, StoreAlone
    <3>3. StillOpen'
      BY <2>1, <2>2, <3>1 DEF storeVars, Guarded, StillOpen, Current, Working
    <3>4. QED
      BY <2>1, <3>2, <3>3 DEF Guarded
  <2>5. QED
    BY <2>3, <2>4
<1>12. ASSUME NEW i \in Instances, SendNothing(i) PROVE Guarded' /\ FinalKept /\ FenceKept
  <2>1. Marked' /\ FencesBehind' /\ FinalKept /\ FenceKept
    BY <1>12, StoreAlone DEF SendNothing
  <2>2. EndSend(i) \/ Return(i)
    BY <1>12 DEF SendNothing
  <2>3. Unlisted' /\ StillOpen'
    BY <1>12, <2>2, ReturnKeeps DEF SendNothing, storeVars, Guarded, StillOpen, Current
  <2>4. QED
    BY <2>1, <2>3 DEF Guarded
<1>13. ASSUME NEW i \in Instances, SendExpired(i) PROVE Guarded' /\ FinalKept /\ FenceKept
  <2>1. subject[i] \in Requests \ todo[i] /\ Holds(i) /\ Current(i) /\ lease' = lease /\ fence' = fence
    BY <1>13 DEF SendExpired, Holds, Current, Guarded, Unlisted, Typed, Busy, Working
  <2>2. job[subject[i]].state \notin Final
    BY <1>13, <2>1 DEF SendExpired, Guarded, StillOpen, Working, Final
  <2>3. SetJob(i, subject[i], "EXPIRED") /\ "EXPIRED" \in JobStates
    BY <1>13 DEF SendExpired, JobStates, Typed, TypeOK
  <2>4. /\ Marked' /\ FencesBehind' /\ FinalKept /\ FenceKept
        /\ \A q \in Requests \ {subject[i]} : job'[q] = job[q]
        /\ job'[subject[i]].state = "EXPIRED"
        /\ \A j \in Instances \ {i} : ~Current(j)'
    BY <2>1, <2>2, <2>3, SetJobWrites
  <2>5. Unlisted' /\ StillOpen'
    <3>1. EndSend(i) /\ todo[i] \subseteq Requests
      BY <1>13 DEF SendExpired, Typed, TypeOK
    <3>2. Unlisted' /\ todo'[i] \subseteq Requests \ {subject[i]} /\ todo'[i] \subseteq todo[i] /\ pc'[i] \notin Working
      BY <2>1, <3>1, ReturnKeeps DEF Guarded
    <3>3. QED
      BY <2>1, <2>4, <3>2 DEF Guarded, StillOpen, Current
  <2>6. QED
    BY <2>4, <2>5 DEF Guarded
<1>14. ASSUME NEW i \in Instances, MarkInFlight(i) PROVE Guarded' /\ FinalKept /\ FenceKept
  <2>. DEFINE old == job[subject[i]]
              new == [[old EXCEPT !.inFlight = TRUE] EXCEPT !.fence = fence[i]]
  <2>1. /\ subject[i] \in Requests \ todo[i] /\ Holds(i) /\ lease' = lease /\ fence' = fence
        /\ old.state = "PENDING" /\ old \in Jobs /\ fence[i] \in 0 .. MaxFence
    BY <1>14 DEF MarkInFlight, Guarded, Unlisted, Typed, TypeOK, Busy, Working
  <2>2. new \in Jobs /\ new.fence = fence[i] /\ new.state = "PENDING"
    BY <2>1 DEF Jobs
  <2>3. job' = [job EXCEPT ![subject[i]] = new]
    BY <1>14, <2>1 DEF MarkInFlight, Typed, TypeOK
  <2>4. /\ Marked' /\ FencesBehind' /\ FinalKept /\ FenceKept
        /\ job'[subject[i]] = new
        /\ \A q \in Requests \ {subject[i]} : job'[q] = job[q]
        /\ \A j \in Instances \ {i} : ~Current(j)'
    <3>. HIDE DEF new
    <3>1. old.state \notin Final
      BY <2>1 DEF Final
    <3>2. QED
      BY <2>1, <2>2, <2>3, <3>1, WriteOpen
  <2>5. job'[subject[i]].state = "PENDING" /\ Current(i)
    BY <2>1, <2>2, <2>4 DEF Holds, Current
  <2>. HIDE DEF new, old
  <2>6. Unlisted' /\ StillOpen'
    BY <1>14, <2>1, <2>4, <2>5 DEF MarkInFlight, Goto, Final, Guarded, Unlisted, StillOpen,
       Current, Working, Typed, TypeOK
  <2>7. QED
    BY <2>4, <2>6 DEF Guarded
<1>15. ASSUME NEW i \in Instances, PostAnswered(i) PROVE Guarded' /\ FinalKept /\ FenceKept
  <2>1. Marked' /\ FencesBehind' /\ FinalKept /\ FenceKept
    BY <1>15, StoreAlone DEF PostAnswered, Answered
  <2>2. Unlisted' /\ StillOpen'
    BY <1>15 DEF PostAnswered, Answered, Goto, storeVars, Guarded, Unlisted, StillOpen, Current,
       Working, Typed, TypeOK
  <2>3. QED
    BY <2>1, <2>2 DEF Guarded
<1>16. ASSUME NEW i \in Instances, PostExpires(i) PROVE Guarded' /\ FinalKept /\ FenceKept
  <2>1. Marked' /\ FencesBehind' /\ FinalKept /\ FenceKept
    BY <1>16, StoreAlone DEF PostExpires, Answered
  <2>2. Unlisted' /\ StillOpen'
    BY <1>16 DEF PostExpires, Answered, Goto, storeVars, Guarded, Unlisted, StillOpen, Current,
       Working, Typed, TypeOK
  <2>3. QED
    BY <2>1, <2>2 DEF Guarded
<1>17. ASSUME NEW i \in Instances, PostUnavailable(i) PROVE Guarded' /\ FinalKept /\ FenceKept
  <2>1. Marked' /\ FencesBehind' /\ FinalKept /\ FenceKept
    BY <1>17, StoreAlone DEF PostUnavailable, Answered
  <2>2. Unlisted' /\ StillOpen'
    BY <1>17 DEF PostUnavailable, Answered, Goto, storeVars, Guarded, Unlisted, StillOpen,
       Current, Working, Typed, TypeOK
  <2>3. QED
    BY <2>1, <2>2 DEF Guarded
<1>18. ASSUME NEW i \in Instances, PostRefused(i) PROVE Guarded' /\ FinalKept /\ FenceKept
  <2>1. Marked' /\ FencesBehind' /\ FinalKept /\ FenceKept
    BY <1>18, StoreAlone DEF PostRefused, Answered
  <2>2. Unlisted' /\ StillOpen'
    BY <1>18 DEF PostRefused, Answered, Goto, storeVars, Guarded, Unlisted, StillOpen, Current,
       Working, Typed, TypeOK
  <2>3. QED
    BY <2>1, <2>2 DEF Guarded
<1>19. ASSUME NEW i \in Instances, PostUnanswered(i) PROVE Guarded' /\ FinalKept /\ FenceKept
  <2>1. Marked' /\ FencesBehind' /\ FinalKept /\ FenceKept
    BY <1>19, StoreAlone DEF PostUnanswered, Answered
  <2>2. Unlisted' /\ StillOpen'
    BY <1>19 DEF PostUnanswered, Answered, Goto, storeVars, Guarded, Unlisted, StillOpen, Current,
       Working, Typed, TypeOK
  <2>3. QED
    BY <2>1, <2>2 DEF Guarded
<1>20. ASSUME NEW i \in Instances, Record(i) PROVE Guarded' /\ FinalKept /\ FenceKept
  <2>1. subject[i] \in Requests \ todo[i] /\ Holds(i) /\ Current(i) /\ lease' = lease /\ fence' = fence
    BY <1>20 DEF Record, Holds, Current, Guarded, Unlisted, Typed, Busy, Working
  <2>2. job[subject[i]].state \notin Final
    BY <1>20, <2>1 DEF Record, Guarded, StillOpen, Working, Final
  <2>3. SetJob(i, subject[i], outcome[i]) /\ outcome[i] \in JobStates
    BY <1>20 DEF Record, JobStates, Typed, TypeOK
  <2>4. /\ Marked' /\ FencesBehind' /\ FinalKept /\ FenceKept
        /\ \A q \in Requests \ {subject[i]} : job'[q] = job[q]
        /\ job'[subject[i]].state = outcome[i]
        /\ \A j \in Instances \ {i} : ~Current(j)'
    BY <2>1, <2>2, <2>3, SetJobWrites
  <2>5. Unlisted' /\ StillOpen'
    <3>1. EndSend(i) /\ todo[i] \subseteq Requests
      BY <1>20 DEF Record, Typed, TypeOK
    <3>2. Unlisted' /\ todo'[i] \subseteq Requests \ {subject[i]} /\ todo'[i] \subseteq todo[i] /\ pc'[i] \notin Working
      BY <2>1, <3>1, ReturnKeeps DEF Guarded
    <3>3. QED
      BY <2>1, <2>4, <3>2 DEF Guarded, StillOpen, Current
  <2>6. QED
    BY <2>4, <2>5 DEF Guarded
<1>21. ASSUME NEW i \in Instances, RecordFails(i) PROVE Guarded' /\ FinalKept /\ FenceKept
  <2>1. Marked' /\ FencesBehind' /\ FinalKept /\ FenceKept
    BY <1>21, StoreAlone DEF RecordFails
  <2>2. EndSend(i) \/ Return(i)
    BY <1>21 DEF RecordFails
  <2>3. Unlisted' /\ StillOpen'
    BY <1>21, <2>2, ReturnKeeps DEF RecordFails, storeVars, Guarded, StillOpen, Current
  <2>4. QED
    BY <2>1, <2>3 DEF Guarded
<1>22. ASSUME NEW i \in Instances, AskAdopts(i) PROVE Guarded' /\ FinalKept /\ FenceKept
  <2>1. Marked' /\ FencesBehind' /\ FinalKept /\ FenceKept
    BY <1>22, StoreAlone DEF AskAdopts
  <2>2. Unlisted' /\ StillOpen'
    BY <1>22 DEF AskAdopts, Goto, storeVars, Guarded, Unlisted, StillOpen, Current, Working,
       Typed, TypeOK
  <2>3. QED
    BY <2>1, <2>2 DEF Guarded
<1>23. ASSUME NEW i \in Instances, AskLeaves(i) PROVE Guarded' /\ FinalKept /\ FenceKept
  <2>1. Marked' /\ FencesBehind' /\ FinalKept /\ FenceKept
    BY <1>23, StoreAlone DEF AskLeaves
  <2>2. Unlisted' /\ StillOpen'
    BY <1>23 DEF AskLeaves, storeVars, Guarded, Unlisted, StillOpen, Current, Working, Typed, TypeOK
  <2>3. QED
    BY <2>1, <2>2 DEF Guarded
<1>24. ASSUME NEW i \in Instances, Adopt(i) PROVE Guarded' /\ FinalKept /\ FenceKept
  <2>1. subject[i] \in Requests \ todo[i] /\ Holds(i) /\ Current(i) /\ lease' = lease /\ fence' = fence
    BY <1>24 DEF Adopt, Holds, Current, Guarded, Unlisted, Typed, Busy, Working
  <2>2. job[subject[i]].state \notin Final
    BY <1>24, <2>1 DEF Adopt, Guarded, StillOpen, Working, Final
  <2>3. SetJob(i, subject[i], outcome[i]) /\ outcome[i] \in JobStates
    BY <1>24 DEF Adopt, JobStates, Typed, TypeOK
  <2>4. /\ Marked' /\ FencesBehind' /\ FinalKept /\ FenceKept
        /\ \A q \in Requests \ {subject[i]} : job'[q] = job[q]
        /\ job'[subject[i]].state = outcome[i]
        /\ \A j \in Instances \ {i} : ~Current(j)'
    BY <2>1, <2>2, <2>3, SetJobWrites
  <2>5. Unlisted' /\ StillOpen'
    BY <1>24, <2>1, <2>4 DEF Adopt, Goto, Guarded, Unlisted, StillOpen, Current, Working, Typed,
       TypeOK
  <2>6. QED
    BY <2>4, <2>5 DEF Guarded
<1>25. ASSUME NEW i \in Instances, NextListing(i) PROVE Guarded' /\ FinalKept /\ FenceKept
  <2>1. Marked' /\ FencesBehind' /\ FinalKept /\ FenceKept
    BY <1>25, StoreAlone DEF NextListing
  <2>2. Unlisted' /\ StillOpen'
    BY <1>25 DEF NextListing, Return, NextOpen, InState, Open, Final, storeVars, Guarded,
       Unlisted, StillOpen, Current, Working, Typed, TypeOK
  <2>3. QED
    BY <2>1, <2>2 DEF Guarded
<1>26. ASSUME NEW i \in Instances, Refuse(i) PROVE Guarded' /\ FinalKept /\ FenceKept
  <2>1. PICK r \in todo[i] : /\ SetJob(i, r, IF age[r] # "fresh" THEN "EXPIRED" ELSE "DENIED")
                             /\ todo' = [todo EXCEPT ![i] = @ \ {r}]
    BY <1>26 DEF Refuse
  <2>2. r \in Requests /\ Holds(i) /\ Current(i) /\ lease' = lease /\ fence' = fence
    BY <1>26 DEF Refuse, Holds, Current, Typed, TypeOK
  <2>3. job[r].state \notin Final
    BY <2>2 DEF Guarded, StillOpen
  <2>4. PICK state \in JobStates : SetJob(i, r, state)
    BY <2>1 DEF JobStates
  <2>5. /\ Marked' /\ FencesBehind' /\ FinalKept /\ FenceKept
        /\ \A q \in Requests \ {r} : job'[q] = job[q]
        /\ \A j \in Instances \ {i} : ~Current(j)'
    BY <2>2, <2>3, <2>4, SetJobWrites
  <2>6. Unlisted' /\ StillOpen'
    BY <1>26, <2>1, <2>2, <2>5 DEF Refuse, Guarded, Unlisted, StillOpen, Current, Working, Typed,
       TypeOK
  <2>7. QED
    BY <2>5, <2>6 DEF Guarded
<1>27. ASSUME NEW i \in Instances, Requeue(i) PROVE Guarded' /\ FinalKept /\ FenceKept
  <2>1. PICK r \in todo[i] :
            /\ job' = [job EXCEPT ![r].state = "PENDING", ![r].fence = fence[i]]
            /\ todo' = [todo EXCEPT ![i] = @ \ {r}]
            /\ subject' = [subject EXCEPT ![i] = r]
    BY <1>27 DEF Requeue
  <2>. DEFINE old == job[r]
              new == [[old EXCEPT !.state = "PENDING"] EXCEPT !.fence = fence[i]]
  <2>2. /\ r \in Requests /\ Holds(i) /\ Current(i) /\ lease' = lease /\ fence' = fence
        /\ old \in Jobs /\ fence[i] \in 0 .. MaxFence
    BY <1>27 DEF Requeue, Holds, Current, Typed, TypeOK
  <2>3. new \in Jobs /\ new.fence = fence[i] /\ new.state = "PENDING"
    BY <2>2 DEF Jobs, JobStates
  <2>4. job' = [job EXCEPT ![r] = new]
    BY <2>1, <2>2 DEF Typed, TypeOK
  <2>5. old.state \notin Final
    BY <2>2 DEF Guarded, StillOpen
  <2>6. /\ Marked' /\ FencesBehind' /\ FinalKept /\ FenceKept
        /\ \A q \in Requests \ {r} : job'[q] = job[q]
        /\ \A j \in Instances \ {i} : ~Current(j)'
    <3>. HIDE DEF new
    <3>1. QED
      BY <2>2, <2>3, <2>4, <2>5, WriteOpen
  <2>. HIDE DEF new, old
  <2>7. Unlisted' /\ StillOpen'
    BY <1>27, <2>1, <2>2, <2>6 DEF Requeue, Goto, Guarded, Unlisted, StillOpen, Current, Working,
       Typed, TypeOK
  <2>8. QED
    BY <2>6, <2>7 DEF Guarded
<1>28. ASSUME NEW i \in Instances, EndRevalidate(i) PROVE Guarded' /\ FinalKept /\ FenceKept
  <2>1. Marked' /\ FencesBehind' /\ FinalKept /\ FenceKept
    BY <1>28, StoreAlone DEF EndRevalidate
  <2>2. EndSend(i) \/ Return(i)
    BY <1>28 DEF EndRevalidate
  <2>3. Unlisted' /\ StillOpen'
    BY <1>28, <2>2, ReturnKeeps DEF EndRevalidate, storeVars, Guarded, StillOpen, Current
  <2>4. QED
    BY <2>1, <2>3 DEF Guarded
<1>29. CASE LeaseExpires
  <2>1. lease'.holder = lease.holder /\ lease'.fence = lease.fence /\ job' = job
    BY <1>29 DEF LeaseExpires, Typed, TypeOK
  <2>2. \A r \in Requests : job[r].fence \in 0 .. MaxFence
    BY DEF Typed, TypeOK, Jobs
  <2>3. QED
    BY <1>29, <2>1, <2>2 DEF LeaseExpires, processVars, FinalKept, FenceKept, Guarded, Marked,
       Unlisted, StillOpen, Current, FencesBehind
<1>30. CASE ResolveSend
  <2>1. lease' = [holder |-> Operator, fence |-> lease.fence + 1, expired |-> TRUE] /\ Spare
    BY <1>30 DEF ResolveSend
  <2>2. Marked' /\ StillOpen' /\ FencesBehind' /\ FinalKept /\ FenceKept
    BY <1>30, <2>1, TakeOver, EgressAssumption DEF ResolveSend
  <2>3. Unlisted'
    BY <1>30 DEF ResolveSend, processVars, Guarded, Unlisted
  <2>4. QED
    BY <2>2, <2>3 DEF Guarded
<1>31. CASE OperatorCommand
  <2>1. lease' = [holder |-> Operator, fence |-> lease.fence + 1, expired |-> TRUE] /\ Spare
    BY <1>31 DEF OperatorCommand
  <2>2. Marked' /\ StillOpen' /\ FencesBehind' /\ FinalKept /\ FenceKept
    BY <1>31, <2>1, TakeOver, EgressAssumption DEF OperatorCommand
  <2>3. Unlisted'
    BY <1>31 DEF OperatorCommand, processVars, Guarded, Unlisted
  <2>4. QED
    BY <2>2, <2>3 DEF Guarded
<1>32. CASE TimePasses \/ CallArrives \/ GatewayEncodes \/ GatewaySends \/ UNCHANGED vars
  <2>1. UNCHANGED storeVars /\ UNCHANGED processVars
    BY <1>32 DEF TimePasses, CallArrives, GatewayEncodes, GatewaySends, vars
  <2>2. Marked' /\ FencesBehind' /\ FinalKept /\ FenceKept
    BY <2>1, StoreAlone
  <2>3. QED
    BY <2>1, <2>2 DEF storeVars, processVars, Guarded, Unlisted, StillOpen, Current
<1>33. QED
  BY <1>1, <1>2, <1>3, <1>4, <1>5, <1>6, <1>7, <1>8, <1>9, <1>10, <1>11, <1>12, <1>13, <1>14,
     <1>15, <1>16, <1>17, <1>18, <1>19, <1>20, <1>21, <1>22, <1>23, <1>24, <1>25, <1>26, <1>27,
     <1>28, <1>29, <1>30, <1>31, <1>32 DEF Next, Life, Call, Work

LEMMA GuardedHolds == Spec => []Guarded
<1>1. Init => Guarded
  <2>1. ASSUME Init PROVE Guarded
    BY <2>1, EgressAssumption DEF Init, Guarded, Marked, Unlisted, StillOpen, FencesBehind, Current,
       Working, Row
  <2>2. QED
    BY <2>1
<1>2. QED
  BY <1>1, GuardedStep, TypedHolds, PTL DEF Spec

\* A final state is final: no late answer, overtaken process, new fence, reconcile, revalidate or
\* operator moves a job out of it (FINAL_STATES).
THEOREM FinalIsFinal == Spec => FinalStays
<1>1. FinalKept => \A r \in Requests : job[r].state \in Final => job'[r] = job[r]
  BY DEF FinalKept
<1>2. QED
  BY <1>1, GuardedStep, GuardedHolds, TypedHolds, PTL DEF Spec, FinalStays

\* A job is written under the newest fence only (Lease.check, SQL_JOB_STATE).
THEOREM JobFenceOnlyAdvances == Spec => JobFenceAdvances
<1>1. FenceKept => \A r \in Requests : /\ job'[r].fence >= job[r].fence
                                       /\ job'[r] # job[r] => job'[r].fence = lease'.fence
  BY DEF FenceKept
<1>2. QED
  BY <1>1, GuardedStep, GuardedHolds, TypedHolds, PTL DEF Spec, JobFenceAdvances

-----------------------------------------------------------------------------
\* The queue.  A job never loses its row again, so that a process which writes the outcome of a
\* request, and a loop that has listed one, move a job that was counted when it was queued.
OfAJob ==
    \A i \in Instances :
       /\ pc[i] \in {"send", "posting", "record", "adopt"} => job[subject[i]].state # "none"
       /\ pc[i] \in {"record", "adopt"} => outcome[i] # "none"
       /\ \A r \in todo[i] : job[r].state # "none"

InQueue == {r \in Requests : job[r].state \in Queued}

Bounded == IsFiniteSet(InQueue) /\ Cardinality(InQueue) <= MaxExports

\* What a step does to the rows: none goes, and at most one request enters the queue, when there
\* is room in it.
RowsStay == \A r \in Requests : job[r].state # "none" => job'[r].state # "none"

EntersOne ==
    \/ InQueue' \subseteq InQueue
    \/ ~QueueFull /\ \E r \in Requests : InQueue' \subseteq InQueue \cup {r}

\* A row that is written is one, and one that is queued then was queued, or found room.
LEMMA RowWritten ==
    ASSUME Typed, NEW r \in Requests, NEW new, job' = [job EXCEPT ![r] = new],
           new.state # "none", new.state \in Queued => job[r].state \in Queued \/ ~QueueFull
    PROVE  RowsStay /\ EntersOne
<1>1. job'[r] = new /\ \A q \in Requests \ {r} : job'[q] = job[q]
  BY DEF Typed, TypeOK
<1>2. RowsStay
  BY <1>1 DEF RowsStay
<1>3. InQueue' \subseteq InQueue \cup {r}
  BY <1>1 DEF InQueue
<1>4. job[r].state \in Queued => r \in InQueue
  BY DEF InQueue
<1>5. new.state \notin Queued => r \notin InQueue'
  BY <1>1 DEF InQueue
<1>6. EntersOne
  BY <1>3, <1>4, <1>5 DEF EntersOne
<1>7. QED
  BY <1>2, <1>6

\* The same for _set.
LEMMA StateWritten ==
    ASSUME Typed, NEW i \in Instances, NEW r \in Requests, NEW state, SetJob(i, r, state),
           state # "none", state \in Queued => job[r].state \in Queued \/ ~QueueFull
    PROVE  RowsStay /\ EntersOne
<1>1. job' = [job EXCEPT ![r] = Row(state, fence[i])] /\ Row(state, fence[i]).state = state
  BY DEF SetJob, Row
<1>2. QED
  BY <1>1, RowWritten

\* A new fence brings no job into the queue, and an operator who gives one up takes it out.
LEMMA NewFenceCounts ==
    ASSUME Typed, Guarded, NEW f, job' = UnderFence(f) \/ \E r \in Requests :
              /\ UnderFence(f)[r].state = "UNKNOWN"
              /\ job' = [UnderFence(f) EXCEPT ![r] = Row("FAILED", f)]
    PROVE  RowsStay /\ EntersOne
<1>1. ASSUME NEW r \in Requests
      PROVE  /\ UnderFence(f)[r].state \in Queued => job[r].state \in Queued
             /\ job[r].state # "none" => UnderFence(f)[r].state # "none"
  <2>1. job[r].inFlight => job[r].state = "PENDING"
    BY DEF Guarded, Marked
  <2>2. /\ UnderFence(f)[r] \in {job[r], Row("UNKNOWN", f), Row("REVALIDATE", f)}
        /\ UnderFence(f)[r] # job[r] => job[r].state \in {"PENDING", "ACCEPTED"}
    BY <2>1 DEF UnderFence
  <2>3. QED
    BY <2>2 DEF Queued, Row
<1>2. \A r \in Requests : job'[r] = UnderFence(f)[r] \/ job'[r].state = "FAILED"
  <2>1. DOMAIN UnderFence(f) = Requests
    BY DEF UnderFence
  <2>2. CASE job' = UnderFence(f)
    BY <2>2
  <2>3. CASE \E r \in Requests : /\ UnderFence(f)[r].state = "UNKNOWN"
                                 /\ job' = [UnderFence(f) EXCEPT ![r] = Row("FAILED", f)]
    BY <2>1, <2>3 DEF Row
  <2>4. QED
    BY <2>2, <2>3
<1>3. RowsStay
  BY <1>1, <1>2 DEF RowsStay
<1>4. InQueue' \subseteq InQueue
  BY <1>1, <1>2 DEF InQueue, Queued
<1>5. QED
  BY <1>3, <1>4 DEF EntersOne

\* A state is that of no job, of one in the queue, or a final one.
LEMMA StatesOfJobs ==
    ASSUME Typed, NEW r \in Requests, job[r].state # "none", job[r].state \notin Final
    PROVE  job[r].state \in Queued
BY DEF Typed, TypeOK, Jobs, JobStates, Final, Queued

\* No step takes a row away, and one job enters the queue at most, when there is room.
LEMMA RowSteps == Typed /\ Guarded /\ OfAJob /\ [Next]_vars => RowsStay /\ EntersOne
<1>. SUFFICES ASSUME Typed, Guarded, OfAJob, [Next]_vars PROVE RowsStay /\ EntersOne
  OBVIOUS
<1>1. ASSUME NEW i \in Instances, Start(i) \/ Reacquire(i) PROVE RowsStay /\ EntersOne
  BY <1>1, NewFenceCounts DEF Start, Reacquire
<1>2. CASE ResolveSend \/ OperatorCommand
  BY <1>2, NewFenceCounts DEF ResolveSend, OperatorCommand, Abandon
<1>3. CASE job' = job
  BY <1>3 DEF RowsStay, EntersOne, InQueue
<1>4. ASSUME NEW i \in Instances, Deny(i) PROVE RowsStay /\ EntersOne
  <2>1. subject[i] \in Requests /\ "DENIED" \notin Queued
    BY <1>4 DEF Deny, Typed, Busy, Working, Queued
  <2>2. SetJob(i, subject[i], "DENIED") \/ job' = job
    BY <1>4 DEF Deny
  <2>3. QED
    BY <1>3, <2>1, <2>2, StateWritten
<1>5. ASSUME NEW i \in Instances, Queue(i) PROVE RowsStay /\ EntersOne
  <2>1. subject[i] \in Requests /\ SetJob(i, subject[i], "PENDING") /\ ~QueueFull
    BY <1>5 DEF Queue, Typed, Busy, Working
  <2>2. QED
    BY <2>1, StateWritten
<1>6. ASSUME NEW i \in Instances, SendExpired(i) PROVE RowsStay /\ EntersOne
  <2>1. subject[i] \in Requests /\ SetJob(i, subject[i], "EXPIRED") /\ "EXPIRED" \notin Queued
    BY <1>6 DEF SendExpired, Typed, Busy, Working, Queued
  <2>2. QED
    BY <2>1, StateWritten
<1>7. ASSUME NEW i \in Instances, MarkInFlight(i) PROVE RowsStay /\ EntersOne
  <2>1. subject[i] \in Requests /\ job[subject[i]] \in Jobs /\ job[subject[i]].state = "PENDING"
    BY <1>7 DEF MarkInFlight, Typed, TypeOK, Busy, Working
  <2>. DEFINE new == [[job[subject[i]] EXCEPT !.inFlight = TRUE] EXCEPT !.fence = fence[i]]
  <2>2. job' = [job EXCEPT ![subject[i]] = new]
    BY <1>7, <2>1 DEF MarkInFlight, Typed, TypeOK
  <2>3. new.state = "PENDING"
    BY <2>1 DEF Jobs
  <2>. HIDE DEF new
  <2>4. QED
    BY <2>1, <2>2, <2>3, RowWritten
<1>8. ASSUME NEW i \in Instances, Record(i) \/ Adopt(i) PROVE RowsStay /\ EntersOne
  <2>1. /\ subject[i] \in Requests /\ SetJob(i, subject[i], outcome[i]) /\ Current(i)
        /\ pc[i] \in {"record", "adopt"}
    BY <1>8 DEF Record, Adopt, Typed, Busy, Working, Holds, Current
  <2>2. job[subject[i]].state \notin Final
    BY <2>1 DEF Guarded, StillOpen, Working
  <2>3. job[subject[i]].state # "none" /\ outcome[i] # "none"
    BY <2>1 DEF OfAJob
  <2>4. QED
    BY <2>1, <2>2, <2>3, StatesOfJobs, StateWritten
<1>9. ASSUME NEW i \in Instances, Refuse(i) PROVE RowsStay /\ EntersOne
  <2>1. PICK r \in todo[i] : SetJob(i, r, IF age[r] # "fresh" THEN "EXPIRED" ELSE "DENIED")
    BY <1>9 DEF Refuse
  <2>2. PICK state \in {"EXPIRED", "DENIED"} : SetJob(i, r, state)
    BY <2>1
  <2>3. r \in Requests /\ state # "none" /\ state \notin Queued
    BY <1>9 DEF Typed, TypeOK, Queued
  <2>4. QED
    BY <2>2, <2>3, StateWritten
<1>10. ASSUME NEW i \in Instances, Requeue(i) PROVE RowsStay /\ EntersOne
  <2>1. PICK r \in todo[i] : job' = [job EXCEPT ![r].state = "PENDING", ![r].fence = fence[i]]
    BY <1>10 DEF Requeue
  <2>2. r \in Requests /\ job[r] \in Jobs /\ ~QueueFull
    BY <1>10 DEF Requeue, Typed, TypeOK
  <2>. DEFINE new == [[job[r] EXCEPT !.state = "PENDING"] EXCEPT !.fence = fence[i]]
  <2>3. job' = [job EXCEPT ![r] = new]
    BY <2>1, <2>2 DEF Typed, TypeOK
  <2>4. new.state = "PENDING"
    BY <2>2 DEF Jobs
  <2>. HIDE DEF new
  <2>5. QED
    BY <2>2, <2>3, <2>4, RowWritten
<1>11. ASSUME NEW i \in Instances,
              Life(i) \/ Call(i) \/ Work(i)
       PROVE  RowsStay /\ EntersOne
  <2>1. CASE Overtaken(i) \/ Close(i) \/ Crash(i) \/ Call(i)
    <3>1. job' = job
      BY <2>1 DEF Overtaken, Close, Crash, Call, Export, Retry, Reconcile, Revalidate, storeVars
    <3>2. QED
      BY <1>3, <3>1
  <2>2. CASE \/ SendNothing(i) \/ PostAnswered(i) \/ PostExpires(i) \/ PostUnavailable(i)
             \/ PostRefused(i) \/ PostUnanswered(i) \/ RecordFails(i)
    <3>1. job' = job
      BY <2>2 DEF SendNothing, PostAnswered, PostExpires, PostUnavailable, PostRefused,
         PostUnanswered, RecordFails, Answered, storeVars
    <3>2. QED
      BY <1>3, <3>1
  <2>3. CASE AskAdopts(i) \/ AskLeaves(i) \/ NextListing(i) \/ EndRevalidate(i)
    <3>1. job' = job
      BY <2>3 DEF AskAdopts, AskLeaves, NextListing, EndRevalidate, storeVars
    <3>2. QED
      BY <1>3, <3>1
  <2>4. QED
    BY <1>1, <1>4, <1>5, <1>6, <1>7, <1>8, <1>9, <1>10, <1>11, <2>1, <2>2, <2>3 DEF Life, Work
<1>12. CASE LeaseExpires \/ TimePasses \/ CallArrives \/ GatewayEncodes \/ GatewaySends
            \/ UNCHANGED vars
  <2>1. job' = job
    BY <1>12 DEF LeaseExpires, TimePasses, CallArrives, GatewayEncodes, GatewaySends, storeVars, vars
  <2>2. QED
    BY <1>3, <2>1
<1>13. QED
  BY <1>2, <1>11, <1>12 DEF Next

\* What a process works on stays a job of the store.
LEMMA OfAJobStep == Typed /\ OfAJob /\ RowsStay /\ [Next]_vars => OfAJob'
<1>. SUFFICES ASSUME Typed, OfAJob, RowsStay, [Next]_vars PROVE OfAJob'
  OBVIOUS
<1>. DEFINE Fine(i) == /\ pc[i] \in {"send", "posting", "record", "adopt"} => job[subject[i]].state # "none"
                       /\ pc[i] \in {"record", "adopt"} => outcome[i] # "none"
                       /\ \A r \in todo[i] : job[r].state # "none"
            Alone(i) == \A j \in Instances \ {i} : /\ pc'[j] = pc[j] /\ subject'[j] = subject[j]
                                                   /\ outcome'[j] = outcome[j] /\ todo'[j] = todo[j]
<1>1. ASSUME NEW j \in Instances, pc'[j] = pc[j], subject'[j] = subject[j],
             outcome'[j] = outcome[j], todo'[j] \subseteq todo[j]
      PROVE  Fine(j)'
  <2>1. todo[j] \subseteq Requests /\ (pc[j] \in Working => subject[j] \in Requests)
    BY DEF Typed, TypeOK, Busy
  <2>2. QED
    BY <1>1, <2>1 DEF OfAJob, RowsStay, Working
<1>2. ASSUME NEW i \in Instances, Alone(i), Fine(i)' PROVE OfAJob'
  BY <1>1, <1>2 DEF OfAJob
<1>3. ASSUME UNCHANGED processVars PROVE OfAJob'
  BY <1>1, <1>3 DEF OfAJob, processVars
<1>4. \A i \in Instances : todo[i] \subseteq Requests /\ (pc[i] \in Working => subject[i] \in Requests)
  BY DEF Typed, TypeOK, Busy
<1>5. ASSUME NEW state, state # "none"
      PROVE  \A r \in InState(state) : r \in Requests /\ job[r].state # "none"
  BY <1>5 DEF InState
<1>6. ASSUME NEW i \in Instances, Return(i) PROVE OfAJob'
  <2>1. Alone(i) /\ pc'[i] = "idle" /\ todo'[i] = {}
    BY <1>6 DEF Return, Typed, TypeOK
  <2>2. QED
    BY <1>2, <2>1
<1>7. ASSUME NEW i \in Instances, EndSend(i) PROVE OfAJob'
  <2>1. CASE Return(i)
    BY <1>6, <2>1
  <2>2. CASE ~Return(i)
    <3>1. Alone(i) /\ pc'[i] = "loop" /\ todo'[i] = todo[i]
      BY <1>7, <2>2 DEF EndSend, Goto, Typed, TypeOK
    <3>2. QED
      BY <1>2, <1>4, <3>1 DEF OfAJob, RowsStay
  <2>3. QED
    BY <2>1, <2>2
<1>8. ASSUME NEW i \in Instances, NEW state, Answered(i, state), state # "none",
             pc[i] = "posting"
      PROVE  OfAJob'
  <2>1. /\ Alone(i) /\ pc'[i] = "record" /\ todo'[i] = todo[i]
        /\ subject'[i] = subject[i] /\ outcome'[i] = state
    BY <1>8 DEF Answered, Goto, Typed, TypeOK
  <2>2. subject[i] \in Requests
    BY <1>4, <1>8 DEF Working
  <2>3. QED
    BY <1>2, <1>4, <1>8, <2>1, <2>2 DEF OfAJob, RowsStay
<1> HIDE DEF Fine, Alone
<1>9. ASSUME NEW i \in Instances, Life(i) PROVE OfAJob'
  <2>1. CASE Reacquire(i)
    BY <1>2, <2>1, <1>1 DEF Reacquire, Alone
  <2>2. CASE Start(i) \/ Overtaken(i) \/ Close(i)
    <3>1. Alone(i) /\ pc'[i] \in {"idle", "down"} /\ todo'[i] = todo[i]
      BY <2>2 DEF Start, Overtaken, Close, Goto, Alone, Typed, TypeOK
    <3>2. Fine(i)'
      BY <1>4, <3>1 DEF Fine, OfAJob, RowsStay
    <3>3. QED
      BY <1>2, <3>1, <3>2
  <2>3. CASE Crash(i)
    <3>1. Alone(i) /\ pc'[i] = "down" /\ todo'[i] = {}
      BY <2>3 DEF Crash, Alone, Typed, TypeOK
    <3>2. Fine(i)'
      BY <3>1 DEF Fine
    <3>3. QED
      BY <1>2, <3>1, <3>2
  <2>4. QED
    BY <1>9, <2>1, <2>2, <2>3 DEF Life
<1>10. ASSUME NEW i \in Instances, Call(i) PROVE OfAJob'
  <2>1. CASE Export(i)
    <3>1. Alone(i) /\ pc'[i] = "checked" /\ todo'[i] = todo[i]
      BY <2>1 DEF Export, Goto, Alone, Typed, TypeOK
    <3>2. Fine(i)'
      BY <1>4, <3>1 DEF Fine, OfAJob, RowsStay
    <3>3. QED
      BY <1>2, <3>1, <3>2
  <2>2. CASE Retry(i)
    <3>1. PICK r \in Requests : job[r].state = "PENDING" /\ subject' = [subject EXCEPT ![i] = r]
      BY <2>2 DEF Retry
    <3>2. Alone(i) /\ pc'[i] = "send" /\ todo'[i] = todo[i] /\ subject'[i] = r
      BY <2>2, <3>1 DEF Retry, Goto, Alone, Typed, TypeOK
    <3>3. Fine(i)'
      BY <1>4, <3>1, <3>2 DEF Fine, OfAJob, RowsStay
    <3>4. QED
      BY <1>2, <3>2, <3>3
  <2>3. CASE Reconcile(i) \/ Revalidate(i)
    <3>1. PICK state \in {"UNKNOWN", "REVALIDATE"} : todo' = [todo EXCEPT ![i] = InState(state)]
      BY <2>3 DEF Reconcile, Revalidate
    <3>2. Alone(i) /\ pc'[i] = "loop" /\ todo'[i] = InState(state)
      BY <2>3, <3>1 DEF Reconcile, Revalidate, Goto, Alone, Typed, TypeOK
    <3>3. Fine(i)'
      BY <1>5, <3>2 DEF Fine, RowsStay
    <3>4. QED
      BY <1>2, <3>2, <3>3
  <2>4. QED
    BY <1>10, <2>1, <2>2, <2>3 DEF Call
<1>11. ASSUME NEW i \in Instances, Work(i) PROVE OfAJob'
  <2>1. CASE Queue(i)
    <3>1. /\ Alone(i) /\ pc'[i] = "send" /\ todo'[i] = todo[i] /\ subject'[i] = subject[i]
          /\ subject[i] \in Requests
      BY <1>4, <2>1 DEF Queue, Goto, Alone, Typed, TypeOK, Working
    <3>2. job'[subject[i]].state = "PENDING"
      BY <2>1, <3>1 DEF Queue, SetJob, Row, Typed, TypeOK
    <3>3. Fine(i)'
      BY <1>4, <3>1, <3>2 DEF Fine, OfAJob, RowsStay
    <3>4. QED
      BY <1>2, <3>1, <3>3
  <2>2. CASE \/ Deny(i) \/ SendNothing(i) \/ SendExpired(i) \/ Record(i) \/ RecordFails(i)
             \/ EndRevalidate(i)
    <3>1. Return(i) \/ EndSend(i)
      BY <2>2 DEF Deny, SendNothing, SendExpired, Record, RecordFails, EndRevalidate
    <3>2. QED
      BY <1>6, <1>7, <3>1
  <2>3. CASE MarkInFlight(i)
    <3>1. /\ Alone(i) /\ pc'[i] = "posting" /\ todo'[i] = todo[i] /\ subject'[i] = subject[i]
          /\ subject[i] \in Requests /\ job[subject[i]].state = "PENDING"
      BY <1>4, <2>3 DEF MarkInFlight, Goto, Alone, Typed, TypeOK, Working
    <3>2. Fine(i)'
      BY <1>4, <3>1 DEF Fine, OfAJob, RowsStay
    <3>3. QED
      BY <1>2, <3>1, <3>2
  <2>4. CASE PostAnswered(i)
    <3>1. subject[i] \in Requests /\ pc[i] = "posting"
      BY <1>4, <2>4 DEF PostAnswered, Working
    <3>2. idem'[subject[i]] = Judged(subject[i], age[subject[i]])
      BY <2>4, <3>1 DEF PostAnswered, Transmit
    <3>3. Judged(subject[i], age[subject[i]]) # "none"
      BY DEF Judged, Known
    <3>4. Answered(i, idem'[subject[i]])
      BY <2>4 DEF PostAnswered
    <3>5. QED
      BY <1>8, <3>1, <3>2, <3>3, <3>4
  <2>5. CASE PostExpires(i) \/ PostUnavailable(i) \/ PostRefused(i) \/ PostUnanswered(i)
    <3>1. PICK state \in {"EXPIRED", "PENDING", "REJECTED", "UNKNOWN"} : Answered(i, state)
      BY <2>5 DEF PostExpires, PostUnavailable, PostRefused, PostUnanswered
    <3>2. pc[i] = "posting" /\ state # "none"
      BY <2>5 DEF PostExpires, PostUnavailable, PostRefused, PostUnanswered
    <3>3. QED
      BY <1>8, <3>1, <3>2
  <2>6. CASE AskAdopts(i)
    <3>1. PICK r \in todo[i] : /\ idem[r] \notin {"none", listing[i]}
                               /\ todo' = [todo EXCEPT ![i] = @ \ {r}]
                               /\ subject' = [subject EXCEPT ![i] = r]
                               /\ outcome' = [outcome EXCEPT ![i] = idem[r]]
      BY <2>6 DEF AskAdopts
    <3>2. /\ Alone(i) /\ pc'[i] = "adopt" /\ todo'[i] = todo[i] \ {r} /\ subject'[i] = r
          /\ outcome'[i] = idem[r]
      BY <2>6, <3>1 DEF AskAdopts, Goto, Alone, Typed, TypeOK
    <3>3. Fine(i)'
      BY <1>4, <3>1, <3>2 DEF Fine, OfAJob, RowsStay
    <3>4. QED
      BY <1>2, <3>2, <3>3
  <2>7. CASE AskLeaves(i)
    <3>1. PICK r \in todo[i] : todo' = [todo EXCEPT ![i] = @ \ {r}]
      BY <2>7 DEF AskLeaves
    <3>2. \A j \in Instances : todo'[j] \subseteq todo[j]
      BY <3>1 DEF Typed, TypeOK
    <3>3. UNCHANGED <<pc, subject, outcome>>
      BY <2>7 DEF AskLeaves
    <3>4. \A j \in Instances : Fine(j)'
      BY <1>1, <3>2, <3>3
    <3>5. QED
      BY <3>4 DEF Fine, OfAJob
  <2>8. CASE Adopt(i)
    <3>1. Alone(i) /\ pc'[i] = "loop" /\ todo'[i] = todo[i]
      BY <2>8 DEF Adopt, Goto, Alone, Typed, TypeOK
    <3>2. Fine(i)'
      BY <1>4, <3>1 DEF Fine, OfAJob, RowsStay
    <3>3. QED
      BY <1>2, <3>1, <3>2
  <2>9. CASE NextListing(i)
    <3>1. CASE Return(i)
      BY <1>6, <3>1
    <3>2. CASE ~Return(i)
      <4>1. PICK state \in {"ACCEPTED", "ENCODED"} : todo' = [todo EXCEPT ![i] = InState(state)]
        BY <2>9, <3>2 DEF NextListing, NextOpen, Open
      <4>2. Alone(i) /\ pc'[i] = "loop" /\ todo'[i] = InState(state)
        BY <2>9, <3>2, <4>1 DEF NextListing, Alone, Typed, TypeOK
      <4>3. Fine(i)'
        BY <1>5, <4>2 DEF Fine, RowsStay
      <4>4. QED
        BY <1>2, <4>2, <4>3
    <3>3. QED
      BY <3>1, <3>2
  <2>10. CASE Refuse(i)
    <3>1. PICK r \in todo[i] : todo' = [todo EXCEPT ![i] = @ \ {r}]
      BY <2>10 DEF Refuse
    <3>2. \A j \in Instances : todo'[j] \subseteq todo[j]
      BY <3>1 DEF Typed, TypeOK
    <3>3. UNCHANGED <<pc, subject, outcome>>
      BY <2>10 DEF Refuse
    <3>4. \A j \in Instances : Fine(j)'
      BY <1>1, <3>2, <3>3
    <3>5. QED
      BY <3>4 DEF Fine, OfAJob
  <2>11. CASE Requeue(i)
    <3>1. PICK r \in todo[i] : /\ todo' = [todo EXCEPT ![i] = @ \ {r}]
                               /\ subject' = [subject EXCEPT ![i] = r]
      BY <2>11 DEF Requeue
    <3>2. Alone(i) /\ pc'[i] = "send" /\ todo'[i] = todo[i] \ {r} /\ subject'[i] = r
      BY <2>11, <3>1 DEF Requeue, Goto, Alone, Typed, TypeOK
    <3>3. Fine(i)'
      BY <1>4, <3>1, <3>2 DEF Fine, OfAJob, RowsStay
    <3>4. QED
      BY <1>2, <3>2, <3>3
  <2>12. QED
    BY <1>11, <2>1, <2>2, <2>3, <2>4, <2>5, <2>6, <2>7, <2>8, <2>9, <2>10, <2>11 DEF Work
<1>12. CASE LeaseExpires \/ TimePasses \/ CallArrives \/ GatewayEncodes \/ GatewaySends
            \/ ResolveSend \/ OperatorCommand \/ UNCHANGED vars
  <2>1. UNCHANGED processVars
    BY <1>12 DEF LeaseExpires, TimePasses, CallArrives, GatewayEncodes, GatewaySends, ResolveSend,
       OperatorCommand, vars
  <2>2. QED
    BY <1>3, <2>1
<1>13. QED
  BY <1>9, <1>10, <1>11, <1>12 DEF Next

LEMMA OfAJobHolds == Spec => []OfAJob
<1>1. Init => OfAJob
  BY DEF Init, OfAJob
<1>2. QED
  BY <1>1, OfAJobStep, RowSteps, TypedHolds, GuardedHolds, PTL DEF Spec

\* The queue never holds more jobs than its limit, whatever a new fence, a retry, an adopted state
\* or a second look brings back to it (limits.exports_full, SQL_JOBS_QUEUE).
THEOREM QueueIsBounded == Spec => []QueueBounded
<1>1. Init => Bounded
  <2>1. ASSUME Init PROVE InQueue = {}
    BY <2>1 DEF Init, InQueue, Queued, Row
  <2>2. IsFiniteSet({}) /\ Cardinality({}) = 0
    BY FS_EmptySet
  <2>3. QED
    BY <2>1, <2>2, EgressAssumption DEF Bounded
<1>2. Bounded /\ EntersOne => Bounded'
  <2> SUFFICES ASSUME Bounded, EntersOne PROVE Bounded'
    OBVIOUS
  <2>1. Cardinality(InQueue) \in Nat /\ MaxExports \in Nat
    BY FS_CardinalityType, EgressAssumption DEF Bounded
  <2>2. CASE InQueue' \subseteq InQueue
    <3>1. IsFiniteSet(InQueue') /\ Cardinality(InQueue') <= Cardinality(InQueue)
      BY <2>2, FS_Subset DEF Bounded
    <3>2. Cardinality(InQueue') \in Nat
      BY <3>1, FS_CardinalityType
    <3>3. QED
      BY <2>1, <3>1, <3>2 DEF Bounded
  <2>3. CASE ~QueueFull /\ \E r \in Requests : InQueue' \subseteq InQueue \cup {r}
    <3>1. PICK r \in Requests : InQueue' \subseteq InQueue \cup {r}
      BY <2>3
    <3>2. /\ IsFiniteSet(InQueue \cup {r})
          /\ Cardinality(InQueue \cup {r}) <= Cardinality(InQueue) + 1
      <4>1. IsFiniteSet(InQueue)
        BY DEF Bounded
      <4>2. /\ IsFiniteSet(InQueue \cup {r})
            /\ Cardinality(InQueue \cup {r})
                  = IF r \in InQueue THEN Cardinality(InQueue) ELSE Cardinality(InQueue) + 1
        BY <4>1, FS_AddElement
      <4>3. QED
        BY <2>1, <4>2
    <3>3. /\ IsFiniteSet(InQueue') /\ Cardinality(InQueue') <= Cardinality(InQueue \cup {r})
      BY <3>1, <3>2, FS_Subset
    <3>4. Cardinality(InQueue') \in Nat /\ Cardinality(InQueue \cup {r}) \in Nat
      BY <3>2, <3>3, FS_CardinalityType
    <3>5. Cardinality(InQueue) < MaxExports
      BY <2>1, <2>3 DEF QueueFull, InQueue
    <3>6. QED
      BY <2>1, <3>2, <3>3, <3>4, <3>5 DEF Bounded
  <2>4. QED
    BY <2>2, <2>3 DEF EntersOne
<1>3. Bounded => QueueBounded
  BY DEF Bounded, QueueBounded, InQueue
<1>4. Typed /\ Guarded /\ OfAJob /\ [Next]_vars => EntersOne
  BY RowSteps
<1>5. QED
  BY <1>1, <1>2, <1>3, <1>4, OfAJobHolds, TypedHolds, GuardedHolds, PTL DEF Spec

-----------------------------------------------------------------------------
(***************************************************************************)
(* Egress implements ExportOutcome: what the bridge reports of a request   *)
(* is true of it.  Under two assumptions, which the counterexamples of     *)
(* README's section 5 show to be needed: the gateway is the synthetic one, *)
(* which sends a request before it answers, and the bridge's own commits   *)
(* do not fail.  For any number of processes, requests and acquisitions.   *)
(***************************************************************************)

Assumed == Immediate /\ "commit" \notin Faults

-----------------------------------------------------------------------------
Posts(i, r) == pc[i] = "posting" /\ subject[i] = r

\* The gateway has never heard of the request, and nothing that could tell it is under way.
Untouched(r) ==
    /\ sent[r] = 0 /\ idem[r] = "none" /\ r \notin calls
    /\ \A i \in Instances : ~Posts(i, r)

\* The request has not gone out and never will: it is too old, or the gateway refuses its report,
\* or the gateway never hears of it.
Expiring(r)  == sent[r] = 0 /\ age[r] # "fresh"
Rejecting(r) == sent[r] = 0 /\ (r \in Refused \/ Untouched(r))

\* The gateway's rows are true.
GatewayTruth ==
    \A r \in Requests :
       /\ idem[r] \notin {"ACCEPTED", "ENCODED"}
       /\ idem[r] = "SENT" => sent[r] = 1
       /\ idem[r] = "REJECTED" => r \in Refused
       /\ idem[r] = "EXPIRED" => Expiring(r)
       /\ r \in Refused => sent[r] = 0

\* A request is POSTed by one process, which is the first to tell the gateway of it.
PostingTruth ==
    \A i \in Instances : pc[i] = "posting" =>
       /\ sent[subject[i]] = 0 /\ idem[subject[i]] = "none" /\ subject[i] \notin calls
       /\ \A j \in Instances \ {i} : ~Posts(j, subject[i])
       /\ job[subject[i]].inFlight \/ job[subject[i]].state \in {"UNKNOWN", "FAILED"}

\* The bridge's rows are true.
JobTruth ==
    \A r \in Requests :
       /\ job[r].state \notin {"ACCEPTED", "ENCODED"}
       /\ job[r].state \in {"none", "REVALIDATE", "DENIED"} => Untouched(r)
       /\ job[r].state = "PENDING" /\ ~job[r].inFlight => Untouched(r)
       /\ job[r].state = "REJECTED" => Rejecting(r)
       /\ job[r].state = "EXPIRED" => Expiring(r)

\* What the holder of the lease is about to record is true, and nobody POSTs the request any more.
OutcomeTruth ==
    \A i \in Instances : Current(i) /\ pc[i] \in {"record", "adopt"} =>
       /\ outcome[i] \in {"PENDING", "SENT", "REJECTED", "EXPIRED", "UNKNOWN"}
       /\ outcome[i] = "SENT" => sent[subject[i]] = 1
       /\ outcome[i] = "EXPIRED" => Expiring(subject[i])
       /\ outcome[i] = "REJECTED" => Rejecting(subject[i])
       /\ outcome[i] = "PENDING" => Untouched(subject[i])
       /\ \A j \in Instances : ~Posts(j, subject[i])

\* What the holder of the lease has read of a job still holds when it writes.
InHand ==
    \A i \in Instances : Current(i) =>
       /\ pc[i] = "checked" => job[subject[i]].state = "none"
       /\ pc[i] \in {"posting", "record"} => job[subject[i]].inFlight
       /\ pc[i] = "adopt" => job[subject[i]].state = "UNKNOWN"
       /\ listing[i] = "REVALIDATE" => \A r \in todo[i] : job[r].state = "REVALIDATE"
       /\ listing[i] # "REVALIDATE" => \A r \in todo[i] : job[r].state = "UNKNOWN"

\* While the lease is held, a job is in flight only in its holder's hands.
InFlightHeld ==
    \A i \in Instances, r \in Requests :
       Holds(i) /\ job[r].inFlight => pc[i] \in {"posting", "record"} /\ subject[i] = r

\* The first fence is no process's.
FirstFence == lease.fence = 0 => lease.holder = Operator

Truthful ==
    /\ GatewayTruth /\ PostingTruth /\ JobTruth
    /\ OutcomeTruth /\ InHand /\ InFlightHeld /\ FirstFence

Sound == Typed /\ SentOnRecord /\ Guarded /\ Truthful

-----------------------------------------------------------------------------
\* The jobs under a new fence: none is in flight, those that were are in doubt, and those that
\* waited are to be checked again.
LEMMA NewFenceRows ==
    ASSUME Typed, Guarded, JobTruth, NEW f \in 0 .. MaxFence, f > lease.fence, NEW r \in Requests
    PROVE  /\ ~UnderFence(f)[r].inFlight
           /\ job[r].inFlight => UnderFence(f)[r].state = "UNKNOWN"
           /\ ~job[r].inFlight => UnderFence(f)[r].state =
                 IF job[r].state = "PENDING" THEN "REVALIDATE" ELSE job[r].state
<1>1. job[r].fence < f
  <2>1. job[r].fence <= lease.fence /\ job[r].fence \in 0 .. MaxFence /\ lease.fence \in 0 .. MaxFence
    BY DEF Guarded, FencesBehind, Typed, TypeOK, Jobs
  <2>2. QED
    BY <2>1
<1>2. job[r].state # "ACCEPTED"
  BY DEF JobTruth
<1>3. CASE job[r].inFlight
  BY <1>1, <1>3 DEF UnderFence, Row
<1>4. CASE ~job[r].inFlight
  BY <1>1, <1>2, <1>4 DEF UnderFence, Row
<1>5. QED
  BY <1>3, <1>4

\* What a new fence does to the truths about jobs and POSTs.
LEMMA NewFenceTruth ==
    ASSUME Typed, Guarded, PostingTruth, JobTruth, Spare,
           NEW holder \in Instances \cup {Operator}, NEW expired \in BOOLEAN,
           lease' = [holder |-> holder, fence |-> lease.fence + 1, expired |-> expired],
           \/ job' = UnderFence(lease'.fence)
           \/ \E r \in Requests : Abandon(r),
           UNCHANGED <<subject, gatewayVars, age>>,
           \A i \in Instances : pc'[i] = "posting" <=> pc[i] = "posting"
    PROVE  PostingTruth' /\ JobTruth' /\ \A r \in Requests : ~job'[r].inFlight
<1>1. /\ lease'.fence \in 0 .. MaxFence /\ lease.fence \in 0 .. MaxFence
      /\ lease'.fence = lease.fence + 1
      /\ UnderFence(lease'.fence) \in [Requests -> Jobs]
  BY NewFenceType, EgressAssumption DEF Typed, TypeOK
<1>2. \A r \in Requests :
        \/ job'[r] = UnderFence(lease'.fence)[r]
        \/ job'[r] = Row("FAILED", lease'.fence)
  BY <1>1 DEF Abandon
<1>3. ASSUME NEW r \in Requests
      PROVE  /\ ~job'[r].inFlight
             /\ \/ job'[r].state = "FAILED"
                \/ job[r].inFlight /\ job'[r].state = "UNKNOWN"
                \/ ~job[r].inFlight /\ job[r].state = "PENDING" /\ job'[r].state = "REVALIDATE"
                \/ ~job[r].inFlight /\ job[r].state # "PENDING" /\ job'[r].state = job[r].state
  <2>1. CASE job'[r] = UnderFence(lease'.fence)[r]
    <3>1. lease'.fence > lease.fence
      BY <1>1
    <3>2. QED
      BY <1>1, <2>1, <3>1, NewFenceRows
  <2>2. CASE job'[r] = Row("FAILED", lease'.fence)
    BY <2>2 DEF Row
  <2>3. QED
    BY <1>2, <2>1, <2>2
<1>4. \A r \in Requests : Untouched(r) => Untouched(r)'
  BY DEF Untouched, Posts, gatewayVars
<1>5. JobTruth'
  BY <1>3, <1>4 DEF JobTruth, Expiring, Rejecting, gatewayVars
<1>6. PostingTruth'
  BY <1>3 DEF PostingTruth, Posts, gatewayVars, Typed, Busy, Working
<1>7. QED
  BY <1>3, <1>5, <1>6

\* What a POST nobody waits for does at the gateway: nothing to a request it knows, and a first
\* judgement of one it does not.
LEMMA CallTransmits ==
    ASSUME Typed, SentOnRecord, Assumed, NEW r \in Requests, age[r] # "ancient", Transmit(r)
    PROVE  /\ \A q \in Requests \ {r} :
                /\ sent'[q] = sent[q]
                /\ idem'[q] = idem[q] \/ (idem'[q] = "none" /\ age[q] # "fresh")
           /\ idem[r] # "none" => idem'[r] = idem[r] /\ sent'[r] = sent[r]
           /\ idem[r] = "none" =>
                /\ sent[r] = 0
                /\ \/ age[r] # "fresh" /\ idem'[r] = "EXPIRED" /\ sent'[r] = 0
                   \/ r \in Refused /\ idem'[r] = "REJECTED" /\ sent'[r] = 0
                   \/ age[r] = "fresh" /\ r \notin Refused /\ idem'[r] = "SENT" /\ sent'[r] = 1
<1>1. \A q \in Requests \ {r} :
         /\ sent'[q] = sent[q]
         /\ idem'[q] = idem[q] \/ (idem'[q] = "none" /\ age[q] # "fresh")
  BY DEF Transmit, Pruned, Typed, TypeOK
<1>2. idem'[r] = Judged(r, age[r])
  BY DEF Transmit
<1>3. CASE idem[r] # "none"
  <2>1. idem'[r] = idem[r] /\ sent' = sent
    BY <1>2, <1>3 DEF Transmit, Judged, Known, Pruned
  <2>2. QED
    BY <1>1, <1>3, <2>1
<1>4. CASE idem[r] = "none"
  <2>1. sent[r] = 0
    BY <1>4 DEF SentOnRecord, Typed, TypeOK
  <2>2. ~Known(r)
    BY <1>4 DEF Known
  <2>3. sent'[r] = IF Judged(r, age[r]) = "SENT" THEN 1 ELSE 0
    BY <2>1, <2>2 DEF Transmit, Typed, TypeOK
  <2>4. Judged(r, age[r]) = IF age[r] # "fresh" THEN "EXPIRED"
                            ELSE IF r \in Refused THEN "REJECTED" ELSE "SENT"
    BY <2>2 DEF Judged, Assumed
  <2>5. \/ age[r] # "fresh" /\ idem'[r] = "EXPIRED" /\ sent'[r] = 0
        \/ r \in Refused /\ idem'[r] = "REJECTED" /\ sent'[r] = 0
        \/ age[r] = "fresh" /\ r \notin Refused /\ idem'[r] = "SENT" /\ sent'[r] = 1
    BY <1>2, <2>3, <2>4
  <2>6. QED
    BY <1>1, <1>4, <2>1, <2>5
<1>5. QED
  BY <1>3, <1>4

\* Every step keeps the truths.
LEMMA SoundStep == Assumed /\ Sound /\ Typed' /\ [Next]_vars => Truthful'
<1>. SUFFICES ASSUME Assumed, Sound, Typed', [Next]_vars PROVE Truthful'
  OBVIOUS
<1>. USE EgressAssumption DEF Assumed, storeVars, processVars, gatewayVars
<1>1. ASSUME NEW i \in Instances, Start(i) PROVE Truthful'
  <2>1. lease' = [holder |-> i, fence |-> lease.fence + 1, expired |-> FALSE] /\ Spare
    BY <1>1 DEF Start, Acquire
  <2>2. PostingTruth' /\ JobTruth' /\ \A r \in Requests : ~job'[r].inFlight
    BY <1>1, <2>1, NewFenceTruth DEF Start, Goto, Sound, Truthful, Typed, TypeOK
  <2>3. GatewayTruth'
    BY <1>1 DEF Start, Sound, Truthful, GatewayTruth, Expiring
  <2>4. OutcomeTruth'
    BY <1>1 DEF Start, Acquire, Goto, OutcomeTruth, Current
  <2>5. InHand'
    BY <1>1 DEF Start, Acquire, Goto, Sound, InHand, Current, Guarded, Unlisted
  <2>6. InFlightHeld'
    BY <1>1, <2>2 DEF Start, InFlightHeld
  <2>7. FirstFence'
    BY <1>1 DEF Start, Acquire, Sound, FirstFence, Typed, TypeOK
  <2>8. QED
    BY <2>2, <2>3, <2>4, <2>5, <2>6, <2>7 DEF Truthful
<1>2. ASSUME NEW i \in Instances, Reacquire(i) PROVE Truthful'
  <2>1. lease' = [holder |-> i, fence |-> lease.fence + 1, expired |-> FALSE] /\ Spare
    BY <1>2 DEF Reacquire, Acquire
  <2>2. PostingTruth' /\ JobTruth' /\ \A r \in Requests : ~job'[r].inFlight
    BY <1>2, <2>1, NewFenceTruth DEF Reacquire, Goto, Sound, Truthful, Typed, TypeOK
  <2>3. GatewayTruth'
    BY <1>2 DEF Reacquire, Sound, Truthful, GatewayTruth, Expiring
  <2>4. OutcomeTruth'
    BY <1>2 DEF Reacquire, Acquire, OutcomeTruth, Current
  <2>5. InHand'
    BY <1>2 DEF Reacquire, Acquire, Sound, InHand, Current, Guarded, Unlisted
  <2>6. InFlightHeld'
    BY <1>2, <2>2 DEF Reacquire, InFlightHeld
  <2>7. FirstFence'
    BY <1>2 DEF Reacquire, Acquire, Sound, FirstFence, Typed, TypeOK
  <2>8. QED
    BY <2>2, <2>3, <2>4, <2>5, <2>6, <2>7 DEF Truthful
<1>3. ASSUME NEW i \in Instances, Overtaken(i) PROVE Truthful'
  <2>1. GatewayTruth'
    BY <1>3 DEF Overtaken, Sound, Truthful, GatewayTruth, Expiring
  <2>2. PostingTruth'
    BY <1>3 DEF Overtaken, Goto, Sound, Truthful, PostingTruth, Posts
  <2>3. JobTruth'
    BY <1>3 DEF Overtaken, Goto, Sound, Truthful, JobTruth, Untouched, Posts, Expiring,
       Rejecting
  <2>4. OutcomeTruth'
    BY <1>3 DEF Overtaken, Goto, Sound, Truthful, OutcomeTruth, Current, Untouched, Posts,
       Expiring, Rejecting
  <2>5. InHand'
    BY <1>3 DEF Overtaken, Goto, Sound, Truthful, InHand, Current, Guarded, Unlisted
  <2>6. InFlightHeld'
    BY <1>3 DEF Overtaken, Goto, Sound, Truthful, InFlightHeld, Holds, FirstFence
  <2>7. FirstFence'
    BY <1>3 DEF Overtaken, Sound, Truthful, FirstFence
  <2>8. QED
    BY <2>1, <2>2, <2>3, <2>4, <2>5, <2>6, <2>7 DEF Truthful
<1>4. ASSUME NEW i \in Instances, Close(i) PROVE Truthful'
  <2>1. GatewayTruth'
    BY <1>4 DEF Close, Sound, Truthful, GatewayTruth, Expiring
  <2>2. PostingTruth'
    BY <1>4 DEF Close, Goto, Sound, Truthful, PostingTruth, Posts
  <2>3. JobTruth'
    BY <1>4 DEF Close, Goto, Sound, Truthful, JobTruth, Untouched, Posts, Expiring, Rejecting
  <2>4. OutcomeTruth'
    BY <1>4 DEF Close, Goto, Sound, Truthful, OutcomeTruth, Current, Untouched, Posts, Expiring,
       Rejecting
  <2>5. InHand'
    BY <1>4 DEF Close, Goto, Sound, Truthful, InHand, Current, Guarded, Unlisted
  <2>6. InFlightHeld'
    BY <1>4 DEF Close, Goto, Sound, Truthful, InFlightHeld, Holds, FirstFence
  <2>7. FirstFence'
    BY <1>4 DEF Close, Sound, Truthful, FirstFence
  <2>8. QED
    BY <2>1, <2>2, <2>3, <2>4, <2>5, <2>6, <2>7 DEF Truthful
<1>5. ASSUME NEW i \in Instances, Crash(i) PROVE Truthful'
  <2>1. GatewayTruth'
    BY <1>5 DEF Crash, Sound, Truthful, GatewayTruth, Expiring
  <2>2. PostingTruth'
    BY <1>5 DEF Crash, Sound, Truthful, PostingTruth, Posts, Typed, TypeOK
  <2>3. JobTruth'
    BY <1>5 DEF Crash, Sound, Truthful, JobTruth, Untouched, Posts, Expiring, Rejecting
  <2>4. OutcomeTruth'
    BY <1>5 DEF Crash, Sound, Truthful, OutcomeTruth, Current, Untouched, Posts, Expiring,
       Rejecting, Typed, TypeOK
  <2>5. InHand'
    BY <1>5 DEF Crash, Sound, Truthful, InHand, Current, Typed, TypeOK
  <2>6. InFlightHeld'
    BY <1>5 DEF Crash, Sound, Truthful, InFlightHeld, Holds, Typed, TypeOK, FirstFence
  <2>7. FirstFence'
    BY <1>5 DEF Crash, Sound, Truthful, FirstFence
  <2>8. QED
    BY <2>1, <2>2, <2>3, <2>4, <2>5, <2>6, <2>7 DEF Truthful
<1>6. ASSUME NEW i \in Instances, Export(i) PROVE Truthful'
  <2>1. GatewayTruth'
    BY <1>6 DEF Export, Sound, Truthful, GatewayTruth, Expiring
  <2>2. PostingTruth'
    BY <1>6 DEF Export, Goto, Sound, Truthful, PostingTruth, Posts
  <2>3. JobTruth'
    BY <1>6 DEF Export, Goto, Sound, Truthful, JobTruth, Untouched, Posts, Expiring, Rejecting
  <2>4. OutcomeTruth'
    BY <1>6 DEF Export, Goto, Sound, Truthful, OutcomeTruth, Current, Untouched, Posts,
       Expiring, Rejecting
  <2>5. InHand'
    BY <1>6 DEF Export, Goto, Sound, Truthful, InHand, Current, Typed, TypeOK
  <2>6. InFlightHeld'
    BY <1>6 DEF Export, Goto, Sound, Truthful, InFlightHeld, Holds
  <2>7. FirstFence'
    BY <1>6 DEF Export, Goto, Sound, Truthful, FirstFence
  <2>8. QED
    BY <2>1, <2>2, <2>3, <2>4, <2>5, <2>6, <2>7 DEF Truthful
<1>7. ASSUME NEW i \in Instances, Retry(i) PROVE Truthful'
  <2>1. GatewayTruth'
    BY <1>7 DEF Retry, Goto, Sound, Truthful, GatewayTruth, Expiring
  <2>2. PostingTruth'
    BY <1>7 DEF Retry, Goto, Sound, Truthful, PostingTruth, Posts
  <2>3. JobTruth'
    BY <1>7 DEF Retry, Goto, Sound, Truthful, JobTruth, Untouched, Posts, Expiring, Rejecting
  <2>4. OutcomeTruth'
    BY <1>7 DEF Retry, Goto, Sound, Truthful, OutcomeTruth, Current, Untouched, Posts, Expiring,
       Rejecting
  <2>5. InHand'
    BY <1>7 DEF Retry, Goto, Sound, Truthful, InHand, Current
  <2>6. InFlightHeld'
    BY <1>7 DEF Retry, Goto, Sound, Truthful, InFlightHeld, Holds
  <2>7. FirstFence'
    BY <1>7 DEF Retry, Goto, Sound, Truthful, FirstFence
  <2>8. QED
    BY <2>1, <2>2, <2>3, <2>4, <2>5, <2>6, <2>7 DEF Truthful
<1>8. ASSUME NEW i \in Instances, Reconcile(i) PROVE Truthful'
  <2>1. GatewayTruth'
    BY <1>8 DEF Reconcile, Goto, InState, Sound, Truthful, GatewayTruth, Expiring
  <2>2. PostingTruth'
    BY <1>8 DEF Reconcile, Goto, InState, Sound, Truthful, PostingTruth, Posts
  <2>3. JobTruth'
    BY <1>8 DEF Reconcile, Goto, InState, Sound, Truthful, JobTruth, Untouched, Posts, Expiring,
       Rejecting
  <2>4. OutcomeTruth'
    BY <1>8 DEF Reconcile, Goto, InState, Sound, Truthful, OutcomeTruth, Current, Untouched,
       Posts, Expiring, Rejecting
  <2>5. InHand'
    BY <1>8 DEF Reconcile, Goto, InState, Sound, Truthful, InHand, Current, Typed, TypeOK
  <2>6. InFlightHeld'
    BY <1>8 DEF Reconcile, Goto, InState, Sound, Truthful, InFlightHeld, Holds
  <2>7. FirstFence'
    BY <1>8 DEF Reconcile, Goto, InState, Sound, Truthful, FirstFence
  <2>8. QED
    BY <2>1, <2>2, <2>3, <2>4, <2>5, <2>6, <2>7 DEF Truthful
<1>9. ASSUME NEW i \in Instances, Revalidate(i) PROVE Truthful'
  <2>1. GatewayTruth'
    BY <1>9 DEF Revalidate, Goto, InState, Sound, Truthful, GatewayTruth, Expiring
  <2>2. PostingTruth'
    BY <1>9 DEF Revalidate, Goto, InState, Sound, Truthful, PostingTruth, Posts
  <2>3. JobTruth'
    BY <1>9 DEF Revalidate, Goto, InState, Sound, Truthful, JobTruth, Untouched, Posts,
       Expiring, Rejecting
  <2>4. OutcomeTruth'
    BY <1>9 DEF Revalidate, Goto, InState, Sound, Truthful, OutcomeTruth, Current, Untouched,
       Posts, Expiring, Rejecting
  <2>5. InHand'
    BY <1>9 DEF Revalidate, Goto, InState, Sound, Truthful, InHand, Current, Typed, TypeOK
  <2>6. InFlightHeld'
    BY <1>9 DEF Revalidate, Goto, InState, Sound, Truthful, InFlightHeld, Holds
  <2>7. FirstFence'
    BY <1>9 DEF Revalidate, Goto, InState, Sound, Truthful, FirstFence
  <2>8. QED
    BY <2>1, <2>2, <2>3, <2>4, <2>5, <2>6, <2>7 DEF Truthful
<1>10. ASSUME NEW i \in Instances, Queue(i) PROVE Truthful'
  <2>1. GatewayTruth'
    BY <1>10 DEF Queue, SetJob, Goto, Row, Sound, Truthful, GatewayTruth, Expiring
  <2>2. PostingTruth'
    BY <1>10 DEF Queue, SetJob, Goto, Sound, Truthful, PostingTruth, Posts, Typed, TypeOK,
       InHand, InFlightHeld, Current, Holds
  <2>3. JobTruth'
    BY <1>10 DEF Queue, SetJob, Goto, Row, Sound, Truthful, JobTruth, Untouched, Posts,
       Expiring, Rejecting, InHand, Current, Holds
  <2>4. OutcomeTruth'
    BY <1>10 DEF Queue, SetJob, Goto, Row, Sound, Truthful, OutcomeTruth, Current, Untouched,
       Posts, Expiring, Rejecting
  <2>5. InHand'
    BY <1>10 DEF Queue, SetJob, Goto, Sound, Truthful, InHand, Current, Typed, TypeOK, Holds
  <2>6. InFlightHeld'
    BY <1>10 DEF Queue, SetJob, Goto, Row, Sound, Truthful, InFlightHeld, Holds
  <2>7. FirstFence'
    BY <1>10 DEF Queue, SetJob, Goto, Row, Sound, Truthful, FirstFence
  <2>8. QED
    BY <2>1, <2>2, <2>3, <2>4, <2>5, <2>6, <2>7 DEF Truthful
<1>11. ASSUME NEW i \in Instances, Deny(i) PROVE Truthful'
  <2>1. GatewayTruth'
    BY <1>11 DEF Deny, SetJob, Return, Row, Sound, Truthful, GatewayTruth, Expiring
  <2>2. PostingTruth'
    BY <1>11 DEF Deny, SetJob, Return, Sound, Truthful, PostingTruth, Posts, Typed, TypeOK,
       Busy, Working, InHand, InFlightHeld, Current, Holds
  <2>3. JobTruth'
    BY <1>11 DEF Deny, SetJob, Return, Row, Sound, Truthful, JobTruth, Untouched, Posts,
       Expiring, Rejecting, Typed, TypeOK, InHand, Current, Holds
  <2>4. OutcomeTruth'
    BY <1>11 DEF Deny, SetJob, Return, Row, Sound, Truthful, OutcomeTruth, Current, Untouched,
       Posts, Expiring, Rejecting
  <2>5. InHand'
    BY <1>11 DEF Deny, Return, Sound, Truthful, InHand, Current, Typed, TypeOK, Holds
  <2>6. InFlightHeld'
    BY <1>11 DEF Deny, SetJob, Return, Row, Sound, Truthful, InFlightHeld, Holds, Typed, TypeOK
  <2>7. FirstFence'
    BY <1>11 DEF Deny, SetJob, Return, Row, Sound, Truthful, FirstFence
  <2>8. QED
    BY <2>1, <2>2, <2>3, <2>4, <2>5, <2>6, <2>7 DEF Truthful
<1>12. ASSUME NEW i \in Instances, SendNothing(i) PROVE Truthful'
  <2>1. pc'[i] \notin Working /\ \A j \in Instances \ {i} : pc'[j] = pc[j] /\ subject'[j] = subject[j]
    BY <1>12, ReturnKeeps DEF SendNothing, Sound, Guarded
  <2>2. GatewayTruth'
    BY <1>12 DEF SendNothing, EndSend, Return, Goto, Sound, Truthful, GatewayTruth, Expiring
  <2>3. PostingTruth'
    BY <1>12, <2>1 DEF SendNothing, EndSend, Return, Goto, Sound, Truthful, PostingTruth, Posts,
       Typed, TypeOK
  <2>4. JobTruth'
    BY <1>12 DEF SendNothing, EndSend, Return, Goto, Sound, Truthful, JobTruth, Untouched,
       Posts, Expiring, Rejecting, Typed, TypeOK
  <2>5. OutcomeTruth'
    BY <1>12 DEF SendNothing, EndSend, Return, Goto, Sound, Truthful, OutcomeTruth, Current,
       Untouched, Posts, Expiring, Rejecting, Typed, TypeOK
  <2>6. InHand'
    BY <1>12 DEF SendNothing, EndSend, Return, Goto, Sound, Truthful, InHand, Current, Typed,
       TypeOK
  <2>7. InFlightHeld'
    BY <1>12 DEF SendNothing, EndSend, Return, Goto, Sound, Truthful, InFlightHeld, Holds,
       Typed, TypeOK
  <2>8. FirstFence'
    BY <1>12 DEF SendNothing, EndSend, Return, Goto, Sound, Truthful, FirstFence
  <2>9. QED
    BY <2>2, <2>3, <2>4, <2>5, <2>6, <2>7, <2>8 DEF Truthful
<1>13. ASSUME NEW i \in Instances, SendExpired(i) PROVE Truthful'
  <2>1. pc'[i] \notin Working /\ \A j \in Instances \ {i} : pc'[j] = pc[j] /\ subject'[j] = subject[j]
    BY <1>13, ReturnKeeps DEF SendExpired, Sound, Guarded
  <2>2. GatewayTruth'
    BY <1>13 DEF SendExpired, SetJob, EndSend, Return, Goto, Row, Sound, Truthful, GatewayTruth,
       Expiring
  <2>3. PostingTruth'
    BY <1>13, <2>1 DEF SendExpired, SetJob, Sound, Truthful, PostingTruth, OutcomeTruth,
       InFlightHeld, Typed, Busy, Working, Posts
  <2>4. JobTruth'
    BY <1>13 DEF SendExpired, SetJob, EndSend, Return, Goto, Row, Sound, Truthful, JobTruth,
       OutcomeTruth, InFlightHeld, Typed, TypeOK, Untouched, Posts, Expiring, Rejecting
  <2>5. OutcomeTruth'
    BY <1>13 DEF SendExpired, SetJob, EndSend, Return, Goto, Row, Sound, Truthful, OutcomeTruth,
       Current, Untouched, Posts, Expiring, Rejecting, Typed, TypeOK, Busy, Working
  <2>6. InHand'
    BY <1>13 DEF SendExpired, SetJob, EndSend, Return, Sound, Truthful, InHand, Current, Typed,
       TypeOK, Busy, Working, Holds
  <2>7. InFlightHeld'
    BY <1>13 DEF SendExpired, SetJob, EndSend, Return, Goto, Row, Sound, Truthful, InFlightHeld,
       Holds
  <2>8. FirstFence'
    BY <1>13 DEF SendExpired, SetJob, EndSend, Return, Goto, Row, Sound, Truthful, FirstFence
  <2>9. QED
    BY <2>2, <2>3, <2>4, <2>5, <2>6, <2>7, <2>8 DEF Truthful
<1>14. ASSUME NEW i \in Instances, MarkInFlight(i) PROVE Truthful'
  <2>1. GatewayTruth'
    BY <1>14 DEF MarkInFlight, Goto, Sound, Truthful, GatewayTruth, Expiring
  <2>2. PostingTruth'
    BY <1>14 DEF MarkInFlight, Goto, Sound, Truthful, PostingTruth, Posts, Typed, TypeOK, Busy,
       Working, JobTruth, InFlightHeld, Untouched
  <2>3. JobTruth'
    BY <1>14 DEF MarkInFlight, Goto, Sound, Truthful, JobTruth, Untouched, Posts, Expiring,
       Rejecting, Typed, TypeOK
  <2>4. OutcomeTruth'
    BY <1>14 DEF MarkInFlight, Goto, Sound, Truthful, OutcomeTruth, Current, Holds
  <2>5. InHand'
    BY <1>14 DEF MarkInFlight, Goto, Sound, Truthful, InHand, Current, Typed, TypeOK, Busy,
       Working
  <2>6. InFlightHeld'
    BY <1>14 DEF MarkInFlight, Goto, Sound, Truthful, InFlightHeld, Holds, Typed, TypeOK
  <2>7. FirstFence'
    BY <1>14 DEF MarkInFlight, Goto, Sound, Truthful, FirstFence
  <2>8. QED
    BY <2>1, <2>2, <2>3, <2>4, <2>5, <2>6, <2>7 DEF Truthful
<1>15. ASSUME NEW i \in Instances, PostAnswered(i) PROVE Truthful'
  <2>1. GatewayTruth'
    BY <1>15 DEF PostAnswered, Transmit, Judged, Sound, Truthful, GatewayTruth, Expiring, Typed,
       TypeOK, PostingTruth
  <2>2. PostingTruth'
    BY <1>15 DEF PostAnswered, Answered, Goto, Transmit, Judged, Known, Pruned, Sound, Truthful,
       PostingTruth, Posts, Typed, TypeOK, Busy, Working
  <2>3. JobTruth'
    BY <1>15 DEF PostAnswered, Answered, Goto, Transmit, Judged, Known, Pruned, Sound, Truthful,
       JobTruth, Untouched, Posts, Expiring, Rejecting
  <2>4. OutcomeTruth'
    BY <1>15 DEF PostAnswered, Answered, Goto, Transmit, Judged, Known, Sound, Truthful,
       OutcomeTruth, Current, Untouched, Posts, Expiring, Rejecting, Typed, TypeOK, Busy,
       Working, PostingTruth
  <2>5. InHand'
    BY <1>15 DEF PostAnswered, Answered, Goto, Transmit, Judged, Known, Pruned, Sound, Truthful,
       InHand, Current
  <2>6. InFlightHeld'
    BY <1>15 DEF PostAnswered, Answered, Goto, Transmit, Judged, Known, Pruned, Sound, Truthful,
       InFlightHeld, Holds
  <2>7. FirstFence'
    BY <1>15 DEF PostAnswered, Answered, Goto, Transmit, Judged, Known, Pruned, Sound, Truthful,
       FirstFence
  <2>8. QED
    BY <2>1, <2>2, <2>3, <2>4, <2>5, <2>6, <2>7 DEF Truthful
<1>16. ASSUME NEW i \in Instances, PostExpires(i) PROVE Truthful'
  <2>1. GatewayTruth'
    BY <1>16 DEF PostExpires, Sound, Truthful, GatewayTruth, Expiring, Typed, TypeOK,
       PostingTruth
  <2>2. PostingTruth'
    BY <1>16 DEF PostExpires, Answered, Goto, Known, Pruned, Sound, Truthful, PostingTruth,
       Posts, Typed, TypeOK, Busy, Working
  <2>3. JobTruth'
    BY <1>16 DEF PostExpires, Answered, Goto, Known, Pruned, Sound, Truthful, JobTruth,
       Untouched, Posts, Expiring, Rejecting
  <2>4. OutcomeTruth'
    BY <1>16 DEF PostExpires, Answered, Goto, Sound, Truthful, OutcomeTruth, Current, Untouched,
       Posts, Expiring, Rejecting, Typed, TypeOK, Busy, Working, PostingTruth
  <2>5. InHand'
    BY <1>16 DEF PostExpires, Answered, Goto, Known, Pruned, Sound, Truthful, InHand, Current
  <2>6. InFlightHeld'
    BY <1>16 DEF PostExpires, Answered, Goto, Known, Pruned, Sound, Truthful, InFlightHeld,
       Holds
  <2>7. FirstFence'
    BY <1>16 DEF PostExpires, Answered, Goto, Known, Pruned, Sound, Truthful, FirstFence
  <2>8. QED
    BY <2>1, <2>2, <2>3, <2>4, <2>5, <2>6, <2>7 DEF Truthful
<1>17. ASSUME NEW i \in Instances, PostUnavailable(i) PROVE Truthful'
  <2>1. GatewayTruth'
    BY <1>17 DEF PostUnavailable, Answered, Goto, Sound, Truthful, GatewayTruth, Expiring
  <2>2. PostingTruth'
    BY <1>17 DEF PostUnavailable, Answered, Goto, Sound, Truthful, PostingTruth, Posts
  <2>3. JobTruth'
    BY <1>17 DEF PostUnavailable, Answered, Goto, Sound, Truthful, JobTruth, Untouched, Posts,
       Expiring, Rejecting
  <2>4. OutcomeTruth'
    BY <1>17 DEF PostUnavailable, Answered, Goto, Sound, Truthful, OutcomeTruth, Current,
       Untouched, Posts, Expiring, Rejecting, Typed, TypeOK, PostingTruth
  <2>5. InHand'
    BY <1>17 DEF PostUnavailable, Answered, Goto, Sound, Truthful, InHand, Current
  <2>6. InFlightHeld'
    BY <1>17 DEF PostUnavailable, Answered, Goto, Sound, Truthful, InFlightHeld, Holds
  <2>7. FirstFence'
    BY <1>17 DEF PostUnavailable, Answered, Goto, Sound, Truthful, FirstFence
  <2>8. QED
    BY <2>1, <2>2, <2>3, <2>4, <2>5, <2>6, <2>7 DEF Truthful
<1>18. ASSUME NEW i \in Instances, PostRefused(i) PROVE Truthful'
  <2>1. GatewayTruth'
    BY <1>18 DEF PostRefused, Answered, Goto, Sound, Truthful, GatewayTruth, Expiring
  <2>2. PostingTruth'
    BY <1>18 DEF PostRefused, Answered, Goto, Sound, Truthful, PostingTruth, Posts
  <2>3. JobTruth'
    BY <1>18 DEF PostRefused, Answered, Goto, Sound, Truthful, JobTruth, Untouched, Posts,
       Expiring, Rejecting
  <2>4. OutcomeTruth'
    BY <1>18 DEF PostRefused, Answered, Goto, Sound, Truthful, OutcomeTruth, Current, Untouched,
       Posts, Expiring, Rejecting, Typed, TypeOK, PostingTruth
  <2>5. InHand'
    BY <1>18 DEF PostRefused, Answered, Goto, Sound, Truthful, InHand, Current
  <2>6. InFlightHeld'
    BY <1>18 DEF PostRefused, Answered, Goto, Sound, Truthful, InFlightHeld, Holds
  <2>7. FirstFence'
    BY <1>18 DEF PostRefused, Answered, Goto, Sound, Truthful, FirstFence
  <2>8. QED
    BY <2>1, <2>2, <2>3, <2>4, <2>5, <2>6, <2>7 DEF Truthful
<1>19. ASSUME NEW i \in Instances, PostUnanswered(i) PROVE Truthful'
  <2>1. GatewayTruth'
    BY <1>19 DEF PostUnanswered, Answered, Goto, Sound, Truthful, GatewayTruth, Expiring
  <2>2. PostingTruth'
    BY <1>19 DEF PostUnanswered, Answered, Goto, Sound, Truthful, PostingTruth, Posts, Typed,
       TypeOK
  <2>3. JobTruth'
    BY <1>19 DEF PostUnanswered, Answered, Goto, Sound, Truthful, JobTruth, Untouched, Posts,
       Expiring, Rejecting
  <2>4. OutcomeTruth'
    BY <1>19 DEF PostUnanswered, Answered, Goto, Sound, Truthful, OutcomeTruth, Current,
       Untouched, Posts, Expiring, Rejecting, Typed, TypeOK, PostingTruth
  <2>5. InHand'
    BY <1>19 DEF PostUnanswered, Answered, Goto, Sound, Truthful, InHand, Current
  <2>6. InFlightHeld'
    BY <1>19 DEF PostUnanswered, Answered, Goto, Sound, Truthful, InFlightHeld, Holds
  <2>7. FirstFence'
    BY <1>19 DEF PostUnanswered, Answered, Goto, Sound, Truthful, FirstFence
  <2>8. QED
    BY <2>1, <2>2, <2>3, <2>4, <2>5, <2>6, <2>7 DEF Truthful
<1>20. ASSUME NEW i \in Instances, Record(i) PROVE Truthful'
  <2>1. pc'[i] \notin Working /\ \A j \in Instances \ {i} : pc'[j] = pc[j] /\ subject'[j] = subject[j]
    BY <1>20, ReturnKeeps DEF Record, Sound, Guarded
  <2>2. GatewayTruth'
    BY <1>20 DEF Record, SetJob, EndSend, Return, Goto, Row, Sound, Truthful, GatewayTruth,
       Expiring
  <2>3. PostingTruth'
    BY <1>20, <2>1 DEF Record, SetJob, Sound, Truthful, PostingTruth, Posts, Working,
       OutcomeTruth, Current, Holds
  <2>4. JobTruth'
    BY <1>20 DEF Record, SetJob, EndSend, Return, Goto, Row, Sound, Truthful, JobTruth,
       Untouched, Posts, Expiring, Rejecting, Typed, TypeOK, Guarded, GatewayTruth,
       PostingTruth, OutcomeTruth, Current, Holds
  <2>5. OutcomeTruth'
    BY <1>20 DEF Record, SetJob, EndSend, Return, Goto, Row, Sound, Truthful, OutcomeTruth,
       Current, Untouched, Posts, Expiring, Rejecting, Typed, TypeOK
  <2>6. InHand'
    BY <1>20 DEF Record, SetJob, EndSend, Return, Sound, Truthful, InHand, Current, Typed,
       TypeOK, Busy, Working, Guarded, Unlisted, Holds
  <2>7. InFlightHeld'
    BY <1>20 DEF Record, SetJob, EndSend, Return, Goto, Row, Sound, Truthful, InFlightHeld,
       Holds, Typed, TypeOK
  <2>8. FirstFence'
    BY <1>20 DEF Record, SetJob, EndSend, Return, Goto, Row, Sound, Truthful, FirstFence
  <2>9. QED
    BY <2>2, <2>3, <2>4, <2>5, <2>6, <2>7, <2>8 DEF Truthful
<1>21. ASSUME NEW i \in Instances, RecordFails(i) PROVE Truthful'
  <2>1. GatewayTruth'
    BY <1>21 DEF RecordFails, Return, Sound, Truthful, GatewayTruth, Expiring
  <2>2. PostingTruth'
    BY <1>21 DEF RecordFails, Return, Sound, Truthful, PostingTruth, Posts
  <2>3. JobTruth'
    BY <1>21 DEF RecordFails, Return, Sound, Truthful, JobTruth, Untouched, Posts, Expiring,
       Rejecting
  <2>4. OutcomeTruth'
    BY <1>21 DEF RecordFails, Return, Sound, Truthful, OutcomeTruth, Current, Untouched, Posts,
       Expiring, Rejecting, Typed, TypeOK
  <2>5. InHand'
    BY <1>21 DEF RecordFails, Return, Sound, Truthful, InHand, Current, Typed, TypeOK
  <2>6. InFlightHeld'
    BY <1>21 DEF RecordFails, Return, Sound, Truthful, InFlightHeld, Holds
  <2>7. FirstFence'
    BY <1>21 DEF RecordFails, Return, Sound, Truthful, FirstFence
  <2>8. QED
    BY <2>1, <2>2, <2>3, <2>4, <2>5, <2>6, <2>7 DEF Truthful
<1>22. ASSUME NEW i \in Instances, AskAdopts(i) PROVE Truthful'
  <2>1. GatewayTruth'
    BY <1>22 DEF AskAdopts, Goto, GatewayStates, Sound, Truthful, GatewayTruth, Expiring
  <2>2. PostingTruth'
    BY <1>22 DEF AskAdopts, Goto, GatewayStates, Sound, Truthful, PostingTruth, Posts
  <2>3. JobTruth'
    BY <1>22 DEF AskAdopts, Goto, GatewayStates, Sound, Truthful, JobTruth, Untouched, Posts,
       Expiring, Rejecting
  <2>4. OutcomeTruth'
    BY <1>22 DEF AskAdopts, Goto, GatewayStates, Sound, Truthful, OutcomeTruth, Current,
       Untouched, Posts, Expiring, Rejecting, Typed, TypeOK, GatewayTruth, PostingTruth
  <2>5. InHand'
    BY <1>22 DEF AskAdopts, Goto, Sound, Truthful, InHand, Current, Typed, TypeOK, JobTruth,
       Untouched
  <2>6. InFlightHeld'
    BY <1>22 DEF AskAdopts, Goto, GatewayStates, Sound, Truthful, InFlightHeld, Holds
  <2>7. FirstFence'
    BY <1>22 DEF AskAdopts, Goto, GatewayStates, Sound, Truthful, FirstFence
  <2>8. QED
    BY <2>1, <2>2, <2>3, <2>4, <2>5, <2>6, <2>7 DEF Truthful
<1>23. ASSUME NEW i \in Instances, AskLeaves(i) PROVE Truthful'
  <2>1. GatewayTruth'
    BY <1>23 DEF AskLeaves, Sound, Truthful, GatewayTruth, Expiring
  <2>2. PostingTruth'
    BY <1>23 DEF AskLeaves, Sound, Truthful, PostingTruth, Posts
  <2>3. JobTruth'
    BY <1>23 DEF AskLeaves, Sound, Truthful, JobTruth, Untouched, Posts, Expiring, Rejecting
  <2>4. OutcomeTruth'
    BY <1>23 DEF AskLeaves, Sound, Truthful, OutcomeTruth, Current, Untouched, Posts, Expiring,
       Rejecting
  <2>5. InHand'
    BY <1>23 DEF AskLeaves, Sound, Truthful, InHand, Current
  <2>6. InFlightHeld'
    BY <1>23 DEF AskLeaves, Sound, Truthful, InFlightHeld, Holds
  <2>7. FirstFence'
    BY <1>23 DEF AskLeaves, Sound, Truthful, FirstFence
  <2>8. QED
    BY <2>1, <2>2, <2>3, <2>4, <2>5, <2>6, <2>7 DEF Truthful
<1>24. ASSUME NEW i \in Instances, Adopt(i) PROVE Truthful'
  <2>1. GatewayTruth'
    BY <1>24 DEF Adopt, SetJob, Goto, Row, Sound, Truthful, GatewayTruth, Expiring
  <2>2. PostingTruth'
    BY <1>24 DEF Adopt, SetJob, Goto, Sound, Truthful, PostingTruth, Posts, OutcomeTruth,
       Current, Holds
  <2>3. JobTruth'
    BY <1>24 DEF Adopt, SetJob, Goto, Row, Sound, Truthful, JobTruth, Untouched, Posts,
       Expiring, Rejecting, OutcomeTruth, Current, Holds
  <2>4. OutcomeTruth'
    BY <1>24 DEF Adopt, SetJob, Goto, Row, Sound, Truthful, OutcomeTruth, Current, Untouched,
       Posts, Expiring, Rejecting, Typed, TypeOK
  <2>5. InHand'
    BY <1>24 DEF Adopt, SetJob, Sound, Truthful, InHand, Current, Typed, TypeOK, Busy, Working,
       Guarded, Unlisted, Holds
  <2>6. InFlightHeld'
    BY <1>24 DEF Adopt, SetJob, Goto, Row, Sound, Truthful, InFlightHeld, Holds
  <2>7. FirstFence'
    BY <1>24 DEF Adopt, SetJob, Goto, Row, Sound, Truthful, FirstFence
  <2>8. QED
    BY <2>1, <2>2, <2>3, <2>4, <2>5, <2>6, <2>7 DEF Truthful
<1>25. ASSUME NEW i \in Instances, NextListing(i) PROVE Truthful'
  <2>1. GatewayTruth'
    BY <1>25 DEF NextListing, Return, NextOpen, InState, Open, Sound, Truthful, GatewayTruth,
       Expiring
  <2>2. PostingTruth'
    BY <1>25 DEF NextListing, Return, NextOpen, InState, Open, Sound, Truthful, PostingTruth,
       Posts, Typed, TypeOK
  <2>3. JobTruth'
    BY <1>25 DEF NextListing, Return, NextOpen, InState, Open, Sound, Truthful, JobTruth,
       Untouched, Posts, Expiring, Rejecting, Typed, TypeOK
  <2>4. OutcomeTruth'
    BY <1>25 DEF NextListing, Return, NextOpen, InState, Open, Sound, Truthful, OutcomeTruth,
       Current, Untouched, Posts, Expiring, Rejecting, Typed, TypeOK
  <2>5. InHand'
    BY <1>25 DEF NextListing, Return, InState, Open, Sound, Truthful, InHand, Current, Typed,
       TypeOK, JobTruth
  <2>6. InFlightHeld'
    BY <1>25 DEF NextListing, Return, NextOpen, InState, Open, Sound, Truthful, InFlightHeld,
       Holds, Typed, TypeOK
  <2>7. FirstFence'
    BY <1>25 DEF NextListing, Return, NextOpen, InState, Open, Sound, Truthful, FirstFence
  <2>8. QED
    BY <2>1, <2>2, <2>3, <2>4, <2>5, <2>6, <2>7 DEF Truthful
<1>26. ASSUME NEW i \in Instances, Refuse(i) PROVE Truthful'
  <2>1. GatewayTruth'
    BY <1>26 DEF Refuse, SetJob, Row, Sound, Truthful, GatewayTruth, Expiring
  <2>2. PostingTruth'
    BY <1>26 DEF Refuse, SetJob, Sound, Truthful, PostingTruth, Posts, Typed, TypeOK, InHand,
       InFlightHeld, Current, Holds
  <2>3. JobTruth'
    BY <1>26 DEF Refuse, SetJob, Row, Sound, Truthful, JobTruth, Untouched, Posts, Expiring,
       Rejecting, InHand, Current, Holds
  <2>4. OutcomeTruth'
    BY <1>26 DEF Refuse, SetJob, Row, Sound, Truthful, OutcomeTruth, Current, Untouched, Posts,
       Expiring, Rejecting
  <2>5. InHand'
    BY <1>26 DEF Refuse, SetJob, Sound, Truthful, InHand, Current, Typed, TypeOK, Holds
  <2>6. InFlightHeld'
    BY <1>26 DEF Refuse, SetJob, Row, Sound, Truthful, InFlightHeld, Holds
  <2>7. FirstFence'
    BY <1>26 DEF Refuse, SetJob, Row, Sound, Truthful, FirstFence
  <2>8. QED
    BY <2>1, <2>2, <2>3, <2>4, <2>5, <2>6, <2>7 DEF Truthful
<1>27. ASSUME NEW i \in Instances, Requeue(i) PROVE Truthful'
  <2>1. GatewayTruth'
    BY <1>27 DEF Requeue, Goto, Sound, Truthful, GatewayTruth, Expiring
  <2>2. PostingTruth'
    BY <1>27 DEF Requeue, Goto, Sound, Truthful, PostingTruth, Posts, Typed, TypeOK, Busy,
       Working, InHand, Current, Holds
  <2>3. JobTruth'
    BY <1>27 DEF Requeue, Goto, Sound, Truthful, JobTruth, Untouched, Posts, Expiring,
       Rejecting, Typed, TypeOK, InHand, Current, Holds
  <2>4. OutcomeTruth'
    BY <1>27 DEF Requeue, Goto, Sound, Truthful, OutcomeTruth, Current, Untouched, Posts,
       Expiring, Rejecting
  <2>5. InHand'
    BY <1>27 DEF Requeue, Goto, Sound, Truthful, InHand, Current, Typed, TypeOK, Holds
  <2>6. InFlightHeld'
    BY <1>27 DEF Requeue, Goto, Sound, Truthful, InFlightHeld, Holds, Typed, TypeOK
  <2>7. FirstFence'
    BY <1>27 DEF Requeue, Goto, Sound, Truthful, FirstFence
  <2>8. QED
    BY <2>1, <2>2, <2>3, <2>4, <2>5, <2>6, <2>7 DEF Truthful
<1>28. ASSUME NEW i \in Instances, EndRevalidate(i) PROVE Truthful'
  <2>1. GatewayTruth'
    BY <1>28 DEF EndRevalidate, Return, Sound, Truthful, GatewayTruth, Expiring
  <2>2. PostingTruth'
    BY <1>28 DEF EndRevalidate, Return, Sound, Truthful, PostingTruth, Posts
  <2>3. JobTruth'
    BY <1>28 DEF EndRevalidate, Return, Sound, Truthful, JobTruth, Untouched, Posts, Expiring,
       Rejecting
  <2>4. OutcomeTruth'
    BY <1>28 DEF EndRevalidate, Return, Sound, Truthful, OutcomeTruth, Current, Untouched,
       Posts, Expiring, Rejecting
  <2>5. InHand'
    BY <1>28 DEF EndRevalidate, Return, Sound, Truthful, InHand, Current, Typed, TypeOK
  <2>6. InFlightHeld'
    BY <1>28 DEF EndRevalidate, Return, Sound, Truthful, InFlightHeld, Holds
  <2>7. FirstFence'
    BY <1>28 DEF EndRevalidate, Return, Sound, Truthful, FirstFence
  <2>8. QED
    BY <2>1, <2>2, <2>3, <2>4, <2>5, <2>6, <2>7 DEF Truthful
<1>29. CASE LeaseExpires
  <2>1. GatewayTruth'
    BY <1>29 DEF LeaseExpires, Sound, Truthful, GatewayTruth, Expiring
  <2>2. PostingTruth'
    BY <1>29 DEF LeaseExpires, Sound, Truthful, PostingTruth, Posts
  <2>3. JobTruth'
    BY <1>29 DEF LeaseExpires, Sound, Truthful, JobTruth, Untouched, Posts, Expiring, Rejecting
  <2>4. OutcomeTruth'
    BY <1>29 DEF LeaseExpires, Sound, Truthful, OutcomeTruth, Current, Untouched, Posts,
       Expiring, Rejecting
  <2>5. InHand'
    BY <1>29 DEF LeaseExpires, Sound, Truthful, InHand, Current
  <2>6. InFlightHeld'
    BY <1>29 DEF LeaseExpires, Sound, Truthful, InFlightHeld, Holds
  <2>7. FirstFence'
    BY <1>29 DEF LeaseExpires, Sound, Truthful, FirstFence
  <2>8. QED
    BY <2>1, <2>2, <2>3, <2>4, <2>5, <2>6, <2>7 DEF Truthful
<1>30. CASE TimePasses
  <2>1. GatewayTruth'
    BY <1>30 DEF TimePasses, Sound, Truthful, GatewayTruth, Expiring, Typed, TypeOK
  <2>2. PostingTruth'
    BY <1>30 DEF TimePasses, Sound, Truthful, PostingTruth, Posts
  <2>3. JobTruth'
    BY <1>30 DEF TimePasses, Sound, Truthful, JobTruth, Untouched, Posts, Expiring, Rejecting,
       Typed, TypeOK
  <2>4. OutcomeTruth'
    BY <1>30 DEF TimePasses, Sound, Truthful, OutcomeTruth, Current, Untouched, Posts, Expiring,
       Rejecting, Typed, TypeOK, Busy, Working
  <2>5. InHand'
    BY <1>30 DEF TimePasses, Sound, Truthful, InHand, Current
  <2>6. InFlightHeld'
    BY <1>30 DEF TimePasses, Sound, Truthful, InFlightHeld, Holds
  <2>7. FirstFence'
    BY <1>30 DEF TimePasses, Sound, Truthful, FirstFence
  <2>8. QED
    BY <2>1, <2>2, <2>3, <2>4, <2>5, <2>6, <2>7 DEF Truthful
<1>31. CASE CallArrives
  <2>1. PICK r \in calls : age[r] # "ancient" /\ Transmit(r)
    BY <1>31 DEF CallArrives
  <2>2. r \in Requests /\ UNCHANGED <<lease, job, processVars, calls, age>>
    BY <1>31 DEF CallArrives, Sound, Typed, TypeOK
  <2>3. GatewayTruth'
    BY <1>31, <2>1, <2>2, CallTransmits DEF CallArrives, Sound, Truthful, GatewayTruth, Expiring
  <2>4. PostingTruth'
    BY <1>31, <2>1, <2>2, CallTransmits DEF CallArrives, Sound, Truthful, PostingTruth, Posts,
       Typed, TypeOK, Busy, Working
  <2>5. JobTruth'
    BY <1>31, <2>1, <2>2, CallTransmits DEF CallArrives, Sound, Truthful, JobTruth, Untouched,
       Posts, Expiring, Rejecting
  <2>6. OutcomeTruth'
    BY <1>31, <2>1, <2>2, CallTransmits DEF CallArrives, Sound, Truthful, OutcomeTruth, Current,
       Untouched, Posts, Expiring, Rejecting, Typed, TypeOK, Busy, Working
  <2>7. InHand'
    BY <1>31 DEF CallArrives, Sound, Truthful, InHand, Current
  <2>8. InFlightHeld'
    BY <1>31 DEF CallArrives, Sound, Truthful, InFlightHeld, Holds
  <2>9. FirstFence'
    BY <1>31 DEF CallArrives, Sound, Truthful, FirstFence
  <2>10. QED
    BY <2>3, <2>4, <2>5, <2>6, <2>7, <2>8, <2>9 DEF Truthful
<1>32. CASE GatewayEncodes
  <2>1. GatewayTruth'
    BY <1>32 DEF GatewayEncodes, Sound, Truthful, GatewayTruth, Expiring
  <2>2. PostingTruth'
    BY <1>32 DEF GatewayEncodes, Sound, Truthful, PostingTruth, Posts
  <2>3. JobTruth'
    BY <1>32 DEF GatewayEncodes, Sound, Truthful, JobTruth, Untouched, Posts, Expiring,
       Rejecting
  <2>4. OutcomeTruth'
    BY <1>32 DEF GatewayEncodes, Sound, Truthful, OutcomeTruth, Current, Untouched, Posts,
       Expiring, Rejecting
  <2>5. InHand'
    BY <1>32 DEF GatewayEncodes, Sound, Truthful, InHand, Current
  <2>6. InFlightHeld'
    BY <1>32 DEF GatewayEncodes, Sound, Truthful, InFlightHeld, Holds
  <2>7. FirstFence'
    BY <1>32 DEF GatewayEncodes, Sound, Truthful, FirstFence
  <2>8. QED
    BY <2>1, <2>2, <2>3, <2>4, <2>5, <2>6, <2>7 DEF Truthful
<1>33. CASE GatewaySends
  <2>1. GatewayTruth'
    BY <1>33 DEF GatewaySends, Sound, Truthful, GatewayTruth, Expiring
  <2>2. PostingTruth'
    BY <1>33 DEF GatewaySends, Sound, Truthful, PostingTruth, Posts, Typed, TypeOK, Busy,
       Working
  <2>3. JobTruth'
    BY <1>33 DEF GatewaySends, Sound, Truthful, JobTruth, GatewayTruth
  <2>4. OutcomeTruth'
    BY <1>33 DEF GatewaySends, Sound, Truthful, OutcomeTruth, GatewayTruth
  <2>5. InHand'
    BY <1>33 DEF GatewaySends, Sound, Truthful, InHand, Current
  <2>6. InFlightHeld'
    BY <1>33 DEF GatewaySends, Sound, Truthful, InFlightHeld, Holds
  <2>7. FirstFence'
    BY <1>33 DEF GatewaySends, Sound, Truthful, FirstFence
  <2>8. QED
    BY <2>1, <2>2, <2>3, <2>4, <2>5, <2>6, <2>7 DEF Truthful
<1>34. CASE ResolveSend
  <2>1. lease' = [holder |-> Operator, fence |-> lease.fence + 1, expired |-> TRUE] /\ Spare
    BY <1>34 DEF ResolveSend
  <2>2. PostingTruth' /\ JobTruth' /\ \A r \in Requests : ~job'[r].inFlight
    BY <1>34, <2>1, NewFenceTruth DEF ResolveSend, Goto, Sound, Truthful, Typed, TypeOK
  <2>3. GatewayTruth'
    BY <1>34 DEF ResolveSend, Sound, Truthful, GatewayTruth, Expiring
  <2>4. OutcomeTruth'
    BY <1>34 DEF ResolveSend, Sound, Truthful, OutcomeTruth, Current, Untouched, Posts,
       Expiring, Rejecting
  <2>5. InHand'
    BY <1>34 DEF ResolveSend, Sound, Truthful, InHand, Current
  <2>6. InFlightHeld'
    BY <1>34, <2>2 DEF ResolveSend, Sound, Truthful, InFlightHeld, Holds
  <2>7. FirstFence'
    BY <1>34 DEF ResolveSend, Sound, Truthful, FirstFence
  <2>8. QED
    BY <2>2, <2>3, <2>4, <2>5, <2>6, <2>7 DEF Truthful
<1>35. CASE OperatorCommand
  <2>1. lease' = [holder |-> Operator, fence |-> lease.fence + 1, expired |-> TRUE] /\ Spare
    BY <1>35 DEF OperatorCommand
  <2>2. PostingTruth' /\ JobTruth' /\ \A r \in Requests : ~job'[r].inFlight
    BY <1>35, <2>1, NewFenceTruth DEF OperatorCommand, Goto, Sound, Truthful, Typed, TypeOK
  <2>3. GatewayTruth'
    BY <1>35 DEF OperatorCommand, Sound, Truthful, GatewayTruth, Expiring
  <2>4. OutcomeTruth'
    BY <1>35 DEF OperatorCommand, Sound, Truthful, OutcomeTruth, Current, Untouched, Posts,
       Expiring, Rejecting
  <2>5. InHand'
    BY <1>35 DEF OperatorCommand, Sound, Truthful, InHand, Current
  <2>6. InFlightHeld'
    BY <1>35, <2>2 DEF OperatorCommand, Sound, Truthful, InFlightHeld, Holds
  <2>7. FirstFence'
    BY <1>35 DEF OperatorCommand, Sound, Truthful, FirstFence
  <2>8. QED
    BY <2>2, <2>3, <2>4, <2>5, <2>6, <2>7 DEF Truthful
<1>36. CASE UNCHANGED vars
  <2>1. GatewayTruth'
    BY <1>36 DEF vars, Sound, Truthful, GatewayTruth, Expiring
  <2>2. PostingTruth'
    BY <1>36 DEF vars, Sound, Truthful, PostingTruth, Posts
  <2>3. JobTruth'
    BY <1>36 DEF vars, Sound, Truthful, JobTruth, Untouched, Posts, Expiring, Rejecting
  <2>4. OutcomeTruth'
    BY <1>36 DEF vars, Sound, Truthful, OutcomeTruth, Current, Untouched, Posts, Expiring,
       Rejecting
  <2>5. InHand'
    BY <1>36 DEF vars, Sound, Truthful, InHand, Current
  <2>6. InFlightHeld'
    BY <1>36 DEF vars, Sound, Truthful, InFlightHeld, Holds
  <2>7. FirstFence'
    BY <1>36 DEF vars, Sound, Truthful, FirstFence
  <2>8. QED
    BY <2>1, <2>2, <2>3, <2>4, <2>5, <2>6, <2>7 DEF Truthful
<1>37. QED
  BY <1>1, <1>2, <1>3, <1>4, <1>5, <1>6, <1>7, <1>8, <1>9, <1>10, <1>11, <1>12, <1>13, <1>14,
     <1>15, <1>16, <1>17, <1>18, <1>19, <1>20, <1>21, <1>22, <1>23, <1>24, <1>25, <1>26, <1>27,
     <1>28, <1>29, <1>30, <1>31, <1>32, <1>33, <1>34, <1>35, <1>36 DEF Next, Life, Call, Work

LEMMA SoundHolds == ASSUME Assumed PROVE Spec => []Sound
<1>1. Init => Sound
  <2>1. ASSUME Init PROVE Typed
    BY <2>1, EgressAssumption DEF Init, Typed, TypeOK, Busy, Working, PCs, JobStates, Jobs, Row,
       GatewayStates, Open
  <2>2. ASSUME Init PROVE SentOnRecord
    BY <2>2 DEF Init, SentOnRecord
  <2>3. ASSUME Init PROVE Guarded
    BY <2>3, EgressAssumption DEF Init, Guarded, Marked, Unlisted, StillOpen, FencesBehind, Current,
       Working, Row
  <2>4. ASSUME Init PROVE Truthful
    BY <2>4, EgressAssumption DEF Init, Truthful, GatewayTruth, PostingTruth, JobTruth, OutcomeTruth,
       InHand, InFlightHeld, FirstFence, Untouched, Posts, Expiring, Rejecting, Current, Holds, Row
  <2>5. QED
    BY <2>1, <2>2, <2>3, <2>4 DEF Sound
<1>2. Sound /\ [Next]_vars => Sound'
  BY SoundStep, TypedStep, SentOnRecordStep, GuardedStep DEF Sound
<1>3. QED
  BY <1>1, <1>2, PTL DEF Spec

-----------------------------------------------------------------------------
\* The steps of ExportOutcome, in terms of the rows.

Others(r) == \A q \in Requests \ {r} : job'[q] = job[q]

\* What is reported is the same.
LEMMA Stutters ==
    ASSUME UNCHANGED sent,
           \A r \in Requests : Reported(job'[r].state) = Reported(job[r].state)
    PROVE  UNCHANGED Outcome!vars
BY DEF Outcome!vars

\* A job that had no row has one.
LEMMA Enters ==
    ASSUME NEW r \in Requests, UNCHANGED sent, Others(r),
           job[r].state = "none", job'[r].state \in {"PENDING", "DENIED"}
    PROVE  Outcome!Next
<1>1. Reported(job[r].state) = "none" /\ Reported(job'[r].state) \in {"open", "unsent"}
  BY DEF Reported
<1>2. Outcome!Enter(r)
  BY <1>1 DEF Outcome!Enter, Others
<1>3. QED
  BY <1>2 DEF Outcome!Next

\* A fate that is true is recorded of a job that is PENDING, REVALIDATE or UNKNOWN.
LEMMA Learns ==
    ASSUME NEW r \in Requests, UNCHANGED sent, Others(r),
           job[r].state \in {"PENDING", "REVALIDATE", "UNKNOWN"},
           \/ job'[r].state = "SENT" /\ sent[r] = 1
           \/ job'[r].state \in {"REJECTED", "EXPIRED", "DENIED"} /\ sent[r] = 0
           \/ job'[r].state = "PENDING"
    PROVE  Outcome!Next
<1>1. Reported(job[r].state) \in {"open", "doubtful"}
  BY DEF Reported
<1>2. \/ Reported(job'[r].state) = "sent" /\ sent[r] = 1
      \/ Reported(job'[r].state) = "unsent" /\ sent[r] = 0
      \/ Reported(job'[r].state) = "open"
  BY DEF Reported
<1>3. Outcome!Learn(r)
  BY <1>1, <1>2 DEF Outcome!Learn, Outcome!Undecided, Others
<1>4. QED
  BY <1>3 DEF Outcome!Next

\* Jobs that were open are in doubt.
LEMMA Doubts ==
    ASSUME UNCHANGED sent, NEW D \in SUBSET Requests,
           \A r \in D : Reported(job[r].state) = "open",
           \A r \in Requests : Reported(job'[r].state) = IF r \in D THEN "doubtful"
                                                         ELSE Reported(job[r].state)
    PROVE  Outcome!Next
<1>1. Outcome!Doubt
  BY DEF Outcome!Doubt
<1>2. QED
  BY <1>1 DEF Outcome!Next

\* Jobs that were open are in doubt, and one that is in doubt is given up.
LEMMA GivesUp ==
    ASSUME UNCHANGED sent, NEW D \in SUBSET Requests,
           \A q \in D : Reported(job[q].state) = "open",
           NEW r \in Requests, r \in D \/ Reported(job[r].state) = "doubtful",
           \A q \in Requests : Reported(job'[q].state) = IF q = r THEN "abandoned"
                                                         ELSE IF q \in D THEN "doubtful"
                                                         ELSE Reported(job[q].state)
    PROVE  Outcome!Next
<1>. DEFINE report  == [q \in Requests |-> Reported(job[q].state)]
            doubted == [q \in Requests |-> IF q \in D THEN "doubtful" ELSE report[q]]
<1>1. D \in SUBSET {q \in Requests : report[q] = "open"}
  OBVIOUS
<1>2. doubted[r] = "doubtful" /\ report' = [doubted EXCEPT ![r] = "abandoned"]
  OBVIOUS
<1>3. \E q \in Requests : doubted[q] = "doubtful" /\ report' = [doubted EXCEPT ![q] = "abandoned"]
  <2>. HIDE DEF report, doubted
  <2>1. QED
    BY <1>2
<1>4. Outcome!Doubt
  BY <1>1, <1>3, Zenon DEF Outcome!Doubt
<1>5. QED
  BY <1>4 DEF Outcome!Next

\* A request goes out, and no job is touched.
LEMMA Leaves ==
    ASSUME Typed, NEW r \in Requests, UNCHANGED job, sent[r] = 0, sent'[r] = 1,
           sent' \in [Requests -> Nat], \A q \in Requests \ {r} : sent'[q] = sent[q],
           job[r].state \in {"PENDING", "REVALIDATE", "UNKNOWN", "FAILED", "SENT"}
    PROVE  Outcome!Next
<1>1. Reported(job[r].state) \notin {"none", "unsent"}
  BY DEF Reported
<1>2. sent' = [sent EXCEPT ![r] = 1]
  BY DEF Typed, TypeOK
<1>3. Outcome!Leave(r)
  BY <1>1, <1>2 DEF Outcome!Leave
<1>4. QED
  BY <1>3 DEF Outcome!Next

\* A new fence puts the jobs in flight in doubt, and the operator gives up one that is.
LEMMA NewFenceImplements ==
    ASSUME Sound, Spare, UNCHANGED sent,
           NEW holder \in Instances \cup {Operator}, NEW expired \in BOOLEAN,
           lease' = [holder |-> holder, fence |-> lease.fence + 1, expired |-> expired],
           \/ job' = UnderFence(lease'.fence)
           \/ \E r \in Requests : Abandon(r)
    PROVE  Outcome!Next
<1>. DEFINE D == {r \in Requests : job[r].inFlight}
<1>1. /\ lease'.fence \in 0 .. MaxFence /\ lease'.fence > lease.fence
      /\ UnderFence(lease'.fence) \in [Requests -> Jobs]
  BY NewFenceType, EgressAssumption DEF Sound, Typed, TypeOK
<1>2. \A r \in D : Reported(job[r].state) = "open"
  BY DEF Sound, Guarded, Marked, Reported
<1>3. ASSUME NEW r \in Requests
      PROVE  Reported(UnderFence(lease'.fence)[r].state) =
                IF r \in D THEN "doubtful" ELSE Reported(job[r].state)
  <2>1. /\ job[r].inFlight => UnderFence(lease'.fence)[r].state = "UNKNOWN"
        /\ ~job[r].inFlight => UnderFence(lease'.fence)[r].state =
              IF job[r].state = "PENDING" THEN "REVALIDATE" ELSE job[r].state
    BY <1>1, NewFenceRows DEF Sound, Truthful
  <2>2. QED
    BY <2>1 DEF Reported
<1>4. CASE job' = UnderFence(lease'.fence)
  <2>1. \A r \in Requests : Reported(job'[r].state) = IF r \in D THEN "doubtful"
                                                      ELSE Reported(job[r].state)
    BY <1>3, <1>4
  <2>. HIDE DEF D
  <2>2. D \in SUBSET Requests
    BY DEF D
  <2>3. QED
    BY <1>2, <2>1, <2>2, Doubts
<1>5. ASSUME NEW r \in Requests, Abandon(r) PROVE Outcome!Next
  <2>1. UnderFence(lease'.fence)[r].state = "UNKNOWN"
    BY <1>5 DEF Abandon
  <2>2. /\ job'[r].state = "FAILED"
        /\ \A q \in Requests \ {r} : job'[q] = UnderFence(lease'.fence)[q]
    BY <1>1, <1>5 DEF Abandon, Row
  <2>3. r \in D \/ Reported(job[r].state) = "doubtful"
    BY <1>3, <2>1 DEF Reported
  <2>4. \A q \in Requests : Reported(job'[q].state) = IF q = r THEN "abandoned"
                                                      ELSE IF q \in D THEN "doubtful"
                                                      ELSE Reported(job[q].state)
    BY <1>3, <2>2 DEF Reported
  <2>. HIDE DEF D
  <2>5. D \in SUBSET Requests
    BY DEF D
  <2>6. QED
    BY <1>2, <2>3, <2>4, <2>5, GivesUp
<1>6. QED
  BY <1>4, <1>5

\* The write of one row by the holder of the lease.
LEMMA Writes ==
    ASSUME Typed, NEW i \in Instances, NEW r \in Requests, NEW state \in JobStates,
           SetJob(i, r, state)
    PROVE  job'[r].state = state /\ Others(r)
BY DEF SetJob, Row, Others, Typed, TypeOK

\* Every step of the egress is one of the outcome, or none.
LEMMA OutcomeStep == Assumed /\ Sound /\ [Next]_vars => [Outcome!Next]_(Outcome!vars)
<1>. SUFFICES ASSUME Assumed, Sound, [Next]_vars PROVE Outcome!Next \/ UNCHANGED Outcome!vars
  OBVIOUS
<1>. USE DEF storeVars, gatewayVars
<1>1. ASSUME NEW i \in Instances, Start(i) \/ Reacquire(i) PROVE Outcome!Next
  <2>1. /\ lease' = [holder |-> i, fence |-> lease.fence + 1, expired |-> FALSE] /\ Spare
        /\ job' = UnderFence(lease'.fence) /\ UNCHANGED sent
    BY <1>1 DEF Start, Reacquire, Acquire
  <2>2. QED
    BY <2>1, NewFenceImplements
<1>2. CASE ResolveSend \/ OperatorCommand
  <2>1. /\ lease' = [holder |-> Operator, fence |-> lease.fence + 1, expired |-> TRUE] /\ Spare
        /\ \/ job' = UnderFence(lease'.fence)
           \/ \E r \in Requests : Abandon(r)
        /\ UNCHANGED sent
    BY <1>2 DEF ResolveSend, OperatorCommand
  <2>2. QED
    BY <2>1, NewFenceImplements
<1>3. ASSUME NEW i \in Instances,
             \/ Overtaken(i) \/ Close(i) \/ Crash(i) \/ Call(i) \/ SendNothing(i)
             \/ PostExpires(i) \/ PostUnavailable(i) \/ PostRefused(i) \/ PostUnanswered(i)
             \/ RecordFails(i) \/ AskAdopts(i) \/ AskLeaves(i) \/ NextListing(i) \/ EndRevalidate(i)
      PROVE  UNCHANGED Outcome!vars
  <2>1. UNCHANGED <<job, sent>>
    BY <1>3 DEF Overtaken, Close, Crash, Call, Export, Retry, Reconcile, Revalidate, SendNothing,
       PostExpires, PostUnavailable, PostRefused, PostUnanswered, Answered, RecordFails, AskAdopts,
       AskLeaves, NextListing, EndRevalidate
  <2>2. QED
    BY <2>1, Stutters
<1>4. CASE LeaseExpires \/ TimePasses \/ UNCHANGED vars
  <2>1. UNCHANGED <<job, sent>>
    BY <1>4 DEF LeaseExpires, TimePasses, vars
  <2>2. QED
    BY <2>1, Stutters
<1>5. ASSUME NEW i \in Instances, Queue(i) \/ Deny(i) PROVE Outcome!Next \/ UNCHANGED Outcome!vars
  <2>1. subject[i] \in Requests /\ UNCHANGED sent
    BY <1>5 DEF Queue, Deny, Sound, Typed, Busy, Working
  <2>2. CASE ~Holds(i)
    <3>1. UNCHANGED job
      BY <1>5, <2>2 DEF Queue, Deny
    <3>2. QED
      BY <2>1, <3>1, Stutters
  <2>3. CASE Holds(i)
    <3>1. \E state \in {"PENDING", "DENIED"} : SetJob(i, subject[i], state)
      BY <1>5, <2>3 DEF Queue, Deny
    <3>2. job'[subject[i]].state \in {"PENDING", "DENIED"} /\ Others(subject[i])
      BY <2>1, <3>1, Writes DEF Sound, JobStates
    <3>3. job[subject[i]].state = "none"
      BY <1>5, <2>3 DEF Queue, Deny, Holds, Current, Sound, Truthful, InHand
    <3>4. QED
      BY <2>1, <3>2, <3>3, Enters
  <2>4. QED
    BY <2>2, <2>3
<1>6. ASSUME NEW i \in Instances, SendExpired(i) PROVE Outcome!Next
  <2>1. /\ subject[i] \in Requests /\ UNCHANGED sent
        /\ job[subject[i]].state = "PENDING" /\ SetJob(i, subject[i], "EXPIRED")
    BY <1>6 DEF SendExpired, Sound, Typed, Busy, Working
  <2>2. ~job[subject[i]].inFlight
    BY <1>6, <2>1 DEF SendExpired, Sound, Truthful, InFlightHeld
  <2>3. sent[subject[i]] = 0
    BY <2>1, <2>2 DEF Sound, Truthful, JobTruth, Untouched
  <2>4. job'[subject[i]].state = "EXPIRED" /\ Others(subject[i])
    BY <2>1, Writes DEF Sound, JobStates
  <2>5. QED
    BY <2>1, <2>3, <2>4, Learns
<1>7. ASSUME NEW i \in Instances, MarkInFlight(i) \/ Requeue(i) PROVE UNCHANGED Outcome!vars
  <2>1. UNCHANGED sent
    BY <1>7 DEF MarkInFlight, Requeue
  <2>2. \A r \in Requests : Reported(job'[r].state) = Reported(job[r].state)
    <3>1. CASE MarkInFlight(i)
      BY <3>1 DEF MarkInFlight, Sound, Typed, TypeOK, Jobs
    <3>2. CASE Requeue(i)
      <4>1. PICK r \in Requests : /\ job[r].state = "REVALIDATE"
                                  /\ job' = [job EXCEPT ![r].state = "PENDING", ![r].fence = fence[i]]
        <5>1. Current(i) /\ listing[i] = "REVALIDATE" /\ todo[i] \in SUBSET Requests
          BY <3>2 DEF Requeue, Holds, Current, Sound, Typed, TypeOK
        <5>2. \A r \in todo[i] : r \in Requests /\ job[r].state = "REVALIDATE"
          BY <5>1 DEF Sound, Truthful, InHand
        <5>3. QED
          BY <3>2, <5>2 DEF Requeue
      <4>2. job'[r].state = "PENDING" /\ Others(r)
        BY <4>1 DEF Others, Sound, Typed, TypeOK, Jobs
      <4>3. Reported("PENDING") = Reported("REVALIDATE")
        BY DEF Reported
      <4>4. QED
        BY <4>1, <4>2, <4>3 DEF Others
    <3>3. QED
      BY <1>7, <3>1, <3>2
  <2>3. QED
    BY <2>1, <2>2, Stutters
<1>8. ASSUME NEW i \in Instances, PostAnswered(i) PROVE Outcome!Next \/ UNCHANGED Outcome!vars
  <2>1. /\ subject[i] \in Requests /\ Transmit(subject[i]) /\ UNCHANGED job
        /\ sent[subject[i]] = 0 /\ idem[subject[i]] = "none"
        /\ job[subject[i]].inFlight \/ job[subject[i]].state \in {"UNKNOWN", "FAILED"}
    BY <1>8 DEF PostAnswered, Answered, Sound, Typed, Busy, Working, Truthful, PostingTruth
  <2>2. job[subject[i]].state \in {"PENDING", "UNKNOWN", "FAILED"}
    BY <2>1 DEF Sound, Guarded, Marked
  <2>3. sent' = sent \/ sent' = [sent EXCEPT ![subject[i]] = @ + 1]
    BY <2>1 DEF Transmit
  <2>4. CASE sent' = sent
    BY <2>1, <2>4, Stutters
  <2>5. CASE sent' = [sent EXCEPT ![subject[i]] = @ + 1]
    <3>1. /\ sent'[subject[i]] = 1 /\ sent' \in [Requests -> Nat]
          /\ \A q \in Requests \ {subject[i]} : sent'[q] = sent[q]
      BY <2>1, <2>5 DEF Sound, Typed, TypeOK
    <3>2. QED
      BY <2>1, <2>2, <3>1, Leaves DEF Sound
  <2>6. QED
    BY <2>3, <2>4, <2>5
<1>9. CASE CallArrives
  <2>1. PICK r \in calls : age[r] # "ancient" /\ Transmit(r)
    BY <1>9 DEF CallArrives
  <2>2. r \in Requests /\ UNCHANGED job
    BY <1>9, <2>1 DEF CallArrives, Sound, Typed, TypeOK
  <2>3. \A q \in Requests \ {r} : sent'[q] = sent[q]
    BY <2>1, <2>2, CallTransmits DEF Sound
  <2>4. sent' \in [Requests -> Nat]
    BY <2>1, <2>2, TransmitType DEF Sound
  <2>5. CASE sent'[r] = sent[r]
    <3>1. sent' = sent
      BY <2>3, <2>4, <2>5 DEF Sound, Typed, TypeOK
    <3>2. QED
      BY <2>2, <3>1, Stutters
  <2>6. CASE sent'[r] # sent[r]
    <3>1. sent[r] = 0 /\ sent'[r] = 1 /\ age[r] = "fresh" /\ r \notin Refused
      BY <2>1, <2>2, <2>6, CallTransmits DEF Sound
    <3>2. job[r].state \in JobStates
      BY <2>2 DEF Sound, Typed, TypeOK, Jobs
    <3>3. job[r].state \in {"PENDING", "REVALIDATE", "UNKNOWN", "FAILED", "SENT"}
      BY <2>1, <2>2, <3>1, <3>2
         DEF Sound, Truthful, JobTruth, Untouched, Expiring, Rejecting, JobStates
    <3>4. QED
      BY <2>2, <2>3, <2>4, <3>1, <3>3, Leaves DEF Sound
  <2>7. QED
    BY <2>5, <2>6
<1>10. ASSUME NEW i \in Instances, Record(i) PROVE Outcome!Next
  <2>1. /\ subject[i] \in Requests /\ Current(i) /\ pc[i] = "record" /\ UNCHANGED sent
        /\ outcome[i] \in JobStates /\ SetJob(i, subject[i], outcome[i])
    BY <1>10 DEF Record, Holds, Current, Sound, Typed, TypeOK, Busy, Working
  <2>2. job[subject[i]].state = "PENDING"
    BY <2>1 DEF Sound, Truthful, InHand, Guarded, Marked
  <2>3. job'[subject[i]].state = outcome[i] /\ Others(subject[i])
    BY <2>1, Writes DEF Sound
  <2>4. \/ outcome[i] = "UNKNOWN"
        \/ outcome[i] = "SENT" /\ sent[subject[i]] = 1
        \/ outcome[i] \in {"REJECTED", "EXPIRED"} /\ sent[subject[i]] = 0
        \/ outcome[i] = "PENDING"
    BY <2>1 DEF Sound, Truthful, OutcomeTruth, Expiring, Rejecting
  <2>5. CASE outcome[i] = "UNKNOWN"
    <3>1. Reported(job[subject[i]].state) = "open" /\ Reported(job'[subject[i]].state) = "doubtful"
      BY <2>2, <2>3, <2>5 DEF Reported
    <3>. DEFINE D == {subject[i]}
    <3>2. \A r \in Requests : Reported(job'[r].state) = IF r \in D THEN "doubtful"
                                                        ELSE Reported(job[r].state)
      BY <2>3, <3>1 DEF Others
    <3>3. D \in SUBSET Requests /\ \A r \in D : Reported(job[r].state) = "open"
      BY <2>1, <3>1
    <3>. HIDE DEF D
    <3>4. QED
      BY <2>1, <3>2, <3>3, Doubts
  <2>6. CASE outcome[i] # "UNKNOWN"
    BY <2>1, <2>2, <2>3, <2>4, <2>6, Learns
  <2>7. QED
    BY <2>5, <2>6
<1>11. ASSUME NEW i \in Instances, Adopt(i) PROVE Outcome!Next \/ UNCHANGED Outcome!vars
  <2>1. /\ subject[i] \in Requests /\ Current(i) /\ pc[i] = "adopt" /\ UNCHANGED sent
        /\ outcome[i] \in JobStates /\ SetJob(i, subject[i], outcome[i])
    BY <1>11 DEF Adopt, Holds, Current, Sound, Typed, TypeOK, Busy, Working
  <2>2. job[subject[i]].state = "UNKNOWN"
    BY <2>1 DEF Sound, Truthful, InHand
  <2>3. job'[subject[i]].state = outcome[i] /\ Others(subject[i])
    BY <2>1, Writes DEF Sound
  <2>4. \/ outcome[i] = "UNKNOWN"
        \/ outcome[i] = "SENT" /\ sent[subject[i]] = 1
        \/ outcome[i] \in {"REJECTED", "EXPIRED"} /\ sent[subject[i]] = 0
        \/ outcome[i] = "PENDING"
    BY <2>1 DEF Sound, Truthful, OutcomeTruth, Expiring, Rejecting
  <2>5. CASE outcome[i] = "UNKNOWN"
    <3>1. \A r \in Requests : job'[r].state = job[r].state
      BY <2>2, <2>3, <2>5 DEF Others
    <3>2. QED
      BY <2>1, <3>1, Stutters
  <2>6. CASE outcome[i] # "UNKNOWN"
    BY <2>1, <2>2, <2>3, <2>4, <2>6, Learns
  <2>7. QED
    BY <2>5, <2>6
<1>12. ASSUME NEW i \in Instances, Refuse(i) PROVE Outcome!Next
  <2>1. PICK r \in todo[i] : \E state \in {"EXPIRED", "DENIED"} : SetJob(i, r, state)
    BY <1>12 DEF Refuse
  <2>2. r \in Requests /\ UNCHANGED sent /\ job[r].state = "REVALIDATE"
    BY <1>12 DEF Refuse, Holds, Current, Sound, Truthful, InHand, Typed, TypeOK
  <2>3. sent[r] = 0
    BY <2>2 DEF Sound, Truthful, JobTruth, Untouched
  <2>4. job'[r].state \in {"EXPIRED", "DENIED"} /\ Others(r)
    BY <2>1, <2>2, Writes DEF Sound, JobStates
  <2>5. QED
    BY <2>2, <2>3, <2>4, Learns
<1>13. CASE GatewayEncodes \/ GatewaySends
  BY <1>13 DEF GatewayEncodes, GatewaySends, Sound, Truthful, GatewayTruth
<1>14. QED
  BY <1>1, <1>2, <1>3, <1>4, <1>5, <1>6, <1>7, <1>8, <1>9, <1>10, <1>11, <1>12, <1>13
     DEF Next, Life, Work

\* With the synthetic gateway and commits that do not fail, what the bridge reports of an export is
\* true: the lease, the in-flight mark, UNKNOWN instead of a guess, reconcile and revalidate, the
\* gateway's idempotency and its expiry together keep the promise of ExportOutcome.
THEOREM OutcomeImplemented == ASSUME Assumed PROVE Spec => OutcomeSpec
<1>1. Init => Outcome!Init
  BY DEF Init, Outcome!Init, Row, Reported
<1>2. Sound /\ [Next]_vars => [Outcome!Next]_(Outcome!vars)
  BY OutcomeStep
<1>3. QED
  BY <1>1, <1>2, SoundHolds, PTL DEF Spec, OutcomeSpec, Outcome!Spec

=============================================================================
