------------------------------- MODULE HostSession -------------------------------
(***************************************************************************)
(* One observation session of the HLA host (host.py): workers one at a time, *)
(* the frames they write and the host adds to the capture, the conditions   *)
(* that end a worker's life, retries, the orderly stop, and the footer.     *)
(*                                                                         *)
(* The worker is any process: it may write any line on either channel,      *)
(* stay silent, and exit whenever it likes; only what the host reads is     *)
(* modelled, at the moment it reads it.  Deadlines and the drain window     *)
(* (both longer than no time) may end at any moment after they begin.       *)
(* A frame's content matters by its type and code; of the budget the frame  *)
(* limit is kept, not the bytes.  A write or an fsync of the capture, and a *)
(* write of the outputs, may fail at any time.                             *)
(***************************************************************************)
EXTENDS Integers, Sequences, FiniteSets

CONSTANTS Reported,    \* the codes the workers of the instance report
          Retries,     \* Len(retry_delays_ns)
          MaxFrames,   \* frames_per_session
          Faults       \* of "io", "outputs", "spawn", "rss", "reducer"

Transient == {"CONNECT", "TIMEOUT"}

WorkerCodes == {"CONNECT", "FOM", "NAME", "QUEUE", "LIMIT", "SCHEMA", "RETRACTION"}

Codes == WorkerCodes \cup {"TIMEOUT", "IO", "PIN"}

None == "none"

ASSUME SessionAssumption ==
    /\ Reported \subseteq WorkerCodes
    /\ Retries \in Nat /\ MaxFrames \in Nat
    /\ Faults \subseteq {"io", "outputs", "spawn", "rss", "reducer"}

VARIABLES
    phase,      \* what the session is about
    stop,       \* stop_requested
    failure,    \* the first terminal code of the session
    retries,    \* retries_used
    lastConn,   \* last_connection_code
    capture,    \* the capture: frames, an open generation, generations started, footer
    broken,     \* the capture takes nothing more: "io", or "full" at the end of the session
    outputs,    \* the derived files: "failed" until the E_IO is "recorded"
    worker,     \* the worker's life
    said,       \* diagnostics captured in it, by code
    todo,       \* the events the host still writes after it
    ending      \* what follows them

vars == <<phase, stop, failure, retries, lastConn, capture, broken, outputs, worker, said, todo,
          ending>>

NewWorker == [conditions |-> <<>>, accepting |-> "all", killed |-> FALSE, killAt |-> FALSE,
              term |-> FALSE, forced |-> FALSE, joined |-> FALSE, seen |-> FALSE,
              pending |-> FALSE, silent |-> FALSE, partial |-> FALSE, exit |-> None,
              channels |-> {"stdout", "status"}]

Nothing == [code |-> None, retry |-> FALSE, forced |-> FALSE, opened |-> FALSE,
            conditions |-> <<>>]

Init ==
    /\ phase = "attempt" /\ stop = FALSE /\ failure = None /\ retries = 0 /\ lastConn = None
    /\ capture = [frames |-> 0, open |-> FALSE, generations |-> 0, reason |-> None,
                  footer |-> None]
    /\ broken = "no" /\ outputs = "ok"
    /\ worker = NewWorker /\ said = [c \in Codes |-> 0] /\ todo = <<>> /\ ending = Nothing

-----------------------------------------------------------------------------
\* The terminal code of the session is the first (_terminal).
Terminal(code) == IF failure = None THEN code ELSE failure

NeverRetried(code) == code \notin Transient /\ code # "RETRACTION"

CodesOf(conditions) == {conditions[n].code : n \in 1 .. Len(conditions)}

Condition(code, written) == [code |-> code, written |-> written]

\* Mutant: a failure that competes with the first condition is not recorded.
MutantCompetes(w, code) == FALSE

\* A never-retried failure competes with a first condition that is retried, or with a retraction.
Competes(w, code) == NeverRetried(code) /\ failure = None /\ code \notin CodesOf(w.conditions)

\* _establish: the first condition stays, a competing failure is the second; frames are taken no
\* more, or for the drain window; the worker is killed now or after it.  "written": whose
\* diagnostic frame it is, the "host"'s yet to write, the "worker"'s captured, or none.
Establish(w, code, written, kill, drain) ==
    /\ worker' = [w EXCEPT
          !.conditions = IF @ = <<>> \/ Competes(w, code)
                           THEN Append(@, Condition(code, written)) ELSE @,
          !.accepting  = CASE ~drain              -> None
                           [] drain /\ @ = "all"  -> "drain"
                           [] drain /\ @ # "all"  -> @,
          !.killed     = @ \/ (kill /\ w.exit = None),
          !.killAt     = @ \/ ~kill]
    /\ failure' = IF NeverRetried(code) THEN Terminal(code) ELSE failure

\* _capture_broken: the session's code comes first, so that nothing competes.
CaptureBroken(w) ==
    /\ failure' = Terminal("IO")
    /\ worker' = [w EXCEPT
          !.conditions = IF @ = <<>> THEN <<Condition("IO", None)>> ELSE @,
          !.accepting  = None,
          !.killed     = @ \/ w.exit = None]

\* _host_fault
HostFault(w, code, written) == Establish(w, code, written, TRUE, FALSE)

\* Mutant: a code that is reported twice is recorded twice.
MutantReport(w, code, written) == Establish(w, code, written, FALSE, TRUE)

\* _reported: by fd 3, or by a diagnostic frame that was captured.
Report(w, code, written) ==
    IF code \in CodesOf(w.conditions)
      THEN /\ worker' = [w EXCEPT !.conditions =
                  [n \in 1 .. Len(@) |-> IF @[n].code = code /\ written = "worker"
                                           THEN Condition(code, written) ELSE @[n]]]
           /\ UNCHANGED failure
      ELSE Establish(w, code, written, FALSE, TRUE)

-----------------------------------------------------------------------------
\* _writer.CaptureWriter.frame

\* Mutant: no frame is kept for the diagnostic of the outputs.
MutantEndFrames == 4

EndFrames == 5

\* The next frame is refused: it would enter what is kept for the end of the session.
Refused(end) == capture.frames + 1 > IF end THEN MaxFrames ELSE MaxFrames - EndFrames

\* An event reaches the capture.
Written(event) ==
    /\ capture' = [capture EXCEPT
          !.frames      = @ + 1,
          !.open        = CASE event.type = "start" -> TRUE
                            [] event.type = "end"   -> FALSE
                            [] OTHER                -> @,
          !.generations = IF event.type = "start" THEN @ + 1 ELSE @,
          !.reason      = CASE event.type = "start" -> None
                            [] event.type = "end"   -> event.what
                            [] OTHER                -> @]
    /\ said' = IF event.type = "diagnostic" THEN [said EXCEPT ![event.what] = @ + 1] ELSE said

Event(type, what) == [type |-> type, what |-> what]

\* The write, or the fsync after it, fails: the line may have reached the file whole.
WriteBreaks(event) ==
    /\ "io" \in Faults
    /\ broken' = "io"
    /\ Written(event) \/ UNCHANGED <<capture, said>>

\* The derived records: once they failed they are not written again.
OutputsAfter == IF outputs = "ok" /\ "outputs" \in Faults THEN {"ok", "failed"} ELSE {outputs}

-----------------------------------------------------------------------------
Supervised == phase = "worker" /\ worker.exit = None /\ ~worker.killed

\* _note_stop: a signal, the end of the duration, or a parent that has gone.  The tick that notes
\* it asks a worker without a condition to stop; a tick comes before each look at the process.
RequestStop ==
    /\ phase \in {"attempt", "worker", "backoff"}
    /\ phase = "worker" => worker.exit = None \/ worker.channels # {}
    /\ ~stop
    /\ stop' = TRUE
    /\ worker' = [worker EXCEPT !.term = Supervised /\ worker.conditions = <<>>]
    /\ UNCHANGED <<phase, failure, retries, lastConn, capture, broken, outputs, said, todo, ending>>

\* _end_without_generation
EndWithoutGeneration ==
    /\ stop
    /\ ~(failure = None /\ broken = "no" /\ lastConn = None)
    /\ failure' = IF failure = None /\ broken = "no" THEN lastConn ELSE failure
    /\ phase' = "finish" /\ ending' = Nothing
    /\ UNCHANGED todo

\* The stop leaves a diagnostic of its own when no attempt has failed.
EndBeforeJoin ==
    /\ stop /\ failure = None /\ broken = "no" /\ lastConn = None
    /\ phase' = "writing"
    /\ todo' = <<Event("diagnostic", "CONNECT")>>
    /\ ending' = [Nothing EXCEPT !.code = "CONNECT"]
    /\ UNCHANGED failure

\* _attempt
Attempt ==
    /\ phase = "attempt"
    /\ said' = [c \in Codes |-> 0]
    /\ worker' = NewWorker
    /\ \/ EndWithoutGeneration
       \/ EndBeforeJoin
       \/ ~stop /\ phase' = "worker" /\ ending' = Nothing /\ UNCHANGED <<failure, todo>>
       \/ /\ ~stop /\ "spawn" \in Faults
          /\ phase' = "writing"
          /\ todo' = <<Event("diagnostic", "PIN")>>
          /\ ending' = [Nothing EXCEPT !.code = "PIN"]
          /\ UNCHANGED failure
    /\ UNCHANGED <<stop, retries, lastConn, capture, broken, outputs>>

-----------------------------------------------------------------------------
\* _tick: what the host does about its worker by the clock.

InSession == UNCHANGED <<phase, stop, retries, lastConn, capture, outputs, said, todo, ending>>

\* A worker that ended its generation by a retraction and has to be killed.
Forced == worker.conditions # <<>> /\ worker.conditions[1].code = "RETRACTION"

\* Mutant: a worker that was asked to stop has no deadline of its own.
MutantBounded == worker.pending \/ ~worker.seen

\* A deadline runs: of a stage, of the first status, or of the orderly stop.
Bounded == worker.pending \/ ~worker.seen \/ worker.term

\* _deadline
Deadline ==
    /\ Supervised
    /\ Bounded
    /\ IF worker.conditions = <<>>
         THEN Establish(worker, "TIMEOUT", "host", TRUE, TRUE)
         ELSE /\ worker' = [worker EXCEPT !.killed = TRUE, !.forced = @ \/ Forced]
              /\ UNCHANGED failure
    /\ InSession /\ UNCHANGED broken

\* The drain window of a reported failure is over and the worker has not exited.
KillAt ==
    /\ Supervised
    /\ worker.killAt
    /\ worker' = [worker EXCEPT !.killed = TRUE, !.forced = @ \/ Forced]
    /\ InSession /\ UNCHANGED <<failure, broken>>

\* Mutant: only a worker that has joined is bounded by its silence.
MutantSilentBound ==
    worker.channels = {} /\ worker.conditions = <<>> /\ ~worker.term /\ worker.joined

SilentBound == worker.channels = {} /\ worker.conditions = <<>> /\ ~worker.term

Silence ==
    /\ Supervised
    /\ SilentBound
    /\ worker' = [worker EXCEPT !.killed = TRUE, !.silent = TRUE]
    /\ InSession /\ UNCHANGED <<failure, broken>>

Oversized ==
    /\ Supervised
    /\ "rss" \in Faults
    /\ Establish(worker, "LIMIT", "host", TRUE, TRUE)
    /\ InSession /\ UNCHANGED broken

\* sync_if_due fails.
SyncBreaks ==
    /\ phase = "worker" /\ broken = "no" /\ "io" \in Faults
    /\ broken' = "io"
    /\ CaptureBroken(worker)
    /\ InSession

DrainEnds ==
    /\ phase = "worker" /\ worker.accepting = "drain"
    /\ worker' = [worker EXCEPT !.accepting = None]
    /\ InSession /\ UNCHANGED <<failure, broken>>

-----------------------------------------------------------------------------
\* _supervise: the process and its channels.

Exit ==
    /\ phase = "worker" /\ worker.exit = None
    /\ \E code \in IF worker.killed THEN {"unclean"} ELSE {"clean", "unclean"} :
          worker' = [worker EXCEPT !.exit = code]
    /\ InSession /\ UNCHANGED <<failure, broken>>

\* A channel ends, or is given up some time after the exit.
Close ==
    /\ phase = "worker"
    /\ \E channel \in worker.channels, partial \in BOOLEAN :
          worker' = [worker EXCEPT !.channels = @ \ {channel}, !.partial = @ \/ partial]
    /\ InSession /\ UNCHANGED <<failure, broken>>

\* _status_line: a stage, or the `running` after it.
StageLine ==
    /\ phase = "worker" /\ "status" \in worker.channels
    /\ worker' = [worker EXCEPT !.pending = ~@, !.seen = @ \/ worker.conditions = <<>>]
    /\ InSession /\ UNCHANGED <<failure, broken>>

\* _status_fault: the frames already written are drained.
BadStatus ==
    /\ phase = "worker" /\ "status" \in worker.channels /\ worker.conditions = <<>>
    /\ Establish(worker, "SCHEMA", "host", TRUE, TRUE)
    /\ InSession /\ UNCHANGED broken

FailureLine ==
    /\ phase = "worker" /\ "status" \in worker.channels
    /\ worker.conditions = <<>> \/ worker.accepting # None
    /\ \E code \in Reported :
          Report([worker EXCEPT !.seen = @ \/ worker.conditions = <<>>], code, "host")
    /\ InSession /\ UNCHANGED broken

-----------------------------------------------------------------------------
\* _frame_line

FrameArrives == phase = "worker" /\ "stdout" \in worker.channels /\ worker.accepting # None

\* A line over the limit, one that is no worker frame, or one the protocol or the chain refuses
\* (E_CONFIG, for a time past the epoch's last, ends the life as E_CAPTURE_SCHEMA does).
BadFrame ==
    /\ FrameArrives
    /\ \E code \in {"LIMIT", "SCHEMA"} : HostFault(worker, code, "host")
    /\ InSession /\ UNCHANGED broken

\* _allowed: the frames a worker may write where it is.
Frames ==
    [type: {"start"} , what: {None}] \cup [type: {"data"}, what: {None}]
       \cup [type: {"diagnostic"}, what: Reported]

Allowed(event) ==
    /\ event.type = "start" => ~worker.joined
    /\ event.type = "data" => worker.joined

Joined(event) == [worker EXCEPT !.joined = @ \/ event.type = "start"]

GoodFrame ==
    /\ FrameArrives /\ broken = "no"
    /\ \E event \in Frames :
          /\ Allowed(event)
          /\ \/ /\ Refused(FALSE)
                /\ HostFault(worker, "LIMIT", "host")
                /\ UNCHANGED <<retries, capture, broken, outputs, said>>
             \/ /\ ~Refused(FALSE)
                /\ WriteBreaks(event)
                /\ CaptureBroken(worker)
                /\ UNCHANGED <<retries, outputs>>
             \/ /\ ~Refused(FALSE)
                /\ Written(event)
                /\ outputs' \in OutputsAfter
                /\ retries' = IF event.type = "start" THEN 0 ELSE retries
                /\ UNCHANGED broken
                /\ IF outputs' # "ok" /\ worker.conditions = <<>>
                     THEN HostFault(Joined(event), "IO", "host")
                     ELSE \/ /\ event.type = "diagnostic"
                             /\ Report(worker, event.what, "worker")
                          \/ /\ event.type # "diagnostic"
                             /\ worker' = Joined(event) /\ UNCHANGED failure
                          \/ /\ event.type = "data" /\ "reducer" \in Faults
                             /\ \E code \in {"LIMIT", "SCHEMA"} : HostFault(worker, code, None)
    /\ UNCHANGED <<phase, stop, lastConn, todo, ending>>

-----------------------------------------------------------------------------
\* _after: the condition of the life that ended, and the events it leaves.

Reason(code) ==
    CASE code = None                        -> "stop"
      [] code = "CONNECT"                   -> "connection_lost"
      [] code = "TIMEOUT"                   -> "timeout"
      [] code \in {"LIMIT", "QUEUE"}        -> "limit"
      [] code = "RETRACTION"                -> "retraction"
      [] OTHER                              -> "failure"

Conditions ==
    CASE worker.conditions # <<>>                            -> worker.conditions
      [] worker.conditions = <<>> /\ (worker.silent \/ ~stop \/ worker.exit # "clean")
                                                             -> <<Condition("CONNECT", "host")>>
      [] worker.conditions = <<>> /\ ~worker.silent /\ stop /\ worker.exit = "clean"
           -> IF worker.partial THEN <<Condition("SCHEMA", "host")>> ELSE <<>>

Retry(code) ==
    /\ code \in Transient /\ failure = None /\ ~stop /\ broken = "no" /\ outputs = "ok"
    /\ retries < Retries

\* The diagnostics that are the host's to write, of the conditions in their order.
HostWrites(conditions) ==
    LET events[n \in 0 .. Len(conditions)] ==
          IF n = 0 THEN <<>>
          ELSE IF conditions[n].written = "host"
            THEN Append(events[n - 1], Event("diagnostic", conditions[n].code))
          ELSE events[n - 1]
    IN  events[Len(conditions)]

\* Mutant: a generation is closed by a life that ends the session only.
MutantLeaves(conditions, forced, retry, deciding) ==
    HostWrites(conditions)
    \o (IF forced THEN <<Event("diagnostic", "TIMEOUT")>> ELSE <<>>)
    \o (IF capture.open /\ ~retry THEN <<Event("end", Reason(deciding))>> ELSE <<>>)

Leaves(conditions, forced, retry, deciding) ==
    HostWrites(conditions)
    \o (IF forced THEN <<Event("diagnostic", "TIMEOUT")>> ELSE <<>>)
    \o (IF capture.open THEN <<Event("end", Reason(deciding))>> ELSE <<>>)

After ==
    /\ phase = "worker" /\ worker.exit # None /\ worker.channels = {}
    /\ LET conditions == Conditions
           code == IF conditions = <<>> THEN None ELSE conditions[1].code
           deciding == IF conditions = <<>> THEN None ELSE conditions[Len(conditions)].code
           forced == worker.forced /\ code = "RETRACTION"
       IN  /\ lastConn' = IF code \in Transient THEN code ELSE lastConn
           /\ todo' = Leaves(conditions, forced, Retry(code), deciding)
           /\ ending' = [code |-> code, retry |-> Retry(code), forced |-> forced,
                         opened |-> capture.open, conditions |-> conditions]
    /\ phase' = "writing" /\ worker' = NewWorker
    /\ UNCHANGED <<stop, failure, retries, capture, broken, outputs, said>>

\* _limit_at_end: the frames of a retry do not fit any more.
LimitAtEnd ==
    /\ todo' = <<Event("diagnostic", "LIMIT")>>
               \o (IF capture.open THEN <<Event("end", "limit")>> ELSE <<>>)
    /\ ending' = [ending EXCEPT !.code = "LIMIT", !.retry = FALSE, !.conditions = <<>>]
    /\ UNCHANGED <<failure, capture, broken, outputs, said, phase>>

\* _host_frame, for the next of the events.
WriteEvent ==
    /\ phase = "writing" /\ todo # <<>>
    /\ LET event == Head(todo)
           end == ~ending.retry
       IN  \/ Refused(end) /\ ~end /\ broken = "no" /\ LimitAtEnd
           \/ /\ Refused(end) /\ end /\ broken = "no"
              /\ broken' = "full" /\ failure' = Terminal("LIMIT") /\ phase' = "finish"
              /\ UNCHANGED <<capture, outputs, said, todo, ending>>
           \/ /\ broken # "no"
              /\ failure' = Terminal("IO") /\ phase' = "finish"
              /\ UNCHANGED <<capture, broken, outputs, said, todo, ending>>
           \/ /\ ~Refused(end) /\ broken = "no"
              /\ WriteBreaks(event)
              /\ failure' = Terminal("IO") /\ phase' = "finish"
              /\ UNCHANGED <<outputs, todo, ending>>
           \/ /\ ~Refused(end) /\ broken = "no"
              /\ Written(event)
              /\ \E o \in OutputsAfter :
                    outputs' = IF end /\ event = Event("diagnostic", "IO") /\ o = "failed"
                                 THEN "recorded" ELSE o
              /\ todo' = Tail(todo)
              /\ UNCHANGED <<failure, broken, phase, ending>>
    /\ UNCHANGED <<stop, retries, lastConn, worker>>

\* The end of _after: the next attempt, or the terminal code.
Settle ==
    /\ phase = "writing" /\ todo = <<>>
    /\ \/ ending.retry /\ phase' = "backoff" /\ UNCHANGED <<failure, todo, ending>>
       \/ /\ ~ending.retry /\ ending.code = None /\ ~ending.opened
          /\ EndWithoutGeneration \/ EndBeforeJoin
       \/ /\ ~ending.retry /\ (ending.code # None \/ ending.opened)
          /\ failure' = CASE ending.code = None -> failure
                          [] ending.forced      -> Terminal("TIMEOUT")
                          [] ~ending.forced /\ ending.code = "RETRACTION" /\ ending.opened
                                                -> failure
                          [] OTHER              -> Terminal(ending.code)
          /\ phase' = "finish"
          /\ UNCHANGED <<todo, ending>>
    /\ UNCHANGED <<stop, retries, lastConn, capture, broken, outputs, worker, said>>

\* _backoff: what was written is synced before the wait.
Backoff ==
    /\ phase = "backoff"
    /\ retries' = retries + 1
    /\ \/ EndWithoutGeneration /\ UNCHANGED broken
       \/ EndBeforeJoin /\ UNCHANGED broken
       \/ ~stop /\ phase' = "attempt" /\ UNCHANGED <<failure, broken, todo, ending>>
       \/ /\ "io" \in Faults
          /\ broken' = "io" /\ failure' = Terminal("IO") /\ phase' = "finish"
          /\ UNCHANGED <<todo, ending>>
    /\ UNCHANGED <<stop, lastConn, capture, outputs, worker, said>>

-----------------------------------------------------------------------------
\* _finish

RecordOutputs ==
    /\ phase = "finish" /\ outputs = "failed" /\ broken = "no"
    /\ outputs' = "recorded"
    /\ \/ /\ Refused(TRUE)
          /\ broken' = "full" /\ failure' = Terminal("LIMIT")
          /\ UNCHANGED <<capture, said>>
       \/ /\ ~Refused(TRUE)
          /\ WriteBreaks(Event("diagnostic", "IO"))
          /\ failure' = Terminal("IO")
       \/ /\ ~Refused(TRUE)
          /\ Written(Event("diagnostic", "IO"))
          /\ failure' = Terminal("IO")
          /\ UNCHANGED broken
    /\ UNCHANGED <<phase, stop, retries, lastConn, worker, todo, ending>>

\* Mutant: the status is that of the last worker's life.
MutantFooter == IF ending.code = None \/ ending.code = "RETRACTION" THEN "COMPLETE" ELSE "FAILED"

Footer == IF failure # None THEN "FAILED" ELSE "COMPLETE"

Finish ==
    /\ phase = "finish" /\ (outputs = "failed" => broken # "no")
    /\ phase' = "done"
    /\ \/ /\ broken = "no"
          /\ capture' = [capture EXCEPT !.footer = Footer]
          /\ UNCHANGED <<failure, broken>>
       \/ /\ broken = "no" /\ "io" \in Faults
          /\ broken' = "io" /\ failure' = Terminal("IO")
          /\ capture' \in {capture, [capture EXCEPT !.footer = Footer]}
       \/ /\ broken # "no"
          /\ failure' = IF outputs = "failed" THEN Terminal("IO") ELSE failure
          /\ UNCHANGED <<capture, broken>>
    /\ UNCHANGED <<stop, retries, lastConn, outputs, worker, said, todo, ending>>

-----------------------------------------------------------------------------
Line == StageLine \/ BadStatus \/ FailureLine \/ BadFrame \/ GoodFrame

Clock == Deadline \/ KillAt \/ Silence \/ Oversized \/ SyncBreaks \/ DrainEnds

Host == Attempt \/ After \/ WriteEvent \/ Settle \/ Backoff \/ RecordOutputs \/ Finish

Next == RequestStop \/ Line \/ Clock \/ Exit \/ Close \/ Host

Spec == Init /\ [][Next]_vars

\* The host takes its steps and keeps its deadlines; the kernel ends a killed process, and the
\* host gives up the channels of one that is gone (drain_ns after reaped_at).  A worker that is
\* left to itself promises nothing.
Fairness ==
    /\ WF_vars(Host)
    /\ WF_vars(Deadline) /\ WF_vars(KillAt) /\ WF_vars(Silence)
    /\ WF_vars(worker.killed /\ Exit)
    /\ WF_vars(worker.exit # None /\ Close)

LiveSpec == Spec /\ Fairness

-----------------------------------------------------------------------------
Life == [conditions : Seq([code : Codes, written : {"host", "worker", None}]),
         accepting : {"all", "drain", None}, killed : BOOLEAN, killAt : BOOLEAN, term : BOOLEAN,
         forced : BOOLEAN, joined : BOOLEAN, seen : BOOLEAN, pending : BOOLEAN,
         silent : BOOLEAN, partial : BOOLEAN, exit : {None, "clean", "unclean"},
         channels : SUBSET {"stdout", "status"}]

\* Type correctness.  A life has at most two conditions.
TypeOK ==
    /\ phase \in {"attempt", "worker", "writing", "backoff", "finish", "done"}
    /\ stop \in BOOLEAN /\ failure \in Codes \cup {None} /\ lastConn \in Transient \cup {None}
    /\ retries \in 0 .. Retries
    /\ capture.frames \in 0 .. MaxFrames /\ capture.open \in BOOLEAN
    /\ broken \in {"no", "io", "full"} /\ outputs \in {"ok", "failed", "recorded"}
    /\ worker \in Life /\ Len(worker.conditions) <= 2
    /\ \A c \in Codes : said[c] \in Nat
    /\ Len(todo) <= 4

\* _writer.END_FRAMES: whatever ends the session, in whatever order it comes together, its frames
\* find room, so that a capture is never left without its footer for want of it.
EndFits == broken # "full"

\* Once the session has settled a life (no failure of the capture in between): each condition it
\* recorded is in the capture, once if the host wrote it, as the worker wrote it otherwise.
DiagnosedOnce ==
    phase \in {"backoff", "finish", "done"} /\ broken = "no" =>
        /\ \A n \in 1 .. Len(ending.conditions) :
              LET c == ending.conditions[n]
              IN  /\ c.written = "host" => said[c.code] = 1
                  /\ c.written = "worker" => said[c.code] >= 1
        /\ said["IO"] <= 1 /\ said["TIMEOUT"] <= 1

\* The code that names a generation's end: the footer's, or a retraction the session is COMPLETE by.
Named == IF failure = None /\ ending.code = "RETRACTION" THEN "retraction" ELSE Reason(failure)

\* host.py, "WHEN A WORKER ENDS" (NAT-08): the last generation's end gives the reason that follows
\* from the footer's code.  A retraction whose worker had to be killed is the exception the tests
\* name (test_hla_host.py:915); outputs that fail under the last frames are another.
BoundaryFollowsFooter ==
    phase = "done" /\ broken = "no" /\ ending.opened /\ ~ending.forced /\ outputs = "ok" =>
        capture.reason = Named

\* The footer is COMPLETE only after a generation that an orderly stop or an unforced retraction
\* ended, with nothing else on the capture's account and every derived record written.
CompleteIsEarned ==
    capture.footer = "COMPLETE" =>
        /\ ending.opened /\ ~capture.open /\ outputs = "ok"
        /\ \/ ending.code = None /\ stop /\ ending.conditions = <<>>
           \/ ending.code = "RETRACTION" /\ ~ending.forced /\ CodesOf(ending.conditions) = {"RETRACTION"}

\* The capture, whatever reached it, is one the reader takes for a capture's beginning, and with a
\* footer for a whole one.
CaptureTaken ==
    INSTANCE CaptureShape WITH open <- capture.open, generations <- capture.generations,
                               frames <- capture.frames, footer <- capture.footer

WellShaped == CaptureTaken!Shape

\* A session that was asked to stop ends, whatever its worker does.
StopEnds == stop ~> phase = "done"

\* A worker that failed, by its own account or the host's, or that can report nothing more, is
\* ended, and what it left settled.
LifeEnds == worker.conditions # <<>> \/ worker.channels = {} ~> phase # "worker"

=============================================================================
