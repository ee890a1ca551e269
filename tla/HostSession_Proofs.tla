---------------------------- MODULE HostSession_Proofs ----------------------------
(***************************************************************************)
(* Proofs about HostSession: the end of a session finds room, a COMPLETE   *)
(* footer is earned, each condition is diagnosed once, the boundary names  *)
(* what the footer does, and the capture is one a reader takes; for any    *)
(* codes a worker reports, retries, frame limit and faults.                *)
(***************************************************************************)
EXTENDS HostSession, TLAPS

Reasons == {"stop", "connection_lost", "timeout", "limit", "retraction", "failure"}

ACondition == [code: Codes, written: {"host", "worker", None}]

AnEvent == [type: {"diagnostic"}, what: Codes] \cup [type: {"end"}, what: Reasons]

ACapture == [frames: 0 .. MaxFrames, open: BOOLEAN, generations: Nat, reason: Reasons \cup {None},
             footer: {None, "COMPLETE", "FAILED"}]

AnEnding == [code: Codes \cup {None}, retry: BOOLEAN, forced: BOOLEAN, opened: BOOLEAN,
             conditions: Seq(ACondition)]

Typed ==
    /\ TypeOK
    /\ capture \in ACapture /\ said \in [Codes -> Nat]
    /\ todo \in Seq(AnEvent) /\ ending \in AnEnding

-----------------------------------------------------------------------------
\* The parts of the inductive invariant.

Indices(s) == 1 .. Len(s)

\* Conditions are two at most and of different codes, and what is never retried is the session's.
Sound(conditions, code) ==
    /\ Len(conditions) <= 2 /\ (Len(conditions) = 2 => code # None)
    /\ \A n \in Indices(conditions) : NeverRetried(conditions[n].code) => code # None
    /\ \A m, n \in Indices(conditions) : conditions[m].code = conditions[n].code => m = n

Recorded == Sound(worker.conditions, failure)

\* A session goes on only while nothing is terminal.
GoesOn ==
    /\ phase \in {"attempt", "backoff"} \/ (phase = "writing" /\ ending.retry)
          => failure = None /\ broken = "no"
    /\ phase \in {"attempt", "backoff", "worker"} \/ (phase = "writing" /\ ending.retry)
          => outputs # "recorded"
    /\ phase = "backoff" \/ (phase = "writing" /\ ending.retry) => retries < Retries

\* The frames that are left for the end of the session.
Room ==
    broken = "no" =>
        /\ phase \in {"attempt", "worker", "backoff"} \/ (phase = "writing" /\ ending.retry)
              => capture.frames + EndFrames <= MaxFrames
        /\ phase = "writing" => capture.frames + Len(todo) + 1 <= MaxFrames
        /\ phase = "writing" /\ ending.code = None /\ ~ending.opened
              => todo = <<>> /\ capture.frames + EndFrames <= MaxFrames
        /\ phase = "finish" /\ outputs # "recorded" => capture.frames + 1 <= MaxFrames

\* An open generation is that of a worker that joined, or waits for its end, the last event.
EndIsLast(events) == events # <<>> /\ events[Len(events)].type = "end"

EndWaits == EndIsLast(todo)

Bordered ==
    /\ phase # "done" => capture.footer = None
    /\ broken = "no" =>
          /\ phase \in {"attempt", "backoff", "finish", "done"} => ~capture.open
          /\ phase = "worker" /\ capture.open => worker.joined
          /\ phase = "writing" =>
                /\ capture.open <=> EndWaits
                /\ \A n \in Indices(todo) : todo[n].type = "end" => n = Len(todo)

\* What a COMPLETE footer rests on.
Unsullied ==
    /\ ending.opened
    /\ \/ ending.code = None /\ stop /\ ending.conditions = <<>>
       \/ ending.code = "RETRACTION" /\ ~ending.forced /\ CodesOf(ending.conditions) = {"RETRACTION"}

Tells(events, code) == \E n \in Indices(events) : events[n] = Event("diagnostic", code)

Waits(code) == Tells(todo, code)

Earned ==
    /\ outputs = "recorded" => failure # None
    /\ phase = "writing" =>
          /\ Waits("IO") => failure # None
          /\ ending.code = None /\ ending.opened => stop /\ ending.conditions = <<>>
          /\ ending.code = "RETRACTION" /\ failure = None
                => CodesOf(ending.conditions) = {"RETRACTION"}
    /\ phase = "finish" /\ broken = "no" /\ failure = None => Unsullied
    /\ phase = "done" => CompleteIsEarned

\* The diagnostics of a life: those of the worker are counted, those of the host not yet.
Counted ==
    phase = "worker" /\ broken = "no" =>
        /\ worker.conditions = <<>> => \A c \in Codes : said[c] = 0
        /\ failure = None => \A c \in Codes : NeverRetried(c) => said[c] = 0
        /\ said["IO"] = 0 /\ said["TIMEOUT"] = 0
        /\ \A n \in Indices(worker.conditions) :
              LET c == worker.conditions[n]
              IN  /\ c.written = "host" => said[c.code] = 0
                  /\ c.written = "worker" => said[c.code] >= 1
                  /\ c.code = "TIMEOUT" => n = 1
                  /\ c.code = "IO" => outputs = "failed"

Accounted ==
    phase \in {"writing", "backoff", "finish", "done"} /\ broken = "no" =>
        /\ \A n \in Indices(ending.conditions) :
              LET c == ending.conditions[n]
              IN  /\ c.written = "host" =>
                        said[c.code] = IF phase = "writing" /\ Waits(c.code) THEN 0 ELSE 1
                  /\ c.written = "worker" => said[c.code] >= 1
        /\ said["IO"] <= 1 /\ said["TIMEOUT"] <= 1
        /\ said["IO"] = 1 => outputs = "recorded"
        /\ phase = "writing" =>
              /\ \A m, n \in Indices(todo) : todo[m] = todo[n] => m = n
              /\ Waits("IO") => outputs = "failed"
              /\ Waits("TIMEOUT") => said["TIMEOUT"] = 0

\* The session's code is that of the last condition of the life, and what it will be once a life is
\* settled gives the reason of the generation's end.
LastIs(conditions, code) ==
    /\ conditions = <<>> => code = None
    /\ conditions # <<>> /\ code # None => code = conditions[Len(conditions)].code

LastCode == phase = "worker" /\ broken = "no" => LastIs(worker.conditions, failure)

Settled ==
    IF ending.code = None \/ (ending.code = "RETRACTION" /\ ending.opened) THEN failure
    ELSE Terminal(ending.code)

NamedBy(code) ==
    IF code = None /\ ending.code = "RETRACTION" THEN "retraction" ELSE Reason(code)

Reasoned ==
    broken = "no" /\ ending.opened /\ ~ending.forced =>
        /\ phase = "writing" /\ EndWaits => todo[Len(todo)].what = NamedBy(Settled)
        /\ phase = "writing" /\ ~EndWaits => capture.reason = NamedBy(Settled)
        /\ phase = "writing" /\ ending.retry /\ todo # <<>> => EndWaits
        /\ phase \in {"finish", "done"} /\ outputs = "ok" => capture.reason = NamedBy(failure)

-----------------------------------------------------------------------------
\* Conditions.

\* The conditions and the session's code once one is established.
Noted(conditions, code, written) ==
    IF conditions = <<>> \/ (NeverRetried(code) /\ failure = None /\ code \notin CodesOf(conditions))
      THEN Append(conditions, Condition(code, written)) ELSE conditions

Raised(code) == IF NeverRetried(code) THEN Terminal(code) ELSE failure

Origins == {"host", "worker", None}

LEMMA CodesAre ==
    /\ None \notin Codes /\ "IO" \in Codes /\ "TIMEOUT" \in Codes /\ "CONNECT" \in Codes
    /\ "SCHEMA" \in Codes /\ "LIMIT" \in Codes /\ "PIN" \in Codes /\ "RETRACTION" \in Codes
    /\ WorkerCodes \subseteq Codes
    /\ "IO" \notin WorkerCodes /\ "TIMEOUT" \notin WorkerCodes /\ "PIN" \notin WorkerCodes
BY DEF Codes, WorkerCodes, None

LEMMA Indexed ==
    ASSUME NEW conditions \in Seq(ACondition)
    PROVE  /\ Len(conditions) \in Nat
           /\ \A n \in Indices(conditions) : conditions[n] \in ACondition /\ conditions[n].code \in Codes
           /\ (conditions = <<>> <=> Len(conditions) = 0)
           /\ \A code : code \in CodesOf(conditions)
                          <=> \E n \in Indices(conditions) : conditions[n].code = code
<1>1. /\ Len(conditions) \in Nat
      /\ \A n \in Indices(conditions) : conditions[n] \in ACondition
      /\ (conditions = <<>> <=> Len(conditions) = 0)
  BY DEF Indices
<1>2. \A n \in Indices(conditions) : conditions[n].code \in Codes
  BY <1>1 DEF ACondition
<1>3. QED
  BY <1>1, <1>2 DEF CodesOf, Indices

\* A condition more leaves them sound.
LEMMA NotedSound ==
    ASSUME NEW conditions \in Seq(ACondition), Sound(conditions, failure),
           failure \in Codes \cup {None}, NEW code \in Codes, NEW written \in Origins
    PROVE  /\ Noted(conditions, code, written) \in Seq(ACondition)
           /\ Raised(code) \in Codes \cup {None}
           /\ failure # None => Raised(code) = failure
           /\ NeverRetried(code) => Raised(code) # None
           /\ Sound(Noted(conditions, code, written), Raised(code))
           /\ Noted(conditions, code, written) # <<>>
           /\ LastIs(conditions, failure) => LastIs(Noted(conditions, code, written), Raised(code))
<1> DEFINE row == Condition(code, written)
           L == Len(conditions)
           more == Append(conditions, row)
<1>1. row \in ACondition /\ row.code = code
  BY DEF Condition, ACondition, Origins
<1>2. /\ L \in Nat /\ \A n \in Indices(conditions) : conditions[n] \in ACondition
      /\ (conditions = <<>> <=> L = 0)
  BY Indexed
<1>3. /\ Raised(code) \in Codes \cup {None} /\ (failure # None => Raised(code) = failure)
      /\ NeverRetried(code) => Raised(code) # None
  BY CodesAre DEF Raised, Terminal
<1> HIDE DEF row
<1>4. /\ more \in Seq(ACondition) /\ Len(more) = L + 1 /\ more[L + 1] = row /\ more # <<>>
      /\ \A n \in Indices(conditions) : more[n] = conditions[n]
  BY <1>1, <1>2 DEF Indices
<1>5. \A n \in Indices(more) : n = L + 1 \/ n \in Indices(conditions)
  BY <1>2, <1>4 DEF Indices
<1> HIDE DEF more
<1>6. CASE conditions = <<>>
  <2>1. Noted(conditions, code, written) = more
    BY <1>6 DEF Noted, more, row
  <2>2. L = 0 /\ Indices(more) = {1} /\ more[1].code = code
    BY <1>1, <1>2, <1>4, <1>6 DEF Indices
  <2>3. Sound(more, Raised(code))
    BY <1>3, <1>4, <2>2 DEF Sound
  <2>4. ASSUME LastIs(conditions, failure) PROVE LastIs(more, Raised(code))
    <3>1. failure = None /\ Raised(code) \in {None, code} /\ Len(more) = 1
      BY <1>4, <1>6, <2>2, <2>4 DEF LastIs, Raised, Terminal
    <3>2. QED
      BY <1>4, <2>2, <3>1 DEF LastIs
  <2>5. QED
    BY <1>3, <1>4, <2>1, <2>3, <2>4
<1>7. CASE conditions # <<>> /\ NeverRetried(code) /\ failure = None /\ code \notin CodesOf(conditions)
  <2>1. Noted(conditions, code, written) = more /\ Raised(code) = code
    <3>1. Noted(conditions, code, written) = more
      BY <1>7 DEF Noted, more, row
    <3>2. Raised(code) = code
      BY <1>7 DEF Raised, Terminal
    <3>3. QED
      BY <3>1, <3>2
  <2>2. L = 1
    <3>1. L # 0
      BY <1>2, <1>7
    <3>2. L <= 2 /\ L # 2
      BY <1>7 DEF Sound
    <3>3. L \in Nat
      BY <1>2
    <3> HIDE DEF L
    <3>4. QED
      BY <3>1, <3>2, <3>3
  <2>3. \A n \in Indices(conditions) : conditions[n].code # code
    BY <1>7, Indexed
  <2>4. \A m, n \in Indices(more) : more[m].code = more[n].code => m = n
    BY <1>1, <1>4, <1>5, <2>3 DEF Sound
  <2>5. Len(more) = 2 /\ code # None
    BY <1>4, <2>2, CodesAre
  <2>6. Sound(more, code)
    BY <2>4, <2>5 DEF Sound
  <2>7. LastIs(more, code)
    BY <1>1, <1>4, <2>2, <2>5 DEF LastIs
  <2>8. QED
    BY <1>3, <1>4, <2>1, <2>6, <2>7
<1>8. CASE conditions # <<>> /\ ~(NeverRetried(code) /\ failure = None /\ code \notin CodesOf(conditions))
  <2>1. Noted(conditions, code, written) = conditions
    BY <1>8 DEF Noted
  <2>2. Raised(code) = failure
    <3>1. ASSUME NeverRetried(code), failure = None PROVE FALSE
      <4>1. PICK n \in Indices(conditions) : conditions[n].code = code
        BY <1>8, <3>1, Indexed
      <4>2. QED
        BY <3>1, <4>1 DEF Sound
    <3>2. QED
      BY <3>1 DEF Raised, Terminal
  <2>3. QED
    BY <1>3, <1>8, <2>1, <2>2
<1>9. QED
  BY <1>6, <1>7, <1>8

\* A condition that the worker's own frame tells of.
Marked(conditions, code, written) ==
    [n \in 1 .. Len(conditions) |->
       IF conditions[n].code = code /\ written = "worker" THEN Condition(code, written)
                                                          ELSE conditions[n]]

LEMMA MarkedSound ==
    ASSUME NEW conditions \in Seq(ACondition), Sound(conditions, failure),
           NEW code \in Codes, NEW written \in Origins
    PROVE  LET marked == Marked(conditions, code, written)
           IN  /\ marked \in Seq(ACondition) /\ Len(marked) = Len(conditions)
               /\ \A n \in Indices(conditions) :
                     /\ marked[n].code = conditions[n].code
                     /\ marked[n].written = IF conditions[n].code = code /\ written = "worker"
                                              THEN written ELSE conditions[n].written
               /\ Sound(marked, failure)
               /\ (marked = <<>> <=> conditions = <<>>)
               /\ LastIs(conditions, failure) => LastIs(marked, failure)
<1> DEFINE L == Len(conditions)
           row(n) == IF conditions[n].code = code /\ written = "worker"
                       THEN Condition(code, written) ELSE conditions[n]
           marked == [n \in 1 .. L |-> row(n)]
<1>1. L \in Nat /\ \A n \in Indices(conditions) : conditions[n] \in ACondition
  BY Indexed
<1>2. ASSUME NEW n \in 1 .. L
      PROVE  /\ row(n) \in ACondition /\ row(n).code = conditions[n].code
             /\ row(n).written = IF conditions[n].code = code /\ written = "worker"
                                   THEN written ELSE conditions[n].written
  <2>1. Condition(code, written) \in ACondition
    BY DEF Condition, ACondition, Origins
  <2>2. conditions[n] \in ACondition
    BY <1>1 DEF Indices
  <2>3. QED
    BY <2>1, <2>2 DEF Condition
<1>3. Marked(conditions, code, written) = marked
  BY DEF Marked
<1> HIDE DEF row
<1>4. marked \in [1 .. L -> ACondition]
  BY <1>2
<1>5. marked \in Seq(ACondition) /\ Len(marked) = L
  BY <1>1, <1>4
<1>6. \A n \in Indices(conditions) : marked[n] = row(n)
  BY DEF Indices
<1> HIDE DEF marked
<1>7. marked = <<>> <=> conditions = <<>>
  BY <1>5, Indexed
<1>8. Sound(marked, failure)
  BY <1>2, <1>5, <1>6 DEF Sound, Indices
<1>9. ASSUME LastIs(conditions, failure) PROVE LastIs(marked, failure)
  <2>1. CASE conditions = <<>>
    BY <1>7, <1>9, <2>1 DEF LastIs
  <2>2. CASE conditions # <<>>
    <3>1. L \in Indices(conditions)
      BY <1>1, <2>2, Indexed DEF Indices
    <3>2. marked[Len(marked)].code = conditions[L].code
      BY <1>2, <1>5, <1>6, <3>1 DEF Indices
    <3>3. QED
      BY <1>7, <1>9, <2>2, <3>2 DEF LastIs
  <2>3. QED
    BY <2>1, <2>2
<1>10. QED
  BY <1>2, <1>3, <1>5, <1>6, <1>7, <1>8, <1>9 DEF Indices

\* What establishing a condition does to a life.
LEMMA Establishing ==
    ASSUME NEW w \in Life, NEW code \in Codes, NEW written \in Origins, NEW kill \in BOOLEAN,
           NEW drain \in BOOLEAN, Sound(w.conditions, failure), failure \in Codes \cup {None},
           Establish(w, code, written, kill, drain)
    PROVE  /\ worker' \in Life /\ worker'.joined = w.joined
           /\ worker'.conditions = Noted(w.conditions, code, written) /\ failure' = Raised(code)
<1> DEFINE c == Noted(w.conditions, code, written)
           a == CASE ~drain                        -> None
                  [] drain /\ w.accepting = "all"  -> "drain"
                  [] drain /\ w.accepting # "all"  -> w.accepting
           k == w.killed \/ (kill /\ w.exit = None)
           l == w.killAt \/ ~kill
<1>1. worker' = [w EXCEPT !.conditions = c, !.accepting = a, !.killed = k, !.killAt = l]
  BY DEF Establish, Noted, Competes
<1>2. failure' = Raised(code)
  BY DEF Establish, Raised
<1>3. w.conditions \in Seq(ACondition) /\ w.accepting \in {"all", "drain", None}
  BY DEF Life, ACondition
<1>4. c \in Seq(ACondition)
  BY <1>3, NotedSound
<1>5. a \in {"all", "drain", None}
  <2>1. CASE drain = FALSE
    BY <2>1
  <2>2. CASE drain = TRUE
    BY <1>3, <2>2
  <2>3. QED
    BY <2>1, <2>2
<1>6. k \in BOOLEAN /\ l \in BOOLEAN
  BY DEF Life
<1> HIDE DEF c, a, k, l
<1>7. worker' \in Life /\ worker'.joined = w.joined /\ worker'.conditions = c
  BY <1>1, <1>4, <1>5, <1>6 DEF Life, ACondition
<1>8. QED
  BY <1>2, <1>7 DEF c

\* What the worker reports is marked as its own, or established.
LEMMA Reporting ==
    ASSUME NEW w \in Life, NEW code \in Codes, NEW written \in {"host", "worker"},
           Sound(w.conditions, failure), failure \in Codes \cup {None}, Report(w, code, written)
    PROVE  /\ worker' \in Life /\ worker'.joined = w.joined
           /\ \/ /\ code \in CodesOf(w.conditions) /\ failure' = failure
                 /\ worker'.conditions = Marked(w.conditions, code, written)
              \/ /\ code \notin CodesOf(w.conditions) /\ failure' = Raised(code)
                 /\ worker'.conditions = Noted(w.conditions, code, written)
<1>1. CASE code \in CodesOf(w.conditions)
  <2>1. /\ worker' = [w EXCEPT !.conditions = Marked(w.conditions, code, written)]
        /\ failure' = failure
    BY <1>1 DEF Report, Marked
  <2>2. Marked(w.conditions, code, written) \in Seq(ACondition)
    BY MarkedSound DEF Life, ACondition, Origins
  <2> DEFINE m == Marked(w.conditions, code, written)
  <2> HIDE DEF m
  <2>3. [w EXCEPT !.conditions = m] \in Life
    BY <2>2 DEF Life, ACondition, m
  <2>4. worker' = [w EXCEPT !.conditions = m]
    BY <2>1 DEF m
  <2>5. worker'.conditions = m /\ worker'.joined = w.joined
    BY <2>4 DEF Life
  <2>6. QED
    BY <1>1, <2>1, <2>3, <2>4, <2>5 DEF m
<1>2. CASE code \notin CodesOf(w.conditions)
  <2>1. Establish(w, code, written, FALSE, TRUE)
    BY <1>2 DEF Report
  <2>2. written \in Origins /\ FALSE \in BOOLEAN /\ TRUE \in BOOLEAN
    BY DEF Origins
  <2>3. QED
    BY <1>2, <2>1, <2>2, Establishing
<1>3. QED
  BY <1>1, <1>2

\* A capture that breaks ends what the life reports.
LEMMA Breaking ==
    ASSUME NEW w \in Life, Sound(w.conditions, failure), failure \in Codes \cup {None},
           CaptureBroken(w)
    PROVE  /\ worker' \in Life /\ worker'.joined = w.joined
           /\ failure' \in Codes /\ Sound(worker'.conditions, failure')
<1> DEFINE c == IF w.conditions = <<>> THEN <<Condition("IO", None)>> ELSE w.conditions
<1>1. failure' = Terminal("IO") /\ failure' \in Codes /\ failure' # None
  BY CodesAre DEF CaptureBroken, Terminal
<1>2. worker' = [w EXCEPT !.conditions = c, !.accepting = None, !.killed = @ \/ w.exit = None]
  BY DEF CaptureBroken
<1>3. w.conditions \in Seq(ACondition)
  BY DEF Life, ACondition
<1>4. c \in Seq(ACondition)
  <2>1. Condition("IO", None) \in ACondition
    BY CodesAre DEF Condition, ACondition
  <2>2. QED
    BY <1>3, <2>1
<1>5. Sound(c, failure')
  <2>1. CASE w.conditions = <<>>
    <3>1. Len(c) = 1
      BY <2>1
    <3>2. QED
      BY <1>1, <3>1 DEF Sound, Indices
  <2>2. CASE w.conditions # <<>>
    BY <1>1, <2>2 DEF Sound
  <2>3. QED
    BY <2>1, <2>2
<1> HIDE DEF c
<1>6. worker' \in Life /\ worker'.conditions = c /\ worker'.joined = w.joined
  BY <1>2, <1>4 DEF Life, ACondition
<1>7. QED
  BY <1>1, <1>5, <1>6

-----------------------------------------------------------------------------
\* The capture.

\* A frame that fits is one more, of its own effect.
LEMMA Writing ==
    ASSUME capture \in ACapture, said \in [Codes -> Nat], NEW event \in AnEvent \cup Frames,
           NEW end \in BOOLEAN, ~Refused(end), Written(event)
    PROVE  /\ capture' \in ACapture /\ said' \in [Codes -> Nat]
           /\ capture'.frames = capture.frames + 1 /\ capture'.footer = capture.footer
           /\ ~end => capture.frames + 1 + EndFrames <= MaxFrames
           /\ event.type = "start" => /\ capture'.open
                                      /\ capture'.generations = capture.generations + 1
           /\ event.type = "end" => /\ ~capture'.open /\ capture'.reason = event.what
                                    /\ capture'.generations = capture.generations
           /\ event.type \in {"data", "diagnostic"} =>
                 /\ capture'.open = capture.open /\ capture'.reason = capture.reason
                 /\ capture'.generations = capture.generations
           /\ event.type = "diagnostic" =>
                 /\ event.what \in Codes /\ said'[event.what] = said[event.what] + 1
                 /\ \A c \in Codes \ {event.what} : said'[c] = said[c]
           /\ event.type # "diagnostic" => said' = said
           /\ event.type \in {"start", "end", "data", "diagnostic"}
<1>1. /\ event.type \in {"start", "end", "data", "diagnostic"}
      /\ event.type = "diagnostic" => event.what \in Codes
      /\ event.type = "end" => event.what \in Reasons
  BY SessionAssumption, CodesAre DEF AnEvent, Frames
<1>2. capture.frames + 1 \in 0 .. MaxFrames /\ (~end => capture.frames + 1 + EndFrames <= MaxFrames)
  <2>1. capture.frames \in Nat /\ MaxFrames \in Nat /\ EndFrames = 5
    BY SessionAssumption DEF ACapture, EndFrames
  <2>2. CASE end = TRUE
    BY <2>1, <2>2 DEF Refused
  <2>3. CASE end = FALSE
    BY <2>1, <2>3 DEF Refused
  <2>4. QED
    BY <2>2, <2>3
<1> DEFINE o == CASE event.type = "start" -> TRUE
                  [] event.type = "end"   -> FALSE
                  [] OTHER                -> capture.open
           g == IF event.type = "start" THEN capture.generations + 1 ELSE capture.generations
           r == CASE event.type = "start" -> None
                  [] event.type = "end"   -> event.what
                  [] OTHER                -> capture.reason
<1>3. capture' = [capture EXCEPT !.frames = @ + 1, !.open = o, !.generations = g, !.reason = r]
  BY DEF Written
<1>4. /\ o \in BOOLEAN /\ g \in Nat /\ r \in Reasons \cup {None}
      /\ event.type = "start" => o /\ g = capture.generations + 1
      /\ event.type = "end" => ~o /\ r = event.what /\ g = capture.generations
      /\ event.type \in {"data", "diagnostic"} =>
            o = capture.open /\ r = capture.reason /\ g = capture.generations
  <2>1. CASE event.type = "start"
    <3>1. o = TRUE /\ g = capture.generations + 1 /\ r = None
      BY <2>1
    <3>2. QED
      BY <2>1, <3>1 DEF ACapture
  <2>2. CASE event.type = "end"
    <3>1. o = FALSE /\ g = capture.generations /\ r = event.what
      BY <2>2
    <3>2. QED
      BY <1>1, <2>2, <3>1 DEF ACapture
  <2>3. CASE event.type \in {"data", "diagnostic"}
    <3>1. o = capture.open /\ g = capture.generations /\ r = capture.reason
      BY <2>3
    <3>2. QED
      BY <2>3, <3>1 DEF ACapture
  <2>4. QED
    BY <1>1, <2>1, <2>2, <2>3
<1> HIDE DEF o, g, r
<1>5. /\ capture' \in ACapture /\ capture'.frames = capture.frames + 1
      /\ capture'.footer = capture.footer /\ capture'.open = o /\ capture'.generations = g
      /\ capture'.reason = r
  BY <1>2, <1>3, <1>4 DEF ACapture
<1>6. CASE event.type = "diagnostic"
  <2>1. said' = [said EXCEPT ![event.what] = @ + 1]
    BY <1>6 DEF Written
  <2>2. QED
    BY <1>1, <1>2, <1>4, <1>5, <1>6, <2>1
<1>7. CASE event.type # "diagnostic"
  <2>1. said' = said
    BY <1>7 DEF Written
  <2>2. QED
    BY <1>1, <1>2, <1>4, <1>5, <1>7, <2>1
<1>8. QED
  BY <1>6, <1>7

-----------------------------------------------------------------------------
\* The steps of a life.

\* What a step that takes no frame makes of a life and of the session's code.
Lives ==
    /\ phase = "worker" /\ InSession
    /\ worker' \in Life /\ worker'.joined = worker.joined
    /\ Sound(worker'.conditions, failure') /\ failure' \in Codes \cup {None}
    /\ failure # None => failure' = failure
    /\ \/ broken' = "io"
       \/ broken' = broken /\ failure' = failure /\ worker'.conditions = worker.conditions
       \/ /\ broken' = broken
          /\ \E code \in WorkerCodes \cup {"TIMEOUT"} :
                /\ code = "TIMEOUT" => worker.conditions = <<>>
                /\ worker'.conditions = Noted(worker.conditions, code, "host")
                /\ failure' = Raised(code)

\* The clocks and channels of a life alone.
LEMMA LifeGoesOn ==
    ASSUME Typed, Recorded, phase = "worker", InSession, failure' = failure, broken' = broken,
           worker' \in Life, worker'.joined = worker.joined, worker'.conditions = worker.conditions
    PROVE  Lives
BY DEF Lives, Typed, TypeOK, Recorded

\* A condition of the host, or one it hears of.
LEMMA LifeNotes ==
    ASSUME Typed, Recorded, phase = "worker", InSession, broken' = broken,
           NEW code \in WorkerCodes \cup {"TIMEOUT"}, code = "TIMEOUT" => worker.conditions = <<>>,
           worker' \in Life, worker'.joined = worker.joined, failure' = Raised(code),
           worker'.conditions = Noted(worker.conditions, code, "host")
    PROVE  Lives
<1>1. worker.conditions \in Seq(ACondition) /\ failure \in Codes \cup {None}
  BY DEF Typed, TypeOK, Life, ACondition
<1>2. code \in Codes /\ "host" \in Origins
  BY CodesAre DEF Origins
<1>3. /\ Sound(worker'.conditions, failure') /\ failure' \in Codes \cup {None}
      /\ failure # None => failure' = failure
  BY <1>1, <1>2, NotedSound DEF Recorded
<1>4. QED
  BY <1>3 DEF Lives

LEMMA HostNotes ==
    ASSUME Typed, Recorded, phase = "worker", InSession, broken' = broken,
           NEW code \in WorkerCodes \cup {"TIMEOUT"}, code = "TIMEOUT" => worker.conditions = <<>>,
           NEW kill \in BOOLEAN, NEW drain \in BOOLEAN,
           Establish(worker, code, "host", kill, drain)
    PROVE  Lives
<1>1. worker \in Life /\ failure \in Codes \cup {None} /\ Sound(worker.conditions, failure)
  BY DEF Typed, TypeOK, Recorded
<1>2. code \in Codes /\ "host" \in Origins
  BY CodesAre DEF Origins
<1>3. /\ worker' \in Life /\ worker'.joined = worker.joined /\ failure' = Raised(code)
      /\ worker'.conditions = Noted(worker.conditions, code, "host")
  BY <1>1, <1>2, Establishing
<1>4. QED
  BY <1>3, LifeNotes

LEMMA MarkedByHost ==
    ASSUME NEW conditions \in Seq(ACondition), NEW code \in Codes
    PROVE  Marked(conditions, code, "host") = conditions
<1>1. Marked(conditions, code, "host") = [n \in 1 .. Len(conditions) |-> conditions[n]]
  BY DEF Marked
<1>2. QED
  BY <1>1

LEMMA ClockLives ==
    ASSUME Typed, Recorded, Clock
    PROVE  Lives
<1> USE DEF Supervised
<1>1. worker \in Life /\ failure \in Codes \cup {None} /\ Sound(worker.conditions, failure)
  BY DEF Typed, TypeOK, Recorded
<1>2. CASE Deadline
  <2>1. phase = "worker" /\ InSession /\ broken' = broken
    BY <1>2 DEF Deadline
  <2>2. CASE worker.conditions = <<>>
    <3>1. Establish(worker, "TIMEOUT", "host", TRUE, TRUE)
      BY <1>2, <2>2 DEF Deadline
    <3>2. QED
      BY <2>1, <2>2, <3>1, HostNotes
  <2>3. CASE worker.conditions # <<>>
    <3>1. worker' = [worker EXCEPT !.killed = TRUE, !.forced = @ \/ Forced] /\ failure' = failure
      BY <1>2, <2>3 DEF Deadline
    <3>2. Forced \in BOOLEAN
      BY DEF Forced
    <3>3. /\ worker' \in Life /\ worker'.joined = worker.joined
          /\ worker'.conditions = worker.conditions
      BY <1>1, <3>1, <3>2 DEF Life
    <3>4. QED
      BY <2>1, <3>1, <3>3, LifeGoesOn
  <2>4. QED
    BY <2>2, <2>3
<1>3. CASE KillAt
  <2>1. phase = "worker" /\ InSession /\ broken' = broken /\ failure' = failure
    BY <1>3 DEF KillAt
  <2>2. worker' = [worker EXCEPT !.killed = TRUE, !.forced = @ \/ Forced]
    BY <1>3 DEF KillAt
  <2>3. Forced \in BOOLEAN
    BY DEF Forced
  <2>4. /\ worker' \in Life /\ worker'.joined = worker.joined
        /\ worker'.conditions = worker.conditions
    BY <1>1, <2>2, <2>3 DEF Life
  <2>5. QED
    BY <2>1, <2>4, LifeGoesOn
<1>4. CASE Silence
  <2>1. phase = "worker" /\ InSession /\ broken' = broken /\ failure' = failure
    BY <1>4 DEF Silence
  <2>2. worker' = [worker EXCEPT !.killed = TRUE, !.silent = TRUE]
    BY <1>4 DEF Silence
  <2>3. /\ worker' \in Life /\ worker'.joined = worker.joined
        /\ worker'.conditions = worker.conditions
    BY <1>1, <2>2 DEF Life
  <2>4. QED
    BY <2>1, <2>3, LifeGoesOn
<1>5. CASE Oversized
  <2>1. /\ phase = "worker" /\ InSession /\ broken' = broken
        /\ Establish(worker, "LIMIT", "host", TRUE, TRUE)
    BY <1>5 DEF Oversized
  <2>2. "LIMIT" \in WorkerCodes
    BY DEF WorkerCodes
  <2>3. QED
    BY <2>1, <2>2, HostNotes
<1>6. CASE SyncBreaks
  <2>1. phase = "worker" /\ InSession /\ broken' = "io" /\ CaptureBroken(worker)
    BY <1>6 DEF SyncBreaks
  <2>2. /\ worker' \in Life /\ worker'.joined = worker.joined
        /\ failure' \in Codes /\ Sound(worker'.conditions, failure')
    BY <1>1, <2>1, Breaking
  <2>3. failure # None => failure' = failure
    BY <2>1 DEF CaptureBroken, Terminal
  <2>4. QED
    BY <2>1, <2>2, <2>3 DEF Lives
<1>7. CASE DrainEnds
  <2>1. phase = "worker" /\ InSession /\ broken' = broken /\ failure' = failure
    BY <1>7 DEF DrainEnds
  <2>2. worker' = [worker EXCEPT !.accepting = None]
    BY <1>7 DEF DrainEnds
  <2>3. /\ worker' \in Life /\ worker'.joined = worker.joined
        /\ worker'.conditions = worker.conditions
    BY <1>1, <2>2 DEF Life
  <2>4. QED
    BY <2>1, <2>3, LifeGoesOn
<1>8. QED
  BY <1>2, <1>3, <1>4, <1>5, <1>6, <1>7 DEF Clock

LEMMA ChannelLives ==
    ASSUME Typed, Recorded, StageLine \/ BadStatus \/ FailureLine \/ BadFrame \/ Exit \/ Close
    PROVE  Lives
<1>1. /\ worker \in Life /\ failure \in Codes \cup {None} /\ Sound(worker.conditions, failure)
      /\ worker.conditions \in Seq(ACondition)
  BY DEF Typed, TypeOK, Recorded, Life, ACondition
<1>2. CASE StageLine
  <2>1. phase = "worker" /\ InSession /\ broken' = broken /\ failure' = failure
    BY <1>2 DEF StageLine
  <2>2. worker' = [worker EXCEPT !.pending = ~@, !.seen = @ \/ worker.conditions = <<>>]
    BY <1>2 DEF StageLine
  <2>3. /\ worker' \in Life /\ worker'.joined = worker.joined
        /\ worker'.conditions = worker.conditions
    BY <1>1, <2>2 DEF Life
  <2>4. QED
    BY <2>1, <2>3, LifeGoesOn
<1>3. CASE BadStatus
  <2>1. /\ phase = "worker" /\ InSession /\ broken' = broken
        /\ Establish(worker, "SCHEMA", "host", TRUE, TRUE)
    BY <1>3 DEF BadStatus
  <2>2. "SCHEMA" \in WorkerCodes
    BY DEF WorkerCodes
  <2>3. QED
    BY <2>1, <2>2, HostNotes
<1>4. CASE FailureLine
  <2> DEFINE w == [worker EXCEPT !.seen = @ \/ worker.conditions = <<>>]
  <2>1. phase = "worker" /\ InSession /\ broken' = broken
    BY <1>4 DEF FailureLine
  <2>2. PICK code \in Reported : Report(w, code, "host")
    BY <1>4 DEF FailureLine
  <2>3. code \in WorkerCodes /\ code \in Codes
    BY SessionAssumption, CodesAre
  <2>4. w \in Life /\ w.conditions = worker.conditions /\ w.joined = worker.joined
    BY <1>1 DEF Life
  <2> HIDE DEF w
  <2>5. /\ worker' \in Life /\ worker'.joined = w.joined
        /\ \/ /\ failure' = failure /\ worker'.conditions = Marked(w.conditions, code, "host")
           \/ /\ failure' = Raised(code) /\ worker'.conditions = Noted(w.conditions, code, "host")
    BY <1>1, <2>2, <2>3, <2>4, Reporting
  <2>6. Marked(worker.conditions, code, "host") = worker.conditions
    BY <1>1, <2>3, MarkedByHost
  <2>7. code # "TIMEOUT"
    BY <2>3, CodesAre
  <2>8. CASE failure' = failure /\ worker'.conditions = worker.conditions
    BY <2>1, <2>4, <2>5, <2>8, LifeGoesOn
  <2>9. CASE failure' = Raised(code) /\ worker'.conditions = Noted(worker.conditions, code, "host")
    BY <2>1, <2>3, <2>4, <2>5, <2>7, <2>9, LifeNotes
  <2>10. QED
    BY <2>4, <2>5, <2>6, <2>8, <2>9
<1>5. CASE BadFrame
  <2>1. phase = "worker" /\ InSession /\ broken' = broken
    BY <1>5 DEF BadFrame, FrameArrives
  <2>2. PICK code \in {"LIMIT", "SCHEMA"} : Establish(worker, code, "host", TRUE, FALSE)
    BY <1>5 DEF BadFrame, HostFault
  <2>3. code \in WorkerCodes /\ code # "TIMEOUT"
    BY DEF WorkerCodes
  <2>4. QED
    BY <2>1, <2>2, <2>3, HostNotes
<1>6. CASE Exit
  <2>1. phase = "worker" /\ InSession /\ broken' = broken /\ failure' = failure
    BY <1>6 DEF Exit
  <2>2. PICK code \in {"clean", "unclean"} : worker' = [worker EXCEPT !.exit = code]
    BY <1>6 DEF Exit
  <2>3. /\ worker' \in Life /\ worker'.joined = worker.joined
        /\ worker'.conditions = worker.conditions
    BY <1>1, <2>2 DEF Life
  <2>4. QED
    BY <2>1, <2>3, LifeGoesOn
<1>7. CASE Close
  <2>1. phase = "worker" /\ InSession /\ broken' = broken /\ failure' = failure
    BY <1>7 DEF Close
  <2>2. PICK channel \in worker.channels, partial \in BOOLEAN :
           worker' = [worker EXCEPT !.channels = @ \ {channel}, !.partial = @ \/ partial]
    BY <1>7 DEF Close
  <2>3. /\ worker' \in Life /\ worker'.joined = worker.joined
        /\ worker'.conditions = worker.conditions
    BY <1>1, <2>2 DEF Life
  <2>4. QED
    BY <2>1, <2>3, LifeGoesOn
<1>8. QED
  BY <1>2, <1>3, <1>4, <1>5, <1>6, <1>7

\* What a frame of the worker, once it is in the capture, makes of a life.
Heard(event) ==
    \/ /\ outputs' # "ok" /\ worker.conditions = <<>>
       /\ worker'.conditions = Noted(worker.conditions, "IO", "host") /\ failure' = Raised("IO")
    \/ /\ event.type = "diagnostic" /\ (outputs' = "ok" \/ worker.conditions # <<>>)
       /\ event.what \in CodesOf(worker.conditions) /\ failure' = failure
       /\ worker'.conditions = Marked(worker.conditions, event.what, "worker")
    \/ /\ event.type = "diagnostic" /\ (outputs' = "ok" \/ worker.conditions # <<>>)
       /\ event.what \notin CodesOf(worker.conditions) /\ failure' = Raised(event.what)
       /\ worker'.conditions = Noted(worker.conditions, event.what, "worker")
    \/ /\ event.type # "diagnostic"
       /\ worker'.conditions = worker.conditions /\ failure' = failure
    \/ /\ event.type = "data"
       /\ \E code \in {"LIMIT", "SCHEMA"} :
             /\ worker'.conditions = Noted(worker.conditions, code, None)
             /\ failure' = Raised(code)

FrameTaken(event) ==
    /\ phase = "worker" /\ broken = "no"
    /\ UNCHANGED <<phase, stop, lastConn, todo, ending>>
    /\ event \in Frames /\ Allowed(event) /\ ~Refused(FALSE)
    /\ worker' \in Life /\ failure' \in Codes \cup {None}
    /\ Sound(worker'.conditions, failure')
    /\ failure # None => failure' = failure
    /\ retries' \in {0, retries}
    /\ \/ broken' = "io" /\ outputs' = outputs /\ (Written(event) \/ UNCHANGED <<capture, said>>)
       \/ /\ broken' = "no" /\ Written(event)
          /\ outputs' \in OutputsAfter
          /\ worker'.joined = (worker.joined \/ event.type = "start")
          /\ Heard(event)

LEMMA FrameLives ==
    ASSUME Typed, Recorded, GoodFrame
    PROVE  Lives \/ \E event \in Frames : FrameTaken(event)
<1>1. /\ worker \in Life /\ failure \in Codes \cup {None} /\ Sound(worker.conditions, failure)
      /\ worker.conditions \in Seq(ACondition) /\ retries \in 0 .. Retries
  BY DEF Typed, TypeOK, Recorded, Life, ACondition
<1>2. /\ phase = "worker" /\ broken = "no" /\ UNCHANGED <<phase, stop, lastConn, todo, ending>>
  BY DEF GoodFrame, FrameArrives
<1> DEFINE Limited == /\ Refused(FALSE)
                      /\ HostFault(worker, "LIMIT", "host")
                      /\ UNCHANGED <<retries, capture, broken, outputs, said>>
           Breaks(event) == /\ ~Refused(FALSE)
                            /\ WriteBreaks(event)
                            /\ CaptureBroken(worker)
                            /\ UNCHANGED <<retries, outputs>>
           Takes(event) ==
              /\ ~Refused(FALSE)
              /\ Written(event)
              /\ outputs' \in OutputsAfter
              /\ retries' = IF event.type = "start" THEN 0 ELSE retries
              /\ UNCHANGED broken
           Faults1(event) ==
              /\ outputs' # "ok" /\ worker.conditions = <<>>
              /\ HostFault(Joined(event), "IO", "host")
           Reports(event) ==
              /\ outputs' = "ok" \/ worker.conditions # <<>>
              /\ event.type = "diagnostic" /\ Report(worker, event.what, "worker")
           Keeps(event) ==
              event.type # "diagnostic" /\ worker' = Joined(event) /\ UNCHANGED failure
           Refuses(event) ==
              /\ event.type = "data"
              /\ \E code \in {"LIMIT", "SCHEMA"} : HostFault(worker, code, None)
<1>3. PICK event \in Frames :
         /\ Allowed(event)
         /\ \/ Limited
            \/ Breaks(event)
            \/ Takes(event) /\ (Faults1(event) \/ Reports(event) \/ Keeps(event) \/ Refuses(event))
  BY DEF GoodFrame
<1>4. /\ event.type \in {"start", "data", "diagnostic"}
      /\ event.type = "diagnostic" => event.what \in Reported
  BY DEF Frames
<1>5. CASE Limited
  <2>1. InSession /\ broken' = broken /\ Establish(worker, "LIMIT", "host", TRUE, FALSE)
    BY <1>2, <1>5 DEF HostFault, InSession
  <2>2. "LIMIT" \in WorkerCodes
    BY DEF WorkerCodes
  <2>3. QED
    BY <1>2, <2>1, <2>2, HostNotes
<1>6. CASE Breaks(event)
  <2>1. /\ worker' \in Life /\ failure' \in Codes /\ Sound(worker'.conditions, failure')
        /\ failure # None => failure' = failure
    <3>1. CaptureBroken(worker)
      BY <1>6
    <3>2. failure # None => failure' = failure
      BY <3>1 DEF CaptureBroken, Terminal
    <3>3. QED
      BY <1>1, <3>1, <3>2, Breaking
  <2>2. /\ broken' = "io" /\ outputs' = outputs /\ (Written(event) \/ UNCHANGED <<capture, said>>)
        /\ retries' = retries /\ ~Refused(FALSE)
    BY <1>6 DEF WriteBreaks
  <2>3. FrameTaken(event)
    BY <1>2, <1>3, <2>1, <2>2 DEF FrameTaken
  <2>4. QED
    BY <2>3
<1>7. CASE Takes(event) /\ (Faults1(event) \/ Reports(event) \/ Keeps(event) \/ Refuses(event))
  <2>1. /\ Joined(event) \in Life /\ Joined(event).conditions = worker.conditions
        /\ Joined(event).joined = (worker.joined \/ event.type = "start")
    BY <1>1 DEF Joined, Life
  <2> DEFINE Result ==
         /\ worker' \in Life /\ failure' \in Codes \cup {None} /\ Sound(worker'.conditions, failure')
         /\ failure # None => failure' = failure
         /\ worker'.joined = (worker.joined \/ event.type = "start") /\ Heard(event)
  <2>2. ASSUME Faults1(event) PROVE Result
    <3> DEFINE w == Joined(event)
    <3>1. Establish(w, "IO", "host", TRUE, FALSE) /\ w \in Life
      BY <2>1, <2>2 DEF HostFault
    <3>2. "IO" \in Codes /\ "host" \in Origins
      BY CodesAre DEF Origins
    <3>3. w.conditions = worker.conditions /\ w.joined = (worker.joined \/ event.type = "start")
      BY <2>1
    <3> HIDE DEF w
    <3>4. Sound(w.conditions, failure) /\ w.conditions \in Seq(ACondition)
      BY <1>1, <3>3
    <3>5. /\ worker' \in Life /\ worker'.joined = w.joined
          /\ worker'.conditions = Noted(w.conditions, "IO", "host") /\ failure' = Raised("IO")
      BY <1>1, <3>1, <3>2, <3>4, Establishing
    <3>6. /\ failure' \in Codes \cup {None} /\ Sound(worker'.conditions, failure')
          /\ failure # None => failure' = failure
      BY <1>1, <3>2, <3>4, <3>5, NotedSound
    <3>7. Heard(event)
      BY <2>2, <3>3, <3>5 DEF Heard
    <3>8. QED
      BY <3>3, <3>5, <3>6, <3>7
  <2>3. ASSUME Reports(event) PROVE Result
    <3>1. event.what \in Codes /\ "worker" \in Origins /\ event.type # "start"
      BY <1>4, <2>3, SessionAssumption, CodesAre DEF Origins
    <3>2. /\ worker' \in Life /\ worker'.joined = worker.joined
          /\ \/ /\ event.what \in CodesOf(worker.conditions) /\ failure' = failure
                /\ worker'.conditions = Marked(worker.conditions, event.what, "worker")
             \/ /\ event.what \notin CodesOf(worker.conditions) /\ failure' = Raised(event.what)
                /\ worker'.conditions = Noted(worker.conditions, event.what, "worker")
      BY <1>1, <2>3, <3>1, Reporting
    <3>3. /\ failure' \in Codes \cup {None} /\ Sound(worker'.conditions, failure')
          /\ failure # None => failure' = failure
      <4>1. CASE failure' = failure /\ worker'.conditions = Marked(worker.conditions, event.what, "worker")
        BY <1>1, <3>1, <4>1, MarkedSound
      <4>2. CASE failure' = Raised(event.what)
                 /\ worker'.conditions = Noted(worker.conditions, event.what, "worker")
        BY <1>1, <3>1, <4>2, NotedSound
      <4>3. QED
        BY <3>2, <4>1, <4>2
    <3>4. Heard(event)
      BY <2>3, <3>2 DEF Heard
    <3>5. worker.joined \in BOOLEAN
      BY <1>1 DEF Life
    <3>6. QED
      BY <3>1, <3>2, <3>3, <3>4, <3>5
  <2>4. ASSUME Keeps(event) PROVE Result
    <3>1. worker'.conditions = worker.conditions /\ failure' = failure /\ event.type # "diagnostic"
      BY <2>1, <2>4
    <3>2. Heard(event)
      BY <3>1 DEF Heard
    <3>3. QED
      BY <1>1, <2>1, <2>4, <3>1, <3>2
  <2>5. ASSUME Refuses(event) PROVE Result
    <3>1. PICK code \in {"LIMIT", "SCHEMA"} : Establish(worker, code, None, TRUE, FALSE)
      BY <2>5 DEF HostFault
    <3>2. code \in Codes /\ None \in Origins
      BY CodesAre DEF Origins
    <3>3. /\ worker' \in Life /\ worker'.joined = worker.joined
          /\ worker'.conditions = Noted(worker.conditions, code, None) /\ failure' = Raised(code)
      BY <1>1, <3>1, <3>2, Establishing
    <3>4. /\ failure' \in Codes \cup {None} /\ Sound(worker'.conditions, failure')
          /\ failure # None => failure' = failure
      BY <1>1, <3>2, <3>3, NotedSound
    <3>5. Heard(event)
      BY <2>5, <3>3 DEF Heard
    <3>6. event.type # "start" /\ worker.joined \in BOOLEAN
      BY <1>1, <2>5 DEF Life
    <3>7. QED
      BY <3>3, <3>4, <3>5, <3>6
  <2>6. Result
    BY <1>7, <2>2, <2>3, <2>4, <2>5
  <2>7. retries' \in {0, retries} /\ broken' = "no"
    BY <1>2, <1>7
  <2> HIDE DEF Faults1, Reports, Keeps, Refuses
  <2>8. Written(event) /\ outputs' \in OutputsAfter /\ ~Refused(FALSE)
    BY <1>7
  <2>9. FrameTaken(event)
    BY <1>2, <1>3, <2>6, <2>7, <2>8 DEF FrameTaken
  <2>10. QED
    BY <2>9
<1>8. QED
  BY <1>3, <1>5, <1>6, <1>7

\* A step of a life takes a frame of the worker or leaves the capture alone.
LEMMA LifeSteps ==
    ASSUME Typed, Recorded, Line \/ Clock \/ Exit \/ Close
    PROVE  Lives \/ \E event \in Frames : FrameTaken(event)
BY ClockLives, ChannelLives, FrameLives DEF Line

-----------------------------------------------------------------------------
\* The events a life leaves.

ADiagnostic == [type: {"diagnostic"}, what: Codes]

\* What the recursive function of HostWrites is, and that there is one.
Collects(conditions, events) ==
    events = [n \in 0 .. Len(conditions) |->
                IF n = 0 THEN <<>>
                ELSE IF conditions[n].written = "host"
                  THEN Append(events[n - 1], Event("diagnostic", conditions[n].code))
                ELSE events[n - 1]]

LEMMA HostWritten ==
    ASSUME NEW conditions \in Seq(ACondition), Len(conditions) <= 2
    PROVE  LET first == IF conditions[1].written = "host"
                          THEN <<Event("diagnostic", conditions[1].code)>> ELSE <<>>
           IN  /\ Len(conditions) = 0 => HostWrites(conditions) = <<>>
               /\ Len(conditions) = 1 => HostWrites(conditions) = first
               /\ Len(conditions) = 2 =>
                     HostWrites(conditions) = IF conditions[2].written = "host"
                                                THEN Append(first, Event("diagnostic", conditions[2].code))
                                                ELSE first
<1> DEFINE L == Len(conditions)
           e(n) == Event("diagnostic", conditions[n].code)
           first == IF conditions[1].written = "host" THEN <<e(1)>> ELSE <<>>
           second == IF conditions[2].written = "host" THEN Append(first, e(2)) ELSE first
           f == [n \in 0 .. L |-> IF n = 0 THEN <<>> ELSE IF n = 1 THEN first ELSE second]
<1>1. L \in 0 .. 2
  <2>1. L \in Nat /\ L <= 2
    OBVIOUS
  <2> HIDE DEF L
  <2>2. QED
    BY <2>1
<1>2. Append(<<>>, e(1)) = <<e(1)>>
  OBVIOUS
<1>3. Collects(conditions, f)
  <2>1. ASSUME NEW n \in 0 .. L
        PROVE  f[n] = IF n = 0 THEN <<>>
                      ELSE IF conditions[n].written = "host" THEN Append(f[n - 1], e(n))
                      ELSE f[n - 1]
    <3>1. CASE n = 0
      BY <3>1
    <3>2. CASE n = 1
      <4>1. f[n] = first /\ f[n - 1] = <<>>
        BY <1>1, <3>2
      <4>2. QED
        BY <1>2, <3>2, <4>1
    <3>3. CASE n = 2
      <4>1. f[n] = second /\ f[n - 1] = first
        BY <1>1, <3>3
      <4>2. QED
        BY <3>3, <4>1
    <3>4. QED
      BY <1>1, <3>1, <3>2, <3>3
  <2> HIDE DEF f
  <2>2. f = [n \in 0 .. L |-> f[n]]
    BY DEF f
  <2>3. QED
    BY <2>1, <2>2 DEF Collects
<1> DEFINE g == CHOOSE h : Collects(conditions, h)
<1>4. Collects(conditions, g)
  BY <1>3
<1>5. HostWrites(conditions) = g[L]
  BY DEF HostWrites, Collects
<1> HIDE DEF g, f
<1>6. \A n \in 0 .. L : g[n] = IF n = 0 THEN <<>>
                             ELSE IF conditions[n].written = "host" THEN Append(g[n - 1], e(n))
                             ELSE g[n - 1]
  BY <1>4 DEF Collects
<1>7. g[0] = <<>>
  BY <1>1, <1>6
<1> HIDE DEF e
<1>8. ASSUME L >= 1 PROVE g[1] = first
  <2>1. 1 \in 0 .. L /\ 1 - 1 = 0 /\ 1 # 0
    BY <1>1, <1>8
  <2>2. g[1] = IF conditions[1].written = "host" THEN Append(g[0], e(1)) ELSE g[0]
    BY <1>6, <2>1
  <2>3. QED
    BY <1>2, <1>7, <2>2
<1>9. L = 2 => g[2] = second
  BY <1>1, <1>6, <1>8
<1>10. QED
  <2>1. HostWrites(conditions) = IF L = 0 THEN <<>> ELSE IF L = 1 THEN first ELSE second
    BY <1>1, <1>5, <1>7, <1>8, <1>9
  <2> HIDE DEF L
  <2>2. QED
    BY <2>1 DEF e, L

\* One sequence after the other.
Joins(s, t) ==
    /\ Len(s \o t) = Len(s) + Len(t)
    /\ \A i \in Indices(s) : i \in Indices(s \o t) /\ (s \o t)[i] = s[i]
    /\ \A j \in Indices(t) : Len(s) + j \in Indices(s \o t) /\ (s \o t)[Len(s) + j] = t[j]
    /\ \A i \in Indices(s \o t) : i \in Indices(s) \/ \E j \in Indices(t) : i = Len(s) + j

LEMMA Concatenated ==
    ASSUME NEW S, NEW s \in Seq(S), NEW t \in Seq(S)
    PROVE  s \o t \in Seq(S) /\ Joins(s, t)
<1>1. Len(s) \in Nat /\ Len(t) \in Nat /\ s \o t \in Seq(S) /\ Len(s \o t) = Len(s) + Len(t)
  OBVIOUS
<1>2. \A i \in Indices(s) : i \in Indices(s \o t) /\ (s \o t)[i] = s[i]
  BY <1>1 DEF Indices
<1>3. \A j \in Indices(t) : Len(s) + j \in Indices(s \o t) /\ (s \o t)[Len(s) + j] = t[j]
  BY <1>1 DEF Indices
<1>4. ASSUME NEW i \in Indices(s \o t), i \notin Indices(s)
      PROVE  \E j \in Indices(t) : i = Len(s) + j
  <2>1. i - Len(s) \in Indices(t) /\ i = Len(s) + (i - Len(s))
    BY <1>1, <1>4 DEF Indices
  <2>2. QED
    BY <2>1
<1>5. QED
  BY <1>1, <1>2, <1>3, <1>4 DEF Joins

\* The diagnostics of the host: one for each condition it has to tell, of its code.
LEMMA HostWritesEach ==
    ASSUME NEW conditions \in Seq(ACondition), Len(conditions) <= 2,
           \A m, n \in Indices(conditions) : conditions[m].code = conditions[n].code => m = n
    PROVE  LET events == HostWrites(conditions)
           IN  /\ events \in Seq(ADiagnostic) /\ Len(events) <= Len(conditions)
               /\ \A m, n \in Indices(events) : events[m].what = events[n].what => m = n
               /\ \A n \in Indices(events) : \E m \in Indices(conditions) :
                     conditions[m].written = "host" /\ conditions[m].code = events[n].what
               /\ \A m \in Indices(conditions) : conditions[m].written = "host" =>
                     \E n \in Indices(events) : events[n].what = conditions[m].code
<1> DEFINE L == Len(conditions)
           e(n) == Event("diagnostic", conditions[n].code)
           first == IF conditions[1].written = "host" THEN <<e(1)>> ELSE <<>>
           events == HostWrites(conditions)
<1>1. L \in 0 .. 2 /\ \A n \in Indices(conditions) : conditions[n].code \in Codes
  <2>1. L \in Nat /\ L <= 2
    OBVIOUS
  <2>2. \A n \in Indices(conditions) : conditions[n].code \in Codes
    BY Indexed
  <2> HIDE DEF L
  <2>3. QED
    BY <2>1, <2>2
<1>2. ASSUME NEW n \in Indices(conditions)
      PROVE  e(n) \in ADiagnostic /\ e(n).what = conditions[n].code
  BY <1>1 DEF Event, ADiagnostic
<1>3. CASE L = 0
  <2>1. events = <<>>
    BY <1>3, HostWritten
  <2>11. Indices(conditions) = {}
    BY <1>3 DEF Indices
  <2>2. QED
    BY <2>1, <2>11, <1>3 DEF Indices
<1>4. CASE L = 1
  <2>1. events = first
    BY <1>4, HostWritten
  <2>11. Indices(conditions) = {1}
    BY <1>4 DEF Indices
  <2>2. CASE conditions[1].written = "host"
    <3>1. events = <<e(1)>> /\ Len(events) = 1 /\ events[1] = e(1)
      BY <2>1, <2>2
    <3>2. QED
      BY <1>2, <1>4, <2>11, <2>2, <3>1 DEF Indices
  <2>3. CASE conditions[1].written # "host"
    BY <1>4, <2>1, <2>11, <2>3 DEF Indices
  <2>4. QED
    BY <2>2, <2>3
<1>5. CASE L = 2
  <2>1. Indices(conditions) = {1, 2} /\ conditions[1].code # conditions[2].code
    BY <1>5 DEF Indices
  <2>2. events = IF conditions[2].written = "host" THEN Append(first, e(2)) ELSE first
    BY <1>5, HostWritten
  <2>3. /\ e(1) \in ADiagnostic /\ e(1).what = conditions[1].code
        /\ e(2) \in ADiagnostic /\ e(2).what = conditions[2].code
    BY <1>2, <2>1
  <2> HIDE DEF e
  <2>4. CASE conditions[1].written = "host" /\ conditions[2].written = "host"
    <3>1. events = Append(<<e(1)>>, e(2))
      BY <2>2, <2>4
    <3>2. Len(events) = 2 /\ events[1] = e(1) /\ events[2] = e(2) /\ events \in Seq(ADiagnostic)
      BY <2>3, <3>1
    <3> HIDE DEF events
    <3>3. Indices(events) = {1, 2}
      BY <3>2 DEF Indices
    <3>4. QED
      BY <1>5, <2>1, <2>3, <2>4, <3>2, <3>3 DEF events
  <2>5. CASE conditions[1].written = "host" /\ conditions[2].written # "host"
    <3>1. events = <<e(1)>>
      BY <2>2, <2>5
    <3>2. Len(events) = 1 /\ events[1] = e(1) /\ events \in Seq(ADiagnostic)
      BY <2>3, <3>1
    <3> HIDE DEF events
    <3>3. Indices(events) = {1}
      BY <3>2 DEF Indices
    <3>4. QED
      BY <1>5, <2>1, <2>3, <2>5, <3>2, <3>3 DEF events
  <2>6. CASE conditions[1].written # "host" /\ conditions[2].written = "host"
    <3>1. events = <<e(2)>>
      BY <2>2, <2>6
    <3>2. Len(events) = 1 /\ events[1] = e(2) /\ events \in Seq(ADiagnostic)
      BY <2>3, <3>1
    <3> HIDE DEF events
    <3>3. Indices(events) = {1}
      BY <3>2 DEF Indices
    <3>4. QED
      BY <1>5, <2>1, <2>3, <2>6, <3>2, <3>3 DEF events
  <2>7. CASE conditions[1].written # "host" /\ conditions[2].written # "host"
    <3>1. events = <<>>
      BY <2>2, <2>7
    <3>2. QED
      BY <1>5, <2>1, <2>7, <3>1 DEF Indices
  <2>8. QED
    BY <2>4, <2>5, <2>6, <2>7
<1>6. QED
  BY <1>1, <1>3, <1>4, <1>5

LEMMA ReasonIs ==
    ASSUME NEW code \in Codes \cup {None}
    PROVE  Reason(code) \in Reasons
BY DEF Reason, Reasons

\* What the events after a life are: diagnostics, each once, and the end of a generation that is open.
Closes(events, diagnostics, open, reason) ==
    /\ events \in Seq(AnEvent)
    /\ Len(events) = Len(diagnostics) + IF open THEN 1 ELSE 0
    /\ open => events # <<>> /\ events[Len(events)] = Event("end", reason)
    /\ open <=> EndIsLast(events)
    /\ \A n \in Indices(events) : events[n].type = "end" => n = Len(events)
    /\ \A code : Tells(events, code) <=> \E n \in Indices(diagnostics) : diagnostics[n].what = code
    /\ (\A m, n \in Indices(diagnostics) : diagnostics[m].what = diagnostics[n].what => m = n)
          => \A m, n \in Indices(events) : events[m] = events[n] => m = n

LEMMA Closing ==
    ASSUME NEW diagnostics \in Seq(ADiagnostic), NEW reason \in Reasons, NEW open \in BOOLEAN
    PROVE  Closes(diagnostics \o (IF open THEN <<Event("end", reason)>> ELSE <<>>),
                  diagnostics, open, reason)
<1> DEFINE d == diagnostics
           L == Len(d)
<1>1. /\ L \in Nat
      /\ \A n \in Indices(d) : /\ d[n] \in AnEvent /\ d[n] = Event("diagnostic", d[n].what)
                              /\ d[n].type = "diagnostic"
  <2>1. \A n \in Indices(d) : d[n] \in ADiagnostic
    BY DEF Indices
  <2>2. ASSUME NEW x \in ADiagnostic PROVE  /\ x \in AnEvent /\ x = Event("diagnostic", x.what)
                                             /\ x.type = "diagnostic"
    BY DEF ADiagnostic, AnEvent, Event
  <2>3. QED
    BY <2>1, <2>2
<1>2. \A code : (\E n \in Indices(d) : d[n] = Event("diagnostic", code))
                   <=> \E n \in Indices(d) : d[n].what = code
  BY <1>1 DEF Event
<1>3. \A n \in Indices(d) : d[n].type = "diagnostic"
  BY <1>1
<1>4. d \in Seq(AnEvent)
  BY <1>1 DEF Indices
<1>5. CASE open = FALSE
  <2>1. d \o <<>> = d
    BY <1>4
  <2>2. Closes(d, d, FALSE, reason)
    <3>1. ~EndIsLast(d)
      <4>1. ASSUME d # <<>> PROVE L \in Indices(d)
        BY <1>1, <4>1 DEF Indices
      <4>2. QED
        BY <1>3, <4>1 DEF EndIsLast
    <3>2. L = L + 0
      BY <1>1
    <3>3. \A n \in Indices(d) : d[n].type # "end"
      BY <1>3
    <3>4. \A m, n \in Indices(d) : d[m] = d[n] => d[m].what = d[n].what
      OBVIOUS
    <3>5. \A code : Tells(d, code) <=> \E n \in Indices(d) : d[n].what = code
      BY <1>2 DEF Tells
    <3> HIDE DEF d
    <3>6. QED
      BY <1>4, <3>1, <3>2, <3>3, <3>4, <3>5 DEF Closes
  <2>3. QED
    BY <1>5, <2>1, <2>2
<1>6. CASE open = TRUE
  <2> DEFINE e == Event("end", reason)
             s == d \o <<e>>
  <2>1. e \in AnEvent /\ e.type = "end" /\ \A code : e # Event("diagnostic", code)
    BY DEF Event, AnEvent
  <2>2. <<e>> \in Seq(AnEvent) /\ Len(<<e>>) = 1 /\ <<e>>[1] = e /\ Indices(<<e>>) = {1}
    BY <2>1 DEF Indices
  <2> HIDE DEF e
  <2>3. /\ s \in Seq(AnEvent) /\ Len(s) = L + 1
        /\ \A i \in Indices(d) : i \in Indices(s) /\ s[i] = d[i]
        /\ L + 1 \in Indices(s) /\ s[L + 1] = e
        /\ \A i \in Indices(s) : i \in Indices(d) \/ i = L + 1
    <3> DEFINE t == <<e>>
    <3>1. /\ t \in Seq(AnEvent) /\ Len(t) = 1 /\ t[1] = e /\ Indices(t) = {1}
      BY <2>2
    <3> HIDE DEF t
    <3>2. d \o t \in Seq(AnEvent) /\ Joins(d, t)
      BY <1>4, <3>1, Concatenated
    <3>3. s = d \o t
      BY DEF t
    <3> HIDE DEF s
    <3>4. QED
      BY <3>1, <3>2, <3>3 DEF Joins
  <2> HIDE DEF s
  <2>4. s # <<>> /\ s[Len(s)] = e /\ EndIsLast(s)
    <3>1. s # <<>>
      BY <1>1, <2>3
    <3>2. QED
      BY <2>1, <2>3, <3>1 DEF EndIsLast
  <2>5. \A n \in Indices(s) : s[n].type = "end" => n = Len(s)
    BY <1>3, <2>3
  <2>6. \A code : Tells(s, code) <=> \E n \in Indices(d) : d[n].what = code
    <3>1. \A code : Tells(s, code) <=> \E n \in Indices(d) : d[n] = Event("diagnostic", code)
      BY <2>1, <2>3 DEF Tells
    <3>2. QED
      BY <1>2, <3>1
  <2>7. ASSUME \A m, n \in Indices(d) : d[m].what = d[n].what => m = n
        PROVE  \A m, n \in Indices(s) : s[m] = s[n] => m = n
    <3>1. \A i \in Indices(d) : s[i] = d[i] /\ s[i].type = "diagnostic"
      BY <1>3, <2>3
    <3>2. s[L + 1].type = "end"
      BY <2>1, <2>3
    <3>3. SUFFICES ASSUME NEW m \in Indices(s), NEW n \in Indices(s), s[m] = s[n] PROVE m = n
      OBVIOUS
    <3>4. CASE m \in Indices(d) /\ n \in Indices(d)
      BY <2>7, <3>1, <3>3, <3>4
    <3>5. CASE m = L + 1 /\ n = L + 1
      BY <3>5
    <3>6. CASE (m \in Indices(d) /\ n = L + 1) \/ (m = L + 1 /\ n \in Indices(d))
      BY <3>1, <3>2, <3>3, <3>6
    <3>7. QED
      BY <2>3, <3>4, <3>5, <3>6
  <2> HIDE DEF d
  <2>8. Closes(s, d, TRUE, reason)
    BY <2>3, <2>4, <2>5, <2>6, <2>7 DEF Closes, e
  <2>9. QED
    BY <1>6, <2>8 DEF s, d, e
<1>7. QED
  BY <1>5, <1>6

\* The diagnostics a life leaves.
LeftOver(conditions, forced) ==
    HostWrites(conditions) \o (IF forced THEN <<Event("diagnostic", "TIMEOUT")>> ELSE <<>>)

\* What _after and _final leave of a life to write: its diagnostics, each condition's once, and the
\* generation's end.
LeavesWell(conditions, forced, retry, deciding) ==
    LET d == LeftOver(conditions, forced)
    IN  /\ Closes(Leaves(conditions, forced, retry, deciding), d, capture.open, Reason(deciding))
        /\ Len(d) \in 0 .. 3
        /\ \A code : (\E n \in Indices(d) : d[n].what = code)
              <=> \/ forced /\ code = "TIMEOUT"
                  \/ \E m \in Indices(conditions) :
                        conditions[m].written = "host" /\ conditions[m].code = code
        /\ (forced => "TIMEOUT" \notin CodesOf(conditions)) =>
              \A m, n \in Indices(d) : d[m].what = d[n].what => m = n

LEMMA LeavesClose ==
    ASSUME NEW conditions \in Seq(ACondition), Len(conditions) <= 2,
           \A m, n \in Indices(conditions) : conditions[m].code = conditions[n].code => m = n,
           NEW forced \in BOOLEAN, NEW retry, NEW deciding \in Codes \cup {None},
           capture.open \in BOOLEAN
    PROVE  LeavesWell(conditions, forced, retry, deciding)
<1> DEFINE h == HostWrites(conditions)
           t == IF forced THEN <<Event("diagnostic", "TIMEOUT")>> ELSE <<>>
           d == LeftOver(conditions, forced)
<1>1. /\ h \in Seq(ADiagnostic) /\ Len(h) <= Len(conditions)
      /\ \A m, n \in Indices(h) : h[m].what = h[n].what => m = n
      /\ \A n \in Indices(h) : \E m \in Indices(conditions) :
            conditions[m].written = "host" /\ conditions[m].code = h[n].what
      /\ \A m \in Indices(conditions) : conditions[m].written = "host" =>
            \E n \in Indices(h) : h[n].what = conditions[m].code
  BY HostWritesEach
<1>2. /\ t \in Seq(ADiagnostic) /\ Len(t) \in 0 .. 1
      /\ \A n \in Indices(t) : forced /\ n = 1 /\ t[n].what = "TIMEOUT"
      /\ forced => 1 \in Indices(t)
  <2>1. CASE forced = TRUE
    <3>1. Event("diagnostic", "TIMEOUT") \in ADiagnostic
      BY CodesAre DEF Event, ADiagnostic
    <3>2. t = <<Event("diagnostic", "TIMEOUT")>>
      BY <2>1
    <3>3. Len(t) = 1 /\ t[1] = Event("diagnostic", "TIMEOUT") /\ t \in Seq(ADiagnostic)
      BY <3>1, <3>2
    <3> HIDE DEF t
    <3>4. Indices(t) = {1}
      BY <3>3 DEF Indices
    <3>5. QED
      BY <2>1, <3>3, <3>4 DEF Event
  <2>2. CASE forced = FALSE
    <3>1. t = <<>>
      BY <2>2
    <3>2. QED
      BY <2>2, <3>1 DEF Indices
  <2>3. QED
    BY <2>1, <2>2
<1>3. d = h \o t
  BY DEF LeftOver
<1> HIDE DEF h, t, d
<1>4. /\ d \in Seq(ADiagnostic) /\ Len(d) = Len(h) + Len(t)
      /\ \A i \in Indices(h) : i \in Indices(d) /\ d[i] = h[i]
      /\ \A j \in Indices(t) : Len(h) + j \in Indices(d) /\ d[Len(h) + j] = t[j]
      /\ \A i \in Indices(d) : i \in Indices(h) \/ \E j \in Indices(t) : i = Len(h) + j
  <2>1. h \in Seq(ADiagnostic) /\ t \in Seq(ADiagnostic)
    BY <1>1, <1>2
  <2>2. h \o t \in Seq(ADiagnostic) /\ Joins(h, t)
    BY <2>1, Concatenated
  <2>3. QED
    BY <1>3, <2>2 DEF Joins
<1>5. Len(d) \in 0 .. 3
  <2>1. Len(h) \in Nat /\ Len(conditions) \in Nat /\ Len(t) \in Nat
    BY <1>1, <1>2
  <2> DEFINE x == Len(h)
             y == Len(t)
             z == Len(conditions)
  <2>2. x \in Nat /\ x <= z /\ z \in Nat /\ z <= 2 /\ y \in 0 .. 1 /\ Len(d) = x + y
    BY <1>1, <1>2, <1>4, <2>1
  <2> HIDE DEF x, y, z
  <2>3. QED
    BY <2>2
<1>6. \A code : (\E n \in Indices(d) : d[n].what = code)
         <=> \/ forced /\ code = "TIMEOUT"
             \/ \E m \in Indices(conditions) :
                   conditions[m].written = "host" /\ conditions[m].code = code
  <2>1. \A code : (\E n \in Indices(d) : d[n].what = code)
           <=> \/ \E n \in Indices(t) : t[n].what = code
               \/ \E n \in Indices(h) : h[n].what = code
    BY <1>4
  <2>2. \A code : (\E n \in Indices(t) : t[n].what = code) <=> forced /\ code = "TIMEOUT"
    BY <1>2
  <2>3. \A code : (\E n \in Indices(h) : h[n].what = code)
           <=> \E m \in Indices(conditions) :
                  conditions[m].written = "host" /\ conditions[m].code = code
    BY <1>1
  <2>4. QED
    BY <2>1, <2>2, <2>3
<1>7. ASSUME forced => "TIMEOUT" \notin CodesOf(conditions)
      PROVE  \A m, n \in Indices(d) : d[m].what = d[n].what => m = n
  <2>1. SUFFICES ASSUME NEW m \in Indices(d), NEW n \in Indices(d), d[m].what = d[n].what
                 PROVE  m = n
    OBVIOUS
  <2>2. \A i \in Indices(h) : forced => h[i].what # "TIMEOUT"
    BY <1>1, <1>7, Indexed
  <2>3. \A i \in Indices(d) :
           \/ i \in Indices(h) /\ d[i] = h[i] /\ (forced => d[i].what # "TIMEOUT")
           \/ forced /\ i = Len(h) + 1 /\ d[i].what = "TIMEOUT"
    BY <1>2, <1>4, <2>2
  <2>4. QED
    BY <1>1, <2>1, <2>3
<1>8. Closes(Leaves(conditions, forced, retry, deciding), d, capture.open, Reason(deciding))
  <2>1. Leaves(conditions, forced, retry, deciding)
          = d \o (IF capture.open THEN <<Event("end", Reason(deciding))>> ELSE <<>>)
    BY DEF Leaves, LeftOver, d
  <2>2. QED
    BY <1>4, <2>1, ReasonIs, Closing
<1>9. QED
  BY <1>5, <1>6, <1>7, <1>8 DEF d, LeavesWell

-----------------------------------------------------------------------------
\* Types, the order of a session, and what is on the capture's account: true of every step.

Core == Typed /\ Recorded /\ GoesOn /\ Bordered /\ Earned

LEMMA NothingIs == Nothing \in AnEnding
BY DEF Nothing, AnEnding

LEMMA NewWorkerIs ==
    /\ NewWorker \in Life /\ NewWorker.conditions = <<>> /\ ~NewWorker.joined
    /\ \A code : Sound(<<>>, code)
<1>1. NewWorker.conditions = <<>> /\ NewWorker.joined = FALSE
  BY DEF NewWorker
<1>2. NewWorker \in Life
  BY DEF NewWorker, Life
<1>3. \A code : Sound(<<>>, code)
  BY DEF Sound, Indices
<1>4. QED
  BY <1>1, <1>2, <1>3

LEMMA SessionBegins ==
    ASSUME Init
    PROVE  Core
<1>1. Typed
  <2>1. capture \in ACapture /\ capture.footer = None /\ capture.open = FALSE
    BY SessionAssumption DEF Init, ACapture
  <2>2. said \in [Codes -> Nat]
    BY DEF Init
  <2>3. worker \in Life /\ worker.conditions = <<>> /\ todo = <<>> /\ ending \in AnEnding
    BY NewWorkerIs, NothingIs DEF Init
  <2>4. todo \in Seq(AnEvent) /\ Len(todo) <= 4 /\ Len(worker.conditions) <= 2
    BY <2>3
  <2>5. /\ phase = "attempt" /\ stop \in BOOLEAN /\ failure = None /\ lastConn = None
        /\ retries = 0 /\ broken = "no" /\ outputs = "ok"
    BY DEF Init
  <2>51. retries \in 0 .. Retries
    BY <2>5, SessionAssumption
  <2>6. TypeOK
    BY <2>1, <2>2, <2>3, <2>4, <2>5, <2>51 DEF TypeOK, ACapture
  <2>7. QED
    BY <2>1, <2>2, <2>3, <2>4, <2>6 DEF Typed
<1>2. Recorded
  BY NewWorkerIs DEF Init, Recorded
<1>3. GoesOn
  BY DEF Init, GoesOn
<1>4. Bordered
  BY DEF Init, Bordered
<1>5. Earned
  BY DEF Init, Earned
<1>6. QED
  BY <1>1, <1>2, <1>3, <1>4, <1>5 DEF Core

\* A life's step that takes no frame.
LEMMA LivesCore ==
    ASSUME Core, Lives
    PROVE  Core'
<1> USE DEF Core
<1>1. /\ phase = "worker" /\ phase' = "worker"
      /\ UNCHANGED <<stop, retries, lastConn, capture, outputs, said, todo, ending>>
      /\ worker' \in Life /\ worker'.joined = worker.joined
      /\ Sound(worker'.conditions, failure') /\ failure' \in Codes \cup {None}
      /\ failure # None => failure' = failure
      /\ broken' \in {broken, "io"}
  BY DEF Lives, InSession
<1>2. Typed'
  <2>1. Len(worker'.conditions) <= 2
    BY <1>1 DEF Sound
  <2>2. TypeOK'
    BY <1>1, <2>1 DEF Typed, TypeOK
  <2>3. QED
    BY <1>1, <2>2 DEF Typed
<1>3. Recorded'
  BY <1>1 DEF Recorded
<1>4. GoesOn'
  BY <1>1 DEF GoesOn
<1>5. Bordered'
  BY <1>1 DEF Bordered
<1>6. Earned'
  BY <1>1 DEF Earned
<1>7. QED
  BY <1>2, <1>3, <1>4, <1>5, <1>6

LEMMA OutputsAfterAre ==
    ASSUME NEW o \in OutputsAfter, outputs \in {"ok", "failed", "recorded"}
    PROVE  o \in {"ok", "failed", "recorded"} /\ (o = "recorded" => outputs = "recorded")
<1>1. o \in {"ok", "failed"} \/ o = outputs
  BY DEF OutputsAfter
<1>2. QED
  BY <1>1 DEF OutputsAfter

\* A frame of the worker.
LEMMA FrameTakenCore ==
    ASSUME Core, NEW event \in Frames, FrameTaken(event)
    PROVE  Core'
<1> USE DEF Core
<1>1. /\ phase = "worker" /\ phase' = "worker" /\ broken = "no"
      /\ UNCHANGED <<stop, lastConn, todo, ending>>
      /\ worker' \in Life /\ failure' \in Codes \cup {None} /\ Sound(worker'.conditions, failure')
      /\ failure # None => failure' = failure
      /\ retries' \in {0, retries}
      /\ broken' \in {"no", "io"} /\ outputs' \in OutputsAfter \cup {outputs}
  BY DEF FrameTaken
<1>2. /\ capture' \in ACapture /\ said' \in [Codes -> Nat] /\ capture'.footer = None
      /\ broken' = "no" /\ capture'.open => worker'.joined
  <2>1. capture \in ACapture /\ said \in [Codes -> Nat] /\ capture.footer = None
        /\ (capture.open => worker.joined)
    BY <1>1 DEF Typed, Bordered
  <2>2. CASE Written(event)
    <3>1. ~Refused(FALSE) /\ event \in AnEvent \cup Frames /\ FALSE \in BOOLEAN
      BY DEF FrameTaken
    <3>2. /\ capture' \in ACapture /\ said' \in [Codes -> Nat] /\ capture'.footer = capture.footer
      BY <2>1, <2>2, <3>1, Writing
    <3>3. event.type \in {"data", "diagnostic"} => capture'.open = capture.open
      BY <2>1, <2>2, <3>1, Writing
    <3>4. event.type \in {"start", "data", "diagnostic"}
      BY DEF Frames
    <3>5. broken' = "no" => worker'.joined = (worker.joined \/ event.type = "start")
      BY DEF FrameTaken
    <3>6. QED
      BY <2>1, <3>2, <3>3, <3>4, <3>5
  <2>3. CASE UNCHANGED <<capture, said>> /\ broken' = "io"
    BY <2>1, <2>3
  <2>4. QED
    BY <2>2, <2>3 DEF FrameTaken
<1>3. outputs' \in {"ok", "failed"}
  <2>1. outputs \in {"ok", "failed", "recorded"} /\ outputs # "recorded"
    BY <1>1 DEF Typed, TypeOK, GoesOn
  <2>2. QED
    BY <1>1, <2>1, OutputsAfterAre
<1>4. Typed'
  <2>1. Len(worker'.conditions) <= 2
    BY <1>1 DEF Sound
  <2>2. retries' \in 0 .. Retries
    BY <1>1, SessionAssumption DEF Typed, TypeOK
  <2>3. TypeOK'
    BY <1>1, <1>2, <1>3, <2>1, <2>2 DEF Typed, TypeOK, ACapture
  <2>4. QED
    BY <1>1, <1>2, <2>3 DEF Typed
<1>5. Recorded'
  BY <1>1 DEF Recorded
<1>6. GoesOn'
  BY <1>1, <1>3 DEF GoesOn
<1>7. Bordered'
  BY <1>1, <1>2 DEF Bordered
<1>8. Earned'
  BY <1>1, <1>3 DEF Earned
<1>9. QED
  BY <1>4, <1>5, <1>6, <1>7, <1>8

LEMMA StopCore ==
    ASSUME Core, RequestStop
    PROVE  Core'
<1> USE DEF Core
<1>1. /\ phase \in {"attempt", "worker", "backoff"} /\ stop' = TRUE
      /\ UNCHANGED <<phase, failure, retries, lastConn, capture, broken, outputs, said, todo, ending>>
      /\ worker' = [worker EXCEPT !.term = Supervised /\ worker.conditions = <<>>]
  BY DEF RequestStop
<1>2. worker' \in Life /\ worker'.conditions = worker.conditions /\ worker'.joined = worker.joined
  <2>1. (Supervised /\ worker.conditions = <<>>) \in BOOLEAN /\ worker \in Life
    BY DEF Supervised, Typed, TypeOK
  <2>2. QED
    BY <1>1, <2>1 DEF Life
<1>3. Typed'
  <2>1. TypeOK'
    BY <1>1, <1>2 DEF Typed, TypeOK
  <2>2. QED
    BY <1>1, <2>1 DEF Typed
<1>4. Recorded'
  BY <1>1, <1>2 DEF Recorded
<1>5. GoesOn'
  BY <1>1 DEF GoesOn
<1>6. Bordered'
  BY <1>1, <1>2 DEF Bordered
<1>7. Earned'
  BY <1>1 DEF Earned, CompleteIsEarned
<1>8. QED
  BY <1>3, <1>4, <1>5, <1>6, <1>7

LEMMA OneEvent ==
    ASSUME NEW code \in Codes, NEW events, events = <<Event("diagnostic", code)>>
    PROVE  /\ events \in Seq(AnEvent) /\ Len(events) = 1 /\ ~EndIsLast(events)
           /\ \A n \in Indices(events) : events[n].type # "end"
           /\ \A c : Tells(events, c) <=> c = code
           /\ \A m, n \in Indices(events) : events[m] = events[n] => m = n
<1> DEFINE e == Event("diagnostic", code)
<1>1. e \in AnEvent /\ e.type = "diagnostic" /\ \A c : e = Event("diagnostic", c) <=> c = code
  BY DEF Event, AnEvent
<1> HIDE DEF e
<1>2. events \in Seq(AnEvent) /\ Len(events) = 1 /\ events[1] = e
  BY <1>1 DEF e
<1>3. Indices(events) = {1}
  BY <1>2 DEF Indices
<1>4. QED
  BY <1>1, <1>2, <1>3 DEF EndIsLast, Tells, e

LEMMA SoundStays ==
    ASSUME NEW conditions, Sound(conditions, failure), failure # None => failure' = failure
    PROVE  Sound(conditions, failure')
<1>1. CASE failure = None
  BY <1>1 DEF Sound
<1>2. CASE failure # None
  BY <1>2 DEF Sound
<1>3. QED
  BY <1>1, <1>2

\* The worker of the step: the one there was, or none yet.
LEMMA WorkerStays ==
    ASSUME Core, worker' \in {worker, NewWorker}, failure # None => failure' = failure
    PROVE  worker' \in Life /\ Len(worker'.conditions) <= 2 /\ Recorded'
<1>1. worker' \in Life /\ Sound(worker'.conditions, failure')
  BY NewWorkerIs, SoundStays DEF Core, Recorded, Typed, TypeOK
<1>2. QED
  BY <1>1 DEF Sound, Recorded

\* A session that has to finish, without a generation or after one.
LEMMA FinishesCore ==
    ASSUME Core, phase # "done", phase' = "finish", UNCHANGED <<outputs, lastConn, stop>>,
           worker' \in {worker, NewWorker}, failure # None => failure' = failure,
           failure' \in Codes \cup {None}, retries' \in 0 .. Retries, broken' \in {"no", "io", "full"},
           capture' \in ACapture, capture'.footer = capture.footer, said' \in [Codes -> Nat],
           todo' \in Seq(AnEvent), Len(todo') <= 4, ending' \in AnEnding,
           broken' = "no" => ~capture'.open /\ (failure' = None => Unsullied')
    PROVE  Core'
<1> USE DEF Core
<1>1. worker' \in Life /\ Len(worker'.conditions) <= 2 /\ Recorded'
  BY WorkerStays
<1>2. Typed'
  <2>1. TypeOK'
    BY <1>1 DEF Typed, TypeOK, ACapture
  <2>2. QED
    BY <2>1 DEF Typed
<1>3. GoesOn'
  BY DEF GoesOn
<1>4. Bordered'
  BY DEF Bordered
<1>5. Earned'
  BY DEF Earned
<1>6. QED
  BY <1>1, <1>2, <1>3, <1>4, <1>5

\* A session that ends on one diagnostic, of an attempt that has not joined.
LEMMA EndsOnCore ==
    ASSUME Core, phase # "done", phase' = "writing", broken = "no" => ~capture.open,
           UNCHANGED <<failure, capture, broken, outputs, lastConn, stop>>,
           worker' \in {worker, NewWorker}, retries' \in 0 .. Retries, said' \in [Codes -> Nat],
           NEW code \in {"CONNECT", "PIN"}, todo' = <<Event("diagnostic", code)>>,
           ending' = [Nothing EXCEPT !.code = code]
    PROVE  Core'
<1> USE DEF Core
<1>1. worker' \in Life /\ Len(worker'.conditions) <= 2 /\ Recorded'
  BY WorkerStays
<1>2. code \in Codes /\ code # "IO"
  BY CodesAre
<1>3. /\ todo' \in Seq(AnEvent) /\ Len(todo') = 1 /\ ~EndIsLast(todo')
      /\ \A n \in Indices(todo') : todo'[n].type # "end"
      /\ ~Tells(todo', "IO")
  <2> DEFINE t == todo'
  <2>1. t = <<Event("diagnostic", code)>>
    OBVIOUS
  <2> HIDE DEF t
  <2>2. /\ t \in Seq(AnEvent) /\ Len(t) = 1 /\ ~EndIsLast(t)
        /\ \A n \in Indices(t) : t[n].type # "end"
        /\ \A c : Tells(t, c) <=> c = code
    BY <1>2, <2>1, OneEvent
  <2>3. QED
    BY <1>2, <2>2 DEF t
<1>4. ending' \in AnEnding /\ ending'.code = code /\ ending'.retry = FALSE
  BY <1>2, NothingIs DEF AnEnding, Nothing
<1>5. Typed'
  <2>1. TypeOK'
    BY <1>1, <1>3 DEF Typed, TypeOK
  <2>2. QED
    BY <1>3, <1>4, <2>1 DEF Typed
<1>6. GoesOn'
  BY <1>4 DEF GoesOn
<1>7. Bordered'
  <2>1. ~EndWaits'
    BY <1>3 DEF EndWaits, EndIsLast
  <2>2. \A n \in Indices(todo)' : todo'[n].type # "end"
    BY <1>3 DEF Indices
  <2>3. QED
    BY <2>1, <2>2 DEF Bordered
<1>8. Earned'
  <2>1. ~Waits("IO")'
    BY <1>3 DEF Waits, Tells, Indices
  <2>2. code # None /\ code # "RETRACTION"
    BY DEF None
  <2>3. QED
    BY <1>4, <2>1, <2>2 DEF Earned
<1>9. QED
  BY <1>1, <1>5, <1>6, <1>7, <1>8

\* _end_without_generation, with or without a diagnostic of the stop.
LEMMA WithoutGenerationCore ==
    ASSUME Core, phase # "done", EndWithoutGeneration \/ EndBeforeJoin, broken = "no" => ~capture.open,
           UNCHANGED <<capture, broken, outputs, lastConn, stop>>,
           worker' \in {worker, NewWorker}, retries' \in 0 .. Retries, said' \in [Codes -> Nat]
    PROVE  Core'
<1>1. CASE EndWithoutGeneration
  <2>1. /\ phase' = "finish" /\ ending' = Nothing /\ todo' = todo
        /\ failure # None => failure' = failure
        /\ failure' \in Codes \cup {None}
        /\ broken = "no" => failure' # None
    <3>1. lastConn \in Codes \cup {None} /\ failure \in Codes \cup {None}
      BY CodesAre DEF Core, Typed, TypeOK, Transient
    <3>2. QED
      BY <1>1, <3>1 DEF EndWithoutGeneration
  <2>2. todo' \in Seq(AnEvent) /\ Len(todo') <= 4 /\ ending' \in AnEnding
    BY <2>1, NothingIs DEF Core, Typed, TypeOK
  <2>3. capture' \in ACapture /\ broken' \in {"no", "io", "full"}
    BY DEF Core, Typed, TypeOK
  <2>4. QED
    BY <2>1, <2>2, <2>3, FinishesCore
<1>2. CASE EndBeforeJoin
  <2>1. /\ phase' = "writing" /\ todo' = <<Event("diagnostic", "CONNECT")>>
        /\ ending' = [Nothing EXCEPT !.code = "CONNECT"] /\ failure' = failure
    BY <1>2 DEF EndBeforeJoin
  <2>2. QED
    BY <2>1, EndsOnCore
<1>3. QED
  BY <1>1, <1>2

LEMMA AttemptCore ==
    ASSUME Core, Attempt
    PROVE  Core'
<1>1. /\ phase = "attempt" /\ said' = [c \in Codes |-> 0] /\ worker' = NewWorker
      /\ UNCHANGED <<stop, retries, lastConn, capture, broken, outputs>>
  BY DEF Attempt
<1>2. /\ said' \in [Codes -> Nat] /\ retries' \in 0 .. Retries /\ failure = None /\ broken = "no"
      /\ ~capture.open /\ outputs # "recorded"
  BY <1>1 DEF Core, Typed, TypeOK, GoesOn, Bordered
<1>3. CASE EndWithoutGeneration \/ EndBeforeJoin
  BY <1>1, <1>2, <1>3, WithoutGenerationCore
<1>4. CASE ~stop /\ phase' = "worker" /\ ending' = Nothing /\ UNCHANGED <<failure, todo>>
  <2>1. worker' \in Life /\ Len(worker'.conditions) <= 2 /\ Recorded'
    BY <1>1, <1>4, WorkerStays
  <2>2. Typed'
    <3>1. TypeOK'
      BY <1>1, <1>2, <1>4, <2>1 DEF Core, Typed, TypeOK
    <3>2. QED
      BY <1>1, <1>2, <1>4, <3>1, NothingIs DEF Core, Typed
  <2>3. GoesOn'
    BY <1>1, <1>2, <1>4 DEF GoesOn
  <2>4. Bordered'
    BY <1>1, <1>2, <1>4 DEF Core, Bordered
  <2>5. Earned'
    BY <1>1, <1>2, <1>4 DEF Earned
  <2>6. QED
    BY <2>1, <2>2, <2>3, <2>4, <2>5 DEF Core
<1>5. CASE /\ phase' = "writing" /\ todo' = <<Event("diagnostic", "PIN")>>
           /\ ending' = [Nothing EXCEPT !.code = "PIN"] /\ failure' = failure
  BY <1>1, <1>2, <1>5, EndsOnCore
<1>6. QED
  BY <1>3, <1>4, <1>5 DEF Attempt

\* The conditions of the life that ended: those established, or how the worker went.
LEMMA ConditionsAre ==
    ASSUME Typed, Recorded
    PROVE  /\ Conditions \in Seq(ACondition) /\ Len(Conditions) <= 2
           /\ \A m, n \in Indices(Conditions) : Conditions[m].code = Conditions[n].code => m = n
           /\ Conditions = <<>> => stop
           /\ \/ Conditions = worker.conditions /\ worker.conditions # <<>>
              \/ /\ Conditions = <<>> /\ worker.conditions = <<>>
              \/ /\ worker.conditions = <<>>
                 /\ \E code \in {"CONNECT", "SCHEMA"} : Conditions = <<Condition(code, "host")>>
<1>1. /\ worker.conditions \in Seq(ACondition) /\ Sound(worker.conditions, failure)
      /\ worker.silent \in BOOLEAN /\ worker.partial \in BOOLEAN /\ stop \in BOOLEAN
  BY DEF Typed, TypeOK, Life, ACondition, Recorded
<1>2. \A code \in {"CONNECT", "SCHEMA"} :
         LET c == <<Condition(code, "host")>>
         IN  /\ c \in Seq(ACondition) /\ Len(c) <= 2 /\ c # <<>>
             /\ \A m, n \in Indices(c) : c[m].code = c[n].code => m = n
  <2> SUFFICES ASSUME NEW code \in {"CONNECT", "SCHEMA"}, NEW c, c = <<Condition(code, "host")>>
               PROVE  /\ c \in Seq(ACondition) /\ Len(c) <= 2 /\ c # <<>>
                      /\ \A m, n \in Indices(c) : c[m].code = c[n].code => m = n
    OBVIOUS
  <2>1. Condition(code, "host") \in ACondition
    BY CodesAre DEF Condition, ACondition
  <2>2. c \in Seq(ACondition) /\ Len(c) = 1 /\ c # <<>>
    BY <2>1
  <2>3. Indices(c) = {1}
    BY <2>2 DEF Indices
  <2>4. QED
    BY <2>2, <2>3
<1>3. CASE worker.conditions # <<>>
  <2>1. Conditions = worker.conditions
    BY <1>3 DEF Conditions
  <2>2. QED
    BY <1>1, <1>3, <2>1 DEF Sound
<1>4. CASE worker.conditions = <<>> /\ (worker.silent \/ ~stop \/ worker.exit # "clean")
  <2>1. Conditions = <<Condition("CONNECT", "host")>>
    BY <1>4 DEF Conditions
  <2>2. QED
    BY <1>2, <1>4, <2>1
<1>5. CASE /\ worker.conditions = <<>> /\ ~worker.silent /\ stop /\ worker.exit = "clean"
           /\ worker.partial
  <2>1. Conditions = <<Condition("SCHEMA", "host")>>
    BY <1>5 DEF Conditions
  <2>2. QED
    BY <1>2, <1>5, <2>1
<1>6. CASE /\ worker.conditions = <<>> /\ ~worker.silent /\ stop /\ worker.exit = "clean"
           /\ ~worker.partial
  <2>1. Conditions = <<>>
    BY <1>6 DEF Conditions
  <2>2. QED
    BY <1>6, <2>1 DEF Indices
<1>7. QED
  BY <1>1, <1>3, <1>4, <1>5, <1>6

\* What _after leaves, by its conditions.
First(conditions) == IF conditions = <<>> THEN None ELSE conditions[1].code

Deciding(conditions) == IF conditions = <<>> THEN None ELSE conditions[Len(conditions)].code

KilledFor(conditions) == worker.forced /\ First(conditions) = "RETRACTION"

LEMMA AfterLeaves ==
    ASSUME Typed, Recorded, After
    PROVE  /\ phase = "worker" /\ phase' = "writing" /\ worker' = NewWorker
           /\ UNCHANGED <<stop, failure, retries, capture, broken, outputs, said>>
           /\ First(Conditions) \in Codes \cup {None} /\ Deciding(Conditions) \in Codes \cup {None}
           /\ KilledFor(Conditions) \in BOOLEAN
           /\ lastConn' \in Transient \cup {None}
           /\ ending' \in AnEnding /\ ending'.code = First(Conditions)
           /\ ending'.retry = Retry(First(Conditions)) /\ ending'.forced = KilledFor(Conditions)
           /\ ending'.opened = capture.open /\ ending'.conditions = Conditions
           /\ Closes(todo', LeftOver(Conditions, KilledFor(Conditions)), capture.open,
                     Reason(Deciding(Conditions)))
           /\ Len(LeftOver(Conditions, KilledFor(Conditions))) \in 0 .. 3
           /\ todo' \in Seq(AnEvent) /\ Len(todo') <= 4
           /\ \A code : Tells(todo', code)
                 <=> \/ KilledFor(Conditions) /\ code = "TIMEOUT"
                     \/ \E m \in Indices(Conditions) :
                           Conditions[m].written = "host" /\ Conditions[m].code = code
           /\ (KilledFor(Conditions) => "TIMEOUT" \notin CodesOf(Conditions)) =>
                 \A m, n \in Indices(todo') : todo'[m] = todo'[n] => m = n
<1> DEFINE c == Conditions
           code == First(c)
           deciding == Deciding(c)
           forced == KilledFor(c)
<1>1. /\ phase = "worker" /\ phase' = "writing" /\ worker' = NewWorker
      /\ UNCHANGED <<stop, failure, retries, capture, broken, outputs, said>>
      /\ lastConn' = (IF code \in Transient THEN code ELSE lastConn)
      /\ todo' = Leaves(c, forced, Retry(code), deciding)
      /\ ending' = [code |-> code, retry |-> Retry(code), forced |-> forced,
                    opened |-> capture.open, conditions |-> c]
  BY DEF After, First, Deciding, KilledFor
<1>2. /\ c \in Seq(ACondition) /\ Len(c) <= 2
      /\ \A m, n \in Indices(c) : c[m].code = c[n].code => m = n
  BY ConditionsAre
<1>3. code \in Codes \cup {None} /\ deciding \in Codes \cup {None}
  <2>1. CASE c = <<>>
    BY <2>1 DEF First, Deciding
  <2>2. CASE c # <<>>
    <3>1. 1 \in Indices(c) /\ Len(c) \in Indices(c)
      BY <1>2, <2>2 DEF Indices
    <3>2. QED
      BY <1>2, <2>2, <3>1, Indexed DEF First, Deciding
  <2>3. QED
    BY <2>1, <2>2
<1>4. forced \in BOOLEAN /\ Retry(code) \in BOOLEAN /\ capture.open \in BOOLEAN
  BY DEF KilledFor, Retry, Typed, TypeOK, Life
<1> HIDE DEF c, code, deciding, forced
<1>5. ending' \in AnEnding
  BY <1>1, <1>2, <1>3, <1>4 DEF AnEnding
<1>6. /\ Closes(Leaves(c, forced, Retry(code), deciding), LeftOver(c, forced), capture.open,
               Reason(deciding))
      /\ Len(LeftOver(c, forced)) \in 0 .. 3
      /\ \A k : (\E n \in Indices(LeftOver(c, forced)) : LeftOver(c, forced)[n].what = k)
            <=> \/ forced /\ k = "TIMEOUT"
                \/ \E m \in Indices(c) : c[m].written = "host" /\ c[m].code = k
      /\ (forced => "TIMEOUT" \notin CodesOf(c)) =>
            \A m, n \in Indices(LeftOver(c, forced)) :
               LeftOver(c, forced)[m].what = LeftOver(c, forced)[n].what => m = n
  <2>1. LeavesWell(c, forced, Retry(code), deciding)
    BY <1>2, <1>3, <1>4, LeavesClose
  <2>2. QED
    BY <2>1 DEF LeavesWell
<1>7. /\ Closes(todo', LeftOver(c, forced), capture.open, Reason(deciding))
      /\ todo' \in Seq(AnEvent) /\ Len(todo') <= 4
  <2> DEFINE t == todo'
             x == Len(LeftOver(c, forced))
  <2>1. /\ Closes(t, LeftOver(c, forced), capture.open, Reason(deciding))
    BY <1>1, <1>6
  <2>2. t \in Seq(AnEvent) /\ Len(t) = x + IF capture.open THEN 1 ELSE 0
    BY <2>1 DEF Closes
  <2>3. x \in 0 .. 3
    BY <1>6
  <2>4. x + (IF capture.open THEN 1 ELSE 0) <= 4
    <3> HIDE DEF x
    <3>1. QED
      BY <2>3
  <2>5. QED
    BY <2>1, <2>2, <2>4
<1>8. lastConn' \in Transient \cup {None}
  BY <1>1 DEF Typed, TypeOK
<1>9. /\ \A k : Tells(todo', k)
            <=> \/ forced /\ k = "TIMEOUT"
                \/ \E m \in Indices(c) : c[m].written = "host" /\ c[m].code = k
      /\ (forced => "TIMEOUT" \notin CodesOf(c)) =>
            \A m, n \in Indices(todo') : todo'[m] = todo'[n] => m = n
  <2> DEFINE t == todo'
             d == LeftOver(c, forced)
  <2>1. Closes(t, d, capture.open, Reason(deciding))
    BY <1>7
  <2>2. /\ \A k : (\E n \in Indices(d) : d[n].what = k)
              <=> \/ forced /\ k = "TIMEOUT"
                  \/ \E m \in Indices(c) : c[m].written = "host" /\ c[m].code = k
        /\ (forced => "TIMEOUT" \notin CodesOf(c)) =>
              \A m, n \in Indices(d) : d[m].what = d[n].what => m = n
    BY <1>6
  <2> HIDE DEF t, d
  <2>3. /\ \A k : Tells(t, k) <=> \E n \in Indices(d) : d[n].what = k
        /\ (\A m, n \in Indices(d) : d[m].what = d[n].what => m = n)
              => \A m, n \in Indices(t) : t[m] = t[n] => m = n
    BY <2>1 DEF Closes
  <2>4. QED
    BY <2>2, <2>3 DEF t
<1>10. QED
  BY <1>1, <1>3, <1>4, <1>5, <1>6, <1>7, <1>8, <1>9 DEF c, code, deciding, forced

LEMMA AfterCore ==
    ASSUME Core, After
    PROVE  Core'
<1> DEFINE c == Conditions
           code == First(c)
           t == todo'
<1>1. Typed /\ Recorded /\ GoesOn /\ Bordered /\ Earned
  BY DEF Core
<1>2. /\ phase = "worker" /\ phase' = "writing" /\ worker' = NewWorker
      /\ UNCHANGED <<stop, failure, retries, capture, broken, outputs, said>>
      /\ lastConn' \in Transient \cup {None}
      /\ ending' \in AnEnding /\ ending'.code = code
      /\ ending'.retry = Retry(code) /\ ending'.opened = capture.open /\ ending'.conditions = c
      /\ t \in Seq(AnEvent) /\ Len(t) <= 4
  BY <1>1, AfterLeaves
<1>3. /\ capture.open <=> EndIsLast(t)
      /\ \A n \in Indices(t) : t[n].type = "end" => n = Len(t)
  <2>1. Closes(t, LeftOver(c, KilledFor(c)), capture.open, Reason(Deciding(c)))
    BY <1>1, AfterLeaves
  <2> HIDE DEF t, c
  <2>2. QED
    BY <2>1 DEF Closes
<1>4. /\ c \in Seq(ACondition) /\ Len(c) <= 2
      /\ c = <<>> => stop
      /\ \/ c = worker.conditions /\ worker.conditions # <<>>
         \/ c = <<>> /\ worker.conditions = <<>>
         \/ /\ worker.conditions = <<>>
            /\ \E k \in {"CONNECT", "SCHEMA"} : c = <<Condition(k, "host")>>
  BY <1>1, ConditionsAre
<1>5. worker' \in Life /\ Len(worker'.conditions) <= 2 /\ Recorded'
  BY <1>2, WorkerStays
<1>6. Typed'
  <2>1. TypeOK'
    BY <1>1, <1>2, <1>5 DEF Typed, TypeOK
  <2>2. QED
    BY <1>1, <1>2, <2>1 DEF Typed
<1>7. GoesOn'
  BY <1>2 DEF GoesOn, Retry
<1>8. Bordered'
  <2>1. EndWaits' <=> capture.open
    BY <1>3 DEF EndWaits, EndIsLast
  <2>2. \A n \in Indices(todo)' : todo'[n].type = "end" => n = Len(todo')
    BY <1>3 DEF Indices
  <2>3. capture'.footer = None
    BY <1>1, <1>2 DEF Bordered
  <2>4. QED
    BY <1>2, <2>1, <2>2, <2>3 DEF Bordered
<1>9. Earned'
  <2>1. Waits("IO")' => failure # None
    <3>1. Waits("IO")' <=> Tells(t, "IO")
      BY DEF Waits, Tells, Indices
    <3>2. Tells(t, "IO") <=> \E m \in Indices(c) : c[m].written = "host" /\ c[m].code = "IO"
      BY <1>1, AfterLeaves
    <3>3. SUFFICES ASSUME NEW m \in Indices(c), c[m].code = "IO" PROVE failure # None
      BY <3>1, <3>2
    <3>4. c = worker.conditions
      <4>1. c # <<>>
        BY <3>3 DEF Indices
      <4>2. ASSUME NEW k \in {"CONNECT", "SCHEMA"}, c = <<Condition(k, "host")>> PROVE FALSE
        <5>1. c[m] = Condition(k, "host")
          BY <3>3, <4>2 DEF Indices
        <5>2. QED
          BY <3>3, <5>1 DEF Condition
      <4>3. QED
        BY <1>4, <4>1, <4>2
    <3>5. NeverRetried("IO")
      BY DEF NeverRetried, Transient
    <3>6. QED
      BY <1>1, <3>3, <3>4, <3>5 DEF Recorded, Sound
  <2>2. code = None => c = <<>>
    <3>1. SUFFICES ASSUME c # <<>> PROVE c[1].code # None
      BY DEF First
    <3>2. 1 \in Indices(c)
      BY <1>4, <3>1 DEF Indices
    <3>3. c[1].code \in Codes
      BY <1>4, <3>2, Indexed
    <3>4. QED
      BY <3>3, CodesAre
  <2>3. code = "RETRACTION" /\ failure = None => CodesOf(c) = {"RETRACTION"}
    <3>1. SUFFICES ASSUME code = "RETRACTION", failure = None PROVE CodesOf(c) = {"RETRACTION"}
      OBVIOUS
    <3>2. c # <<>> /\ c[1].code = "RETRACTION"
      BY <3>1 DEF First, None
    <3>3. c = worker.conditions
      <4>1. ASSUME NEW k \in {"CONNECT", "SCHEMA"}, c = <<Condition(k, "host")>> PROVE FALSE
        BY <3>2, <4>1 DEF Condition
      <4>2. QED
        BY <1>4, <3>2, <4>1
    <3>4. Len(c) # 2
      BY <1>1, <3>1, <3>3 DEF Recorded, Sound
    <3>5. Len(c) = 1
      <4> DEFINE x == Len(c)
      <4>1. x \in Nat /\ x # 0 /\ x <= 2
        BY <1>4, <3>2, Indexed
      <4> HIDE DEF x
      <4>2. x # 2
        BY <3>4 DEF x
      <4>3. x = 1
        BY <4>1, <4>2
      <4>4. QED
        BY <4>3 DEF x
    <3>6. QED
      BY <3>2, <3>5 DEF CodesOf
  <2>4. outputs' = "recorded" => failure' # None
    BY <1>1, <1>2 DEF Earned
  <2> HIDE DEF c, code
  <2>5. QED
    BY <1>2, <1>4, <2>1, <2>2, <2>3, <2>4 DEF Earned
<1>10. QED
  BY <1>5, <1>6, <1>7, <1>8, <1>9 DEF Core

\* What is left of the events once the first is written.
LEMMA TakenOff ==
    ASSUME NEW events \in Seq(AnEvent), events # <<>>,
           \A n \in Indices(events) : events[n].type = "end" => n = Len(events)
    PROVE  LET rest == Tail(events)
           IN  /\ Head(events) \in AnEvent /\ rest \in Seq(AnEvent)
               /\ Len(events) \in Nat \ {0} /\ Len(rest) = Len(events) - 1
               /\ Head(events).type = "end" => rest = <<>> /\ EndIsLast(events)
               /\ EndIsLast(rest) <=> EndIsLast(events) /\ Head(events).type # "end"
               /\ EndIsLast(rest) => rest[Len(rest)] = events[Len(events)]
               /\ EndIsLast(events) /\ ~EndIsLast(rest) => Head(events) = events[Len(events)]
               /\ \A n \in Indices(rest) : rest[n].type = "end" => n = Len(rest)
               /\ \A c : Tells(events, c) <=> Head(events) = Event("diagnostic", c) \/ Tells(rest, c)
               /\ (\A m, n \in Indices(events) : events[m] = events[n] => m = n) =>
                     /\ \A m, n \in Indices(rest) : rest[m] = rest[n] => m = n
                     /\ \A n \in Indices(rest) : rest[n] # Head(events)
<1> DEFINE s == events
           r == Tail(s)
           L == Len(s)
           h == Head(s)
<1>1. L \in Nat \ {0}
  <2>1. L \in Nat /\ L # 0
    OBVIOUS
  <2> HIDE DEF L
  <2>2. QED
    BY <2>1
<1>2. r \in Seq(AnEvent) /\ Len(r) = L - 1 /\ h = s[1]
  OBVIOUS
<1>3. \A n \in Indices(s) : s[n] \in AnEvent
  BY DEF Indices
<1>4. \A n \in Indices(r) : n + 1 \in Indices(s) /\ r[n] = s[n + 1] /\ n \in Nat /\ n # 0
  <2>1. \A n \in 1 .. (L - 1) : n + 1 \in 1 .. L /\ n \in Nat /\ n # 0
    BY <1>1
  <2>2. \A n \in 1 .. Len(r) : r[n] = s[n + 1]
    OBVIOUS
  <2>3. QED
    BY <1>2, <2>1, <2>2 DEF Indices
<1>5. \A n \in Indices(s) : n = 1 \/ (n - 1 \in Indices(r) /\ s[n] = r[n - 1])
  <2>1. \A n \in 1 .. L : n = 1 \/ (n - 1 \in 1 .. (L - 1) /\ (n - 1) + 1 = n)
    BY <1>1
  <2>2. QED
    BY <1>2, <1>4, <2>1 DEF Indices
<1>6. 1 \in Indices(s) /\ L \in Indices(s)
  BY <1>1 DEF Indices
<1>7. r = <<>> <=> L = 1
  <2>1. r = <<>> <=> Len(r) = 0
    BY <1>2
  <2>2. QED
    BY <1>1, <1>2, <2>1
<1>8. L # 1 => Len(r) \in Indices(r) /\ r[Len(r)] = s[L]
  <2>1. SUFFICES ASSUME L # 1 PROVE L - 1 \in Indices(r) /\ r[L - 1] = s[L]
    BY <1>2
  <2>2. L - 1 \in 1 .. (L - 1) /\ (L - 1) + 1 = L
    <3> HIDE DEF L, s, r
    <3>1. QED
      BY <1>1, <2>1
  <2>3. QED
    BY <1>2, <1>4, <2>2 DEF Indices
<1> HIDE DEF r, L, h, s
<1>9. h.type = "end" => L = 1 /\ EndIsLast(s)
  BY <1>2, <1>6, <1>1, <1>7 DEF EndIsLast, L, s
<1>10. EndIsLast(r) <=> EndIsLast(s) /\ h.type # "end"
  <2>1. s # <<>>
    BY DEF s
  <2>2. CASE L = 1
    BY <1>2, <1>7, <2>1, <2>2 DEF EndIsLast, L
  <2>3. CASE L # 1
    <3>1. h.type # "end"
      BY <1>9, <2>3
    <3>2. r # <<>> /\ r[Len(r)] = s[Len(s)]
      BY <1>7, <1>8, <2>3 DEF L
    <3>3. QED
      BY <2>1, <3>1, <3>2 DEF EndIsLast
  <2>4. QED
    BY <2>2, <2>3
<1>11. EndIsLast(r) => r[Len(r)] = s[L]
  BY <1>7, <1>8 DEF EndIsLast
<1>12. EndIsLast(s) /\ ~EndIsLast(r) => h = s[L]
  BY <1>2, <1>7, <1>8, <1>9, <1>10
<1>13. \A n \in Indices(r) : r[n].type = "end" => n = Len(r)
  <2>1. SUFFICES ASSUME NEW n \in Indices(r), r[n].type = "end" PROVE n = Len(r)
    OBVIOUS
  <2>2. n + 1 = L /\ n \in Nat
    BY <1>4, <2>1 DEF s, L
  <2>3. QED
    BY <1>1, <1>2, <2>2
<1>14. \A c : Tells(s, c) <=> h = Event("diagnostic", c) \/ Tells(r, c)
  BY <1>2, <1>4, <1>5, <1>6 DEF Tells
<1>15. ASSUME \A m, n \in Indices(s) : s[m] = s[n] => m = n
       PROVE  /\ \A m, n \in Indices(r) : r[m] = r[n] => m = n
              /\ \A n \in Indices(r) : r[n] # h
  <2>1. ASSUME NEW m \in Indices(r), NEW n \in Indices(r), r[m] = r[n] PROVE m = n
    <3>1. m + 1 = n + 1 /\ m \in Nat /\ n \in Nat
      BY <1>4, <1>15, <2>1
    <3>2. QED
      BY <3>1
  <2>2. ASSUME NEW n \in Indices(r), r[n] = h PROVE FALSE
    <3>1. n + 1 = 1 /\ n \in Nat /\ n # 0
      BY <1>2, <1>4, <1>6, <1>15, <2>2
    <3>2. QED
      BY <3>1
  <2>3. QED
    BY <2>1, <2>2
<1>16. h \in AnEvent
  BY <1>2, <1>3, <1>6
<1>17. QED
  BY <1>1, <1>2, <1>7, <1>9, <1>10, <1>11, <1>12, <1>13, <1>14, <1>15, <1>16 DEF r, L, h, s

\* The limit in the place of a retry: one diagnostic, and the end of an open generation.
LEMMA LimitLeaves ==
    ASSUME Typed, LimitAtEnd
    PROVE  LET t == todo'
           IN  /\ t \in Seq(AnEvent) /\ Len(t) \in 1 .. 2
               /\ t # <<>>
               /\ capture.open <=> EndIsLast(t)
               /\ capture.open => t[Len(t)] = Event("end", "limit")
               /\ \A n \in Indices(t) : t[n].type = "end" => n = Len(t)
               /\ \A c : Tells(t, c) <=> c = "LIMIT"
               /\ \A m, n \in Indices(t) : t[m] = t[n] => m = n
               /\ ending' \in AnEnding /\ ending'.code = "LIMIT" /\ ending'.retry = FALSE
               /\ ending'.forced = ending.forced /\ ending'.opened = ending.opened
               /\ ending'.conditions = <<>>
<1> DEFINE t == todo'
           d == <<Event("diagnostic", "LIMIT")>>
           open == capture.open
<1>1. t = d \o (IF open THEN <<Event("end", "limit")>> ELSE <<>>)
  BY DEF LimitAtEnd
<1>2. /\ d \in Seq(ADiagnostic) /\ Len(d) = 1 /\ d[1].what = "LIMIT"
  BY CodesAre DEF Event, ADiagnostic
<1>3. "limit" \in Reasons /\ open \in BOOLEAN
  BY DEF Reasons, Typed, TypeOK
<1> HIDE DEF d, open
<1>4. Indices(d) = {1}
  BY <1>2 DEF Indices
<1>5. Closes(t, d, open, "limit")
  BY <1>1, <1>2, <1>3, Closing
<1> HIDE DEF t
<1>6. /\ t \in Seq(AnEvent) /\ Len(t) \in 1 .. 2 /\ t # <<>>
      /\ open <=> EndIsLast(t)
      /\ open => t[Len(t)] = Event("end", "limit")
      /\ \A n \in Indices(t) : t[n].type = "end" => n = Len(t)
      /\ \A c : Tells(t, c) <=> c = "LIMIT"
      /\ \A m, n \in Indices(t) : t[m] = t[n] => m = n
  <2>1. /\ t \in Seq(AnEvent) /\ Len(t) = 1 + IF open THEN 1 ELSE 0
        /\ open <=> EndIsLast(t)
        /\ open => t[Len(t)] = Event("end", "limit")
        /\ \A n \in Indices(t) : t[n].type = "end" => n = Len(t)
    BY <1>2, <1>5 DEF Closes
  <2>2. \A c : Tells(t, c) <=> \E n \in Indices(d) : d[n].what = c
    BY <1>5 DEF Closes
  <2>3. \A m, n \in Indices(t) : t[m] = t[n] => m = n
    BY <1>4, <1>5 DEF Closes
  <2>4. t # <<>> /\ Len(t) \in 1 .. 2
    <3>1. Len(t) \in 1 .. 2
      BY <2>1
    <3>2. t # <<>>
      BY <3>1
    <3>3. QED
      BY <3>1, <3>2
  <2>5. QED
    BY <1>2, <1>4, <2>1, <2>2, <2>3, <2>4
<1>7. /\ ending' \in AnEnding /\ ending'.code = "LIMIT" /\ ending'.retry = FALSE
      /\ ending'.forced = ending.forced /\ ending'.opened = ending.opened
      /\ ending'.conditions = <<>>
  <2>1. ending \in AnEnding /\ <<>> \in Seq(ACondition) /\ "LIMIT" \in Codes
    BY CodesAre DEF Typed
  <2>2. ending' = [ending EXCEPT !.code = "LIMIT", !.retry = FALSE, !.conditions = <<>>]
    BY DEF LimitAtEnd
  <2>3. QED
    BY <2>1, <2>2 DEF AnEnding
<1>8. QED
  BY <1>6, <1>7 DEF t, open

\* The capture and what is said, whether a line reached the file or not.
LEMMA PerhapsWritten ==
    ASSUME Typed, NEW event \in AnEvent \cup Frames, NEW end \in BOOLEAN, ~Refused(end),
           Written(event) \/ UNCHANGED <<capture, said>>
    PROVE  capture' \in ACapture /\ capture'.footer = capture.footer /\ said' \in [Codes -> Nat]
<1>1. capture \in ACapture /\ said \in [Codes -> Nat]
  BY DEF Typed
<1>2. CASE Written(event)
  BY <1>1, <1>2, Writing
<1>3. CASE UNCHANGED <<capture, said>>
  BY <1>1, <1>3
<1>4. QED
  BY <1>2, <1>3

\* The next of the events is written: the life is still to be settled.
WritesNext ==
    /\ phase = "writing" /\ todo # <<>> /\ broken = "no" /\ ~Refused(~ending.retry)
    /\ Written(Head(todo))
    /\ \E o \in OutputsAfter :
          outputs' = IF ~ending.retry /\ Head(todo) = Event("diagnostic", "IO") /\ o = "failed"
                       THEN "recorded" ELSE o
    /\ todo' = Tail(todo)
    /\ UNCHANGED <<failure, broken, phase, ending, stop, retries, lastConn, worker>>

LEMMA WritesNextCore ==
    ASSUME Core, WritesNext
    PROVE  Core'
<1> DEFINE event == Head(todo)
           r == Tail(todo)
<1>1. Typed /\ Recorded /\ GoesOn /\ Bordered /\ Earned
  BY DEF Core
<1>2. /\ phase = "writing" /\ todo # <<>> /\ broken = "no" /\ ~Refused(~ending.retry)
      /\ Written(event) /\ todo' = r
      /\ UNCHANGED <<failure, broken, phase, ending, stop, retries, lastConn, worker>>
  BY DEF WritesNext
<1>3. /\ todo \in Seq(AnEvent) /\ ending \in AnEnding /\ Len(todo) <= 4
      /\ \A n \in Indices(todo) : todo[n].type = "end" => n = Len(todo)
      /\ capture.open <=> EndWaits
      /\ capture.footer = None
  BY <1>1, <1>2 DEF Typed, TypeOK, Bordered
<1>4. /\ event \in AnEvent /\ r \in Seq(AnEvent)
      /\ Len(todo) \in Nat \ {0} /\ Len(r) = Len(todo) - 1
      /\ event.type = "end" => r = <<>> /\ EndIsLast(todo)
      /\ EndIsLast(r) <=> EndIsLast(todo) /\ event.type # "end"
      /\ \A n \in Indices(r) : r[n].type = "end" => n = Len(r)
      /\ \A c : Tells(todo, c) <=> event = Event("diagnostic", c) \/ Tells(r, c)
  BY <1>2, <1>3, TakenOff
<1>5. (~ending.retry) \in BOOLEAN
  OBVIOUS
<1>6. /\ capture' \in ACapture /\ said' \in [Codes -> Nat] /\ capture'.footer = None
      /\ event.type = "end" => ~capture'.open
      /\ event.type # "end" => capture'.open = capture.open
  <2>1. capture \in ACapture /\ said \in [Codes -> Nat]
    BY <1>1 DEF Typed
  <2>2. event.type \in {"diagnostic", "end"}
    BY <1>4 DEF AnEvent
  <2>3. /\ capture' \in ACapture /\ said' \in [Codes -> Nat] /\ capture'.footer = capture.footer
        /\ event.type = "end" => ~capture'.open
        /\ event.type = "diagnostic" => capture'.open = capture.open
    BY <1>2, <1>4, <1>5, <2>1, Writing
  <2>4. QED
    BY <1>3, <2>2, <2>3
<1>7. /\ outputs' \in {"ok", "failed", "recorded"}
      /\ outputs' = "recorded" =>
            outputs = "recorded" \/ (~ending.retry /\ event = Event("diagnostic", "IO"))
  <2>1. outputs \in {"ok", "failed", "recorded"}
    BY <1>1 DEF Typed, TypeOK
  <2>2. QED
    BY <2>1, OutputsAfterAre DEF WritesNext
<1> HIDE DEF event, r
<1>8. Typed'
  <2>1. Len(r) <= 4
    BY <1>3, <1>4
  <2>2. TypeOK'
    BY <1>1, <1>2, <1>6, <1>7, <2>1 DEF Typed, TypeOK, ACapture
  <2>3. QED
    BY <1>1, <1>2, <1>4, <1>6, <2>2 DEF Typed
<1>9. Recorded'
  BY <1>1, <1>2 DEF Recorded
<1>10. GoesOn'
  BY <1>1, <1>2, <1>7 DEF GoesOn
<1>11. Bordered'
  <2>1. EndWaits' <=> EndIsLast(r)
    BY <1>2 DEF EndWaits, EndIsLast
  <2>2. capture'.open <=> EndIsLast(r)
    BY <1>3, <1>4, <1>6 DEF EndWaits
  <2>3. \A n \in Indices(todo)' : todo'[n].type = "end" => n = Len(todo')
    BY <1>2, <1>4 DEF Indices
  <2>4. QED
    BY <1>2, <1>6, <2>1, <2>2, <2>3 DEF Bordered
<1>12. Earned'
  <2>1. Waits("IO")' => Waits("IO")
    BY <1>2, <1>4 DEF Waits, Tells, Indices
  <2>2. event = Event("diagnostic", "IO") => Waits("IO")
    BY <1>4 DEF Waits
  <2>3. QED
    BY <1>1, <1>2, <1>7, <2>1, <2>2 DEF Earned
<1>13. QED
  BY <1>8, <1>9, <1>10, <1>11, <1>12 DEF Core

LEMMA WriteCore ==
    ASSUME Core, WriteEvent
    PROVE  Core'
<1> DEFINE event == Head(todo)
           end == ~ending.retry
<1>1. /\ phase = "writing" /\ todo # <<>> /\ UNCHANGED <<stop, retries, lastConn, worker>>
  BY DEF WriteEvent
<1>2. Typed /\ Recorded /\ GoesOn /\ Bordered /\ Earned
  BY DEF Core
<1>3. /\ retries' \in 0 .. Retries /\ todo \in Seq(AnEvent) /\ Len(todo) <= 4
      /\ ending \in AnEnding /\ capture \in ACapture /\ said \in [Codes -> Nat]
      /\ failure \in Codes \cup {None}
  BY <1>1, <1>2 DEF Typed, TypeOK
<1>4. \A code \in {"IO", "LIMIT"} : Terminal(code) \in Codes /\ Terminal(code) # None
                                    /\ (failure # None => Terminal(code) = failure)
  BY <1>3, CodesAre DEF Terminal
<1>5. event \in AnEvent
  BY <1>1, <1>3
<1>6. CASE Refused(end) /\ ~end /\ broken = "no" /\ LimitAtEnd
  <2> DEFINE t == todo'
  <2>1. /\ t \in Seq(AnEvent) /\ Len(t) \in 1 .. 2
        /\ capture.open <=> EndIsLast(t)
        /\ \A n \in Indices(t) : t[n].type = "end" => n = Len(t)
        /\ \A c : Tells(t, c) <=> c = "LIMIT"
        /\ ending' \in AnEnding /\ ending'.code = "LIMIT" /\ ending'.retry = FALSE
    BY <1>2, <1>6, LimitLeaves
  <2>2. UNCHANGED <<failure, capture, broken, outputs, said, phase>>
    BY <1>6 DEF LimitAtEnd
  <2>3. Typed'
    <3>1. TypeOK'
      BY <1>1, <1>2, <2>1, <2>2 DEF Typed, TypeOK
    <3>2. QED
      BY <1>2, <2>1, <2>2, <3>1 DEF Typed
  <2>4. Recorded'
    BY <1>1, <1>2, <2>2 DEF Recorded
  <2>5. GoesOn'
    BY <1>1, <2>1, <2>2 DEF GoesOn
  <2>6. Bordered'
    <3>1. EndWaits' <=> EndIsLast(t)
      BY DEF EndWaits, EndIsLast
    <3>2. \A n \in Indices(todo)' : todo'[n].type = "end" => n = Len(todo')
      BY <2>1 DEF Indices
    <3> HIDE DEF t
    <3>3. QED
      BY <1>1, <1>2, <2>1, <2>2, <3>1, <3>2 DEF Bordered
  <2>7. Earned'
    <3>1. ~Waits("IO")'
      BY <2>1 DEF Waits, Tells, Indices
    <3> HIDE DEF t
    <3>2. "LIMIT" # None /\ "LIMIT" # "RETRACTION"
      BY DEF None
    <3>3. QED
      BY <1>1, <1>2, <2>1, <2>2, <3>1, <3>2 DEF Earned
  <2>8. QED
    BY <2>3, <2>4, <2>5, <2>6, <2>7 DEF Core
<1>7. CASE /\ broken' = "full" /\ failure' = Terminal("LIMIT") /\ phase' = "finish"
           /\ UNCHANGED <<capture, outputs, said, todo, ending>>
  BY <1>1, <1>3, <1>4, <1>7, FinishesCore
<1>8. CASE /\ broken # "no" /\ failure' = Terminal("IO") /\ phase' = "finish"
           /\ UNCHANGED <<capture, broken, outputs, said, todo, ending>>
  <2>1. broken' # "no" /\ broken' \in {"no", "io", "full"}
    BY <1>2, <1>8 DEF Typed, TypeOK
  <2>2. QED
    BY <1>1, <1>3, <1>4, <1>8, <2>1, FinishesCore
<1>9. CASE /\ ~Refused(end) /\ broken = "no" /\ WriteBreaks(event)
           /\ failure' = Terminal("IO") /\ phase' = "finish"
           /\ UNCHANGED <<outputs, todo, ending>>
  <2>1. broken' = "io" /\ (Written(event) \/ UNCHANGED <<capture, said>>)
    BY <1>9 DEF WriteBreaks
  <2>2. capture' \in ACapture /\ capture'.footer = capture.footer /\ said' \in [Codes -> Nat]
    BY <1>2, <1>5, <1>9, <2>1, PerhapsWritten
  <2>3. QED
    BY <1>1, <1>3, <1>4, <1>9, <2>1, <2>2, FinishesCore
<1>10. CASE WritesNext
  BY <1>10, WritesNextCore
<1>11. QED
  BY <1>1, <1>6, <1>7, <1>8, <1>9, <1>10 DEF WriteEvent, WritesNext

LEMMA SettleCore ==
    ASSUME Core, Settle
    PROVE  Core'
<1>1. /\ phase = "writing" /\ todo = <<>>
      /\ UNCHANGED <<stop, retries, lastConn, capture, broken, outputs, worker, said>>
  BY DEF Settle
<1>2. Typed /\ Recorded /\ GoesOn /\ Bordered /\ Earned
  BY DEF Core
<1>3. /\ retries' \in 0 .. Retries /\ todo \in Seq(AnEvent) /\ Len(todo) <= 4
      /\ ending \in AnEnding /\ capture' \in ACapture /\ said' \in [Codes -> Nat]
      /\ failure \in Codes \cup {None} /\ broken' \in {"no", "io", "full"}
  BY <1>1, <1>2 DEF Typed, TypeOK
<1>4. broken = "no" => ~capture.open
  BY <1>1, <1>2 DEF Bordered, EndWaits, EndIsLast
<1>5. CASE ending.retry /\ phase' = "backoff" /\ UNCHANGED <<failure, todo, ending>>
  <2>1. failure = None /\ broken = "no" /\ outputs # "recorded" /\ retries < Retries
    BY <1>1, <1>2, <1>5 DEF GoesOn
  <2>2. Typed'
    <3>1. TypeOK'
      BY <1>1, <1>2, <1>5 DEF Typed, TypeOK
    <3>2. QED
      BY <1>1, <1>2, <1>5, <3>1 DEF Typed
  <2>3. Recorded'
    BY <1>1, <1>2, <1>5 DEF Recorded
  <2>4. GoesOn'
    BY <1>1, <1>5, <2>1 DEF GoesOn
  <2>5. Bordered'
    BY <1>1, <1>2, <1>4, <1>5 DEF Bordered
  <2>6. Earned'
    BY <1>1, <1>5, <2>1 DEF Earned
  <2>7. QED
    BY <2>2, <2>3, <2>4, <2>5, <2>6 DEF Core
<1>6. CASE EndWithoutGeneration \/ EndBeforeJoin
  BY <1>1, <1>3, <1>4, <1>6, WithoutGenerationCore
<1>7. CASE /\ ~ending.retry /\ (ending.code # None \/ ending.opened)
           /\ failure' = CASE ending.code = None -> failure
                           [] ending.forced      -> Terminal("TIMEOUT")
                           [] ~ending.forced /\ ending.code = "RETRACTION" /\ ending.opened
                                                 -> failure
                           [] OTHER              -> Terminal(ending.code)
           /\ phase' = "finish"
           /\ UNCHANGED <<todo, ending>>
  <2>1. ending.code \in Codes \cup {None} /\ ending.forced \in BOOLEAN
    BY <1>3 DEF AnEnding
  <2>2. \A code \in Codes : Terminal(code) \in Codes /\ (failure # None => Terminal(code) = failure)
    BY <1>3, CodesAre DEF Terminal
  <2>3. "TIMEOUT" \in Codes /\ None \notin Codes
    BY CodesAre
  <2>4. \/ failure' = failure /\ ending.code = None /\ ending.opened
        \/ failure' = Terminal("TIMEOUT")
        \/ failure' = failure /\ ~ending.forced /\ ending.code = "RETRACTION" /\ ending.opened
        \/ failure' = Terminal(ending.code) /\ ending.code # None
    BY <1>7
  <2>5. failure' \in Codes \cup {None} /\ (failure # None => failure' = failure)
    BY <1>3, <2>1, <2>2, <2>3, <2>4
  <2>6. broken = "no" /\ failure' = None => Unsullied'
    <3>1. SUFFICES ASSUME failure' = None PROVE Unsullied
      BY <1>1, <1>7 DEF Unsullied, CodesOf
    <3>2. CASE failure' = failure /\ ending.code = None /\ ending.opened
      BY <1>1, <1>2, <3>1, <3>2 DEF Earned, Unsullied
    <3>3. CASE failure' = failure /\ ~ending.forced /\ ending.code = "RETRACTION" /\ ending.opened
      BY <1>1, <1>2, <3>1, <3>3 DEF Earned, Unsullied
    <3>4. QED
      BY <2>1, <2>2, <2>3, <2>4, <3>1, <3>2, <3>3
  <2>7. QED
    BY <1>1, <1>3, <1>4, <1>7, <2>5, <2>6, FinishesCore
<1>8. QED
  BY <1>5, <1>6, <1>7 DEF Settle

LEMMA BackoffCore ==
    ASSUME Core, Backoff
    PROVE  Core'
<1>1. /\ phase = "backoff" /\ retries' = retries + 1
      /\ UNCHANGED <<stop, lastConn, capture, outputs, worker, said>>
  BY DEF Backoff
<1>2. Typed /\ Recorded /\ GoesOn /\ Bordered /\ Earned
  BY DEF Core
<1>3. failure = None /\ broken = "no" /\ outputs # "recorded" /\ ~capture.open
  BY <1>1, <1>2 DEF GoesOn, Bordered
<1>4. retries' \in 0 .. Retries
  <2>1. retries \in 0 .. Retries /\ retries < Retries
    BY <1>1, <1>2 DEF GoesOn, Typed, TypeOK
  <2>2. QED
    BY <1>1, <2>1, SessionAssumption
<1>5. /\ todo \in Seq(AnEvent) /\ Len(todo) <= 4 /\ said' \in [Codes -> Nat]
      /\ ending \in AnEnding /\ capture' \in ACapture
  BY <1>1, <1>2 DEF Typed, TypeOK
<1>6. CASE (EndWithoutGeneration \/ EndBeforeJoin) /\ UNCHANGED broken
  BY <1>1, <1>3, <1>4, <1>5, <1>6, WithoutGenerationCore
<1>7. CASE ~stop /\ phase' = "attempt" /\ UNCHANGED <<failure, broken, todo, ending>>
  <2>1. Typed'
    <3>1. TypeOK'
      BY <1>1, <1>2, <1>4, <1>7 DEF Typed, TypeOK
    <3>2. QED
      BY <1>1, <1>2, <1>7, <3>1 DEF Typed
  <2>2. Recorded'
    BY <1>1, <1>2, <1>7 DEF Recorded
  <2>3. GoesOn'
    BY <1>1, <1>3, <1>7 DEF GoesOn
  <2>4. Bordered'
    BY <1>1, <1>2, <1>3, <1>7 DEF Bordered
  <2>5. Earned'
    BY <1>1, <1>3, <1>7 DEF Earned
  <2>6. QED
    BY <2>1, <2>2, <2>3, <2>4, <2>5 DEF Core
<1>8. CASE /\ broken' = "io" /\ failure' = Terminal("IO") /\ phase' = "finish"
           /\ UNCHANGED <<todo, ending>>
  <2>1. failure' \in Codes /\ failure' # None
    BY <1>3, <1>8, CodesAre DEF Terminal
  <2>2. QED
    BY <1>1, <1>3, <1>4, <1>5, <1>8, <2>1, FinishesCore
<1>9. QED
  BY <1>6, <1>7, <1>8 DEF Backoff

LEMMA RecordOutputsCore ==
    ASSUME Core, RecordOutputs
    PROVE  Core'
<1> DEFINE event == Event("diagnostic", "IO")
<1>1. /\ phase = "finish" /\ phase' = "finish" /\ outputs = "failed" /\ broken = "no"
      /\ outputs' = "recorded"
      /\ UNCHANGED <<stop, retries, lastConn, worker, todo, ending>>
  BY DEF RecordOutputs
<1>2. Typed /\ Recorded /\ GoesOn /\ Bordered /\ Earned
  BY DEF Core
<1>3. /\ event \in AnEvent /\ event.type = "diagnostic" /\ TRUE \in BOOLEAN
  BY CodesAre DEF Event, AnEvent
<1>4. /\ failure' \in Codes /\ failure' # None /\ (failure # None => failure' = failure)
      /\ broken' \in {"no", "io", "full"}
  <2>1. failure' \in {Terminal("IO"), Terminal("LIMIT")} /\ broken' \in {"no", "io", "full"}
    BY <1>1 DEF RecordOutputs, WriteBreaks
  <2>2. failure \in Codes \cup {None}
    BY <1>2 DEF Typed, TypeOK
  <2>3. QED
    BY <2>1, <2>2, CodesAre DEF Terminal
<1>5. /\ capture' \in ACapture /\ capture'.footer = None /\ said' \in [Codes -> Nat]
      /\ broken' = "no" => ~capture'.open
  <2>1. /\ capture \in ACapture /\ capture.footer = None /\ said \in [Codes -> Nat] /\ ~capture.open
    BY <1>1, <1>2 DEF Typed, Bordered
  <2>2. CASE UNCHANGED <<capture, said>>
    BY <2>1, <2>2
  <2>3. CASE ~Refused(TRUE) /\ Written(event)
    <3>1. /\ capture' \in ACapture /\ said' \in [Codes -> Nat] /\ capture'.footer = capture.footer
          /\ capture'.open = capture.open
      BY <1>3, <2>1, <2>3, Writing
    <3>2. QED
      BY <2>1, <3>1
  <2>4. QED
    BY <2>2, <2>3 DEF RecordOutputs, WriteBreaks
<1>6. worker' \in Life /\ Len(worker'.conditions) <= 2 /\ Recorded'
  BY <1>1, <1>4, WorkerStays
<1>7. Typed'
  <2>1. TypeOK'
    BY <1>1, <1>2, <1>4, <1>5, <1>6 DEF Typed, TypeOK, ACapture
  <2>2. QED
    BY <1>1, <1>2, <1>5, <2>1 DEF Typed
<1>8. GoesOn'
  BY <1>1 DEF GoesOn
<1>9. Bordered'
  BY <1>1, <1>5 DEF Bordered
<1>10. Earned'
  BY <1>1, <1>4 DEF Earned
<1>11. QED
  BY <1>6, <1>7, <1>8, <1>9, <1>10 DEF Core

LEMMA FinishCore ==
    ASSUME Core, Finish
    PROVE  Core'
<1>1. /\ phase = "finish" /\ phase' = "done" /\ (outputs = "failed" => broken # "no")
      /\ UNCHANGED <<stop, retries, lastConn, outputs, worker, said, todo, ending>>
  BY DEF Finish
<1>2. Typed /\ Recorded /\ GoesOn /\ Bordered /\ Earned
  BY DEF Core
<1>3. capture \in ACapture /\ capture.footer = None /\ failure \in Codes \cup {None}
      /\ outputs \in {"ok", "failed", "recorded"} /\ broken \in {"no", "io", "full"}
  BY <1>1, <1>2 DEF Typed, TypeOK, Bordered
<1>4. [capture EXCEPT !.footer = Footer] \in ACapture
  BY <1>3 DEF ACapture, Footer
<1>5. /\ capture' \in ACapture /\ capture'.open = capture.open
      /\ capture'.footer = "COMPLETE" => broken = "no" /\ failure = None
      /\ capture' = capture \/ (broken = "no" /\ capture' = [capture EXCEPT !.footer = Footer])
  <2>1. capture' = capture \/ (broken = "no" /\ capture' = [capture EXCEPT !.footer = Footer])
    BY DEF Finish
  <2>2. CASE capture' = capture
    BY <1>3, <2>2 DEF None
  <2>3. CASE broken = "no" /\ capture' = [capture EXCEPT !.footer = Footer]
    <3>1. capture'.footer = Footer /\ capture'.open = capture.open
      BY <1>3, <2>3 DEF ACapture
    <3>2. QED
      BY <1>4, <2>3, <3>1 DEF Footer
  <2>4. QED
    BY <2>1, <2>2, <2>3
<1>6. /\ failure' \in Codes \cup {None} /\ (failure # None => failure' = failure)
      /\ broken' \in {"no", "io", "full"}
      /\ broken' = "no" => broken = "no"
  <2>1. failure' \in {failure, Terminal("IO")} /\ broken' \in {broken, "io"}
    BY DEF Finish
  <2>2. QED
    BY <1>3, <2>1, CodesAre DEF Terminal
<1>7. worker' \in Life /\ Len(worker'.conditions) <= 2 /\ Recorded'
  BY <1>1, <1>6, WorkerStays
<1>8. Typed'
  <2>1. TypeOK'
    BY <1>1, <1>2, <1>5, <1>6, <1>7 DEF Typed, TypeOK, ACapture
  <2>2. QED
    BY <1>1, <1>2, <1>5, <2>1 DEF Typed
<1>9. GoesOn'
  BY <1>1 DEF GoesOn
<1>10. Bordered'
  BY <1>1, <1>2, <1>5, <1>6 DEF Bordered
<1>11. Earned'
  <2>1. outputs' = "recorded" => failure' # None
    BY <1>1, <1>2, <1>6 DEF Earned
  <2>2. ASSUME capture'.footer = "COMPLETE"
        PROVE  ending'.opened /\ ~capture'.open /\ outputs' = "ok" /\ Unsullied'
    <3>1. broken = "no" /\ failure = None
      BY <1>5, <2>2
    <3>2. Unsullied /\ ~capture.open /\ outputs = "ok"
      BY <1>1, <1>2, <1>3, <3>1 DEF Earned, Bordered
    <3>3. Unsullied'
      BY <1>1, <3>2 DEF Unsullied, CodesOf
    <3>4. QED
      BY <1>1, <1>5, <3>2, <3>3 DEF Unsullied
  <2>3. CompleteIsEarned'
    BY <2>2 DEF CompleteIsEarned, Unsullied
  <2>4. QED
    BY <1>1, <2>1, <2>3 DEF Earned
<1>12. QED
  BY <1>7, <1>8, <1>9, <1>10, <1>11 DEF Core

LEMMA CoreStays ==
    ASSUME Core, [Next]_vars
    PROVE  Core'
<1>1. CASE RequestStop
  BY <1>1, StopCore
<1>2. CASE Line \/ Clock \/ Exit \/ Close
  <2>1. Lives \/ \E event \in Frames : FrameTaken(event)
    BY <1>2, LifeSteps DEF Core
  <2>2. QED
    BY <2>1, LivesCore, FrameTakenCore
<1>3. CASE Host
  BY <1>3, AttemptCore, AfterCore, WriteCore, SettleCore, BackoffCore, RecordOutputsCore, FinishCore
     DEF Host
<1>4. CASE UNCHANGED vars
  <2>1. Typed'
    <3>1. TypeOK'
      BY <1>4 DEF Core, Typed, TypeOK, vars
    <3>2. QED
      BY <1>4, <3>1 DEF Core, Typed, vars
  <2>2. Recorded' /\ GoesOn'
    BY <1>4 DEF Core, Recorded, GoesOn, vars
  <2>3. Bordered'
    BY <1>4 DEF Core, Bordered, EndWaits, EndIsLast, Indices, vars
  <2>4. Earned'
    BY <1>4 DEF Core, Earned, Waits, Tells, Indices, Unsullied, CompleteIsEarned, CodesOf, vars
  <2>5. QED
    BY <2>1, <2>2, <2>3, <2>4 DEF Core
<1>5. QED
  BY <1>1, <1>2, <1>3, <1>4 DEF Next

LEMMA AlwaysCore == Spec => []Core
<1>1. Init => Core
  BY SessionBegins
<1>2. Core /\ [Next]_vars => Core'
  BY CoreStays
<1>3. QED
  BY <1>1, <1>2, PTL DEF Spec

\* A session's state has the types it is meant to have, and a life has two conditions at most.
THEOREM SessionTypeCorrect == Spec => []TypeOK
<1>1. Core => TypeOK
  BY DEF Core, Typed
<1>2. QED
  BY <1>1, AlwaysCore, PTL

\* _footer: COMPLETE is written only after a generation that an orderly stop or an unforced
\* retraction ended, with no other condition, no failure and no derived record missing.
THEOREM CompleteFootersAreEarned == Spec => []CompleteIsEarned
<1>1. Core => CompleteIsEarned
  <2>1. SUFFICES ASSUME Core PROVE CompleteIsEarned
    OBVIOUS
  <2>2. CASE phase = "done"
    BY <2>1, <2>2 DEF Core, Earned
  <2>3. CASE phase # "done"
    <3>1. capture.footer = None
      BY <2>1, <2>3 DEF Core, Bordered
    <3>2. QED
      BY <3>1 DEF CompleteIsEarned, None
  <2>4. QED
    BY <2>2, <2>3
<1>2. QED
  BY <1>1, AlwaysCore, PTL

-----------------------------------------------------------------------------
\* The capture is one a reader takes: every step of a session is a step of CaptureShape.

LEMMA FrameIsTaken ==
    ASSUME Typed, NEW event \in AnEvent \cup Frames, NEW end \in BOOLEAN, ~Refused(end),
           Written(event), capture.footer = None,
           event.type = "start" => ~capture.open, event.type = "end" => capture.open
    PROVE  CaptureTaken!Frame
<1>1. capture \in ACapture /\ said \in [Codes -> Nat]
  BY DEF Typed
<1>2. /\ capture' \in ACapture /\ capture'.frames = capture.frames + 1
      /\ capture'.footer = None
      /\ event.type = "start" => capture'.open /\ capture'.generations = capture.generations + 1
      /\ event.type = "end" => ~capture'.open /\ capture'.generations = capture.generations
      /\ event.type \in {"data", "diagnostic"} =>
            capture'.open = capture.open /\ capture'.generations = capture.generations
      /\ event.type \in {"start", "end", "data", "diagnostic"}
  BY <1>1, Writing
<1>3. capture.frames < MaxFrames
  <2>1. capture.frames \in Nat /\ capture.frames + 1 <= MaxFrames
    BY <1>1, <1>2 DEF ACapture
  <2>2. QED
    BY <2>1, SessionAssumption
<1>4. capture.open \in BOOLEAN /\ capture'.open \in BOOLEAN
  BY <1>1, <1>2 DEF ACapture
<1>5. \/ UNCHANGED <<capture.open, capture.generations>>
      \/ ~capture.open /\ capture'.open = TRUE /\ capture'.generations = capture.generations + 1
      \/ capture.open /\ capture'.open = FALSE /\ UNCHANGED capture.generations
  BY <1>2, <1>4
<1>6. QED
  BY <1>2, <1>3, <1>5 DEF CaptureTaken!Frame, None

LEMMA StepIsShaped ==
    ASSUME Core, [Next]_vars
    PROVE  [CaptureTaken!Frame \/ CaptureTaken!Close]_(CaptureTaken!shape)
<1>1. Typed /\ Recorded /\ GoesOn /\ Bordered /\ Earned
  BY DEF Core
<1>2. CASE capture' = capture
  BY <1>2 DEF CaptureTaken!shape
<1>3. ASSUME NEW event \in Frames, FrameTaken(event), capture' # capture
      PROVE  CaptureTaken!Frame
  <2>1. /\ phase = "worker" /\ broken = "no" /\ Allowed(event) /\ ~Refused(FALSE)
        /\ Written(event)
    BY <1>3 DEF FrameTaken
  <2>2. capture.footer = None /\ (capture.open => worker.joined)
    BY <1>1, <2>1 DEF Bordered
  <2>3. event.type \in {"start", "data", "diagnostic"}
    BY DEF Frames
  <2>4. event.type = "start" => ~capture.open
    BY <2>1, <2>2 DEF Allowed
  <2>5. FALSE \in BOOLEAN /\ event \in AnEvent \cup Frames
    OBVIOUS
  <2>6. QED
    BY <1>1, <2>1, <2>2, <2>3, <2>4, <2>5, FrameIsTaken
<1>4. ASSUME WriteEvent, capture' # capture
      PROVE  CaptureTaken!Frame
  <2> DEFINE event == Head(todo)
             end == ~ending.retry
  <2>1. /\ phase = "writing" /\ todo # <<>> /\ broken = "no" /\ ~Refused(end) /\ Written(event)
    BY <1>4 DEF WriteEvent, LimitAtEnd, WriteBreaks
  <2>2. /\ todo \in Seq(AnEvent) /\ capture.footer = None
        /\ capture.open <=> EndIsLast(todo)
        /\ \A n \in Indices(todo) : todo[n].type = "end" => n = Len(todo)
    BY <1>1, <2>1 DEF Typed, Bordered, EndWaits
  <2>3. event \in AnEvent /\ (event.type = "end" => EndIsLast(todo))
    BY <2>1, <2>2, TakenOff
  <2>4. event.type # "start" /\ event \in AnEvent \cup Frames /\ end \in BOOLEAN
    BY <2>3 DEF AnEvent
  <2> HIDE DEF event, end
  <2>5. QED
    BY <1>1, <2>1, <2>2, <2>3, <2>4, FrameIsTaken
<1>5. ASSUME RecordOutputs, capture' # capture
      PROVE  CaptureTaken!Frame
  <2> DEFINE event == Event("diagnostic", "IO")
  <2>1. phase = "finish" /\ broken = "no" /\ ~Refused(TRUE) /\ Written(event)
    BY <1>5 DEF RecordOutputs, WriteBreaks
  <2>2. capture.footer = None
    BY <1>1, <2>1 DEF Bordered
  <2>3. event \in AnEvent /\ event.type = "diagnostic" /\ TRUE \in BOOLEAN
    BY CodesAre DEF Event, AnEvent
  <2>4. event.type # "start" /\ event.type # "end" /\ event \in AnEvent \cup Frames
    BY <2>3
  <2> HIDE DEF event
  <2>5. QED
    BY <1>1, <2>1, <2>2, <2>3, <2>4, FrameIsTaken
<1>6. ASSUME Finish, capture' # capture
      PROVE  CaptureTaken!Close
  <2>1. phase = "finish" /\ broken = "no" /\ capture' = [capture EXCEPT !.footer = Footer]
    BY <1>6 DEF Finish
  <2>2. capture \in ACapture /\ capture.footer = None /\ ~capture.open
    BY <1>1, <2>1 DEF Typed, Bordered
  <2>3. /\ capture'.footer \in {"COMPLETE", "FAILED"} /\ capture'.open = capture.open
        /\ capture'.frames = capture.frames /\ capture'.generations = capture.generations
    BY <2>1, <2>2 DEF ACapture, Footer
  <2>4. QED
    BY <2>2, <2>3 DEF CaptureTaken!Close, None
<1>7. ASSUME capture' # capture
      PROVE  CaptureTaken!Frame \/ CaptureTaken!Close
  <2>1. CASE RequestStop
    BY <1>7, <2>1 DEF RequestStop
  <2>2. CASE Line \/ Clock \/ Exit \/ Close
    <3>1. Lives \/ \E event \in Frames : FrameTaken(event)
      BY <1>1, <2>2, LifeSteps
    <3>2. ~Lives
      BY <1>7 DEF Lives, InSession
    <3>3. QED
      BY <1>3, <1>7, <3>1, <3>2
  <2>3. CASE Attempt \/ After \/ Settle \/ Backoff
    BY <1>7, <2>3 DEF Attempt, After, Settle, Backoff
  <2>4. CASE WriteEvent \/ RecordOutputs \/ Finish
    BY <1>4, <1>5, <1>6, <1>7, <2>4
  <2>5. CASE UNCHANGED vars
    BY <1>7, <2>5 DEF vars
  <2>6. QED
    BY <2>1, <2>2, <2>3, <2>4, <2>5 DEF Next, Host
<1>8. QED
  BY <1>2, <1>7

\* The capture a session writes, whatever the worker sends and whichever write breaks, is a
\* beginning of one the reader verifies, or with its footer a whole one: generations one at a time,
\* the footer outside them and last.
THEOREM CapturesAreTaken == Spec => WellShaped
<1>1. Init => CaptureTaken!Empty
  BY DEF Init, CaptureTaken!Empty, None
<1>2. Core /\ [Next]_vars => [CaptureTaken!Frame \/ CaptureTaken!Close]_(CaptureTaken!shape)
  BY StepIsShaped
<1>3. QED
  BY <1>1, <1>2, AlwaysCore, PTL DEF Spec, WellShaped, CaptureTaken!Shape

-----------------------------------------------------------------------------
\* The end of a session finds room.

LEMMA RoomBegins ==
    ASSUME Init, MaxFrames >= EndFrames
    PROVE  Room /\ EndFits
<1>1. capture.frames = 0 /\ phase = "attempt" /\ broken = "no"
  BY DEF Init
<1>2. 0 + EndFrames <= MaxFrames
  BY SessionAssumption DEF EndFrames
<1>3. QED
  BY <1>1, <1>2 DEF Room, EndFits

\* The steps of a life leave what is kept for the end.
LEMMA LifeLeavesRoom ==
    ASSUME Core, Room, EndFits, Line \/ Clock \/ Exit \/ Close
    PROVE  Room' /\ EndFits'
<1>1. CASE Lives
  <2>1. phase = "worker" /\ phase' = "worker" /\ capture' = capture /\ broken' \in {broken, "io"}
    BY <1>1 DEF Lives, InSession
  <2>2. QED
    BY <2>1 DEF Room, EndFits
<1>2. ASSUME NEW event \in Frames, FrameTaken(event)
      PROVE  Room' /\ EndFits'
  <2>1. phase' = "worker" /\ broken' \in {"no", "io"}
    BY <1>2 DEF FrameTaken
  <2>2. ASSUME broken' = "no" PROVE capture'.frames + EndFrames <= MaxFrames
    <3>1. /\ Written(event) /\ ~Refused(FALSE) /\ event \in AnEvent \cup Frames /\ FALSE \in BOOLEAN
          /\ capture \in ACapture /\ said \in [Codes -> Nat]
      BY <1>2, <2>2 DEF FrameTaken, Core, Typed
    <3>2. capture'.frames = capture.frames + 1 /\ capture.frames + 1 + EndFrames <= MaxFrames
      BY <3>1, Writing
    <3>3. QED
      BY <3>2
  <2>3. QED
    BY <2>1, <2>2 DEF Room, EndFits
<1>3. QED
  BY <1>1, <1>2, LifeSteps DEF Core

LEMMA EndsInRoom ==
    ASSUME Core, EndFits, capture' = capture, broken' = broken, broken = "no",
           capture.frames + EndFrames <= MaxFrames,
           \/ EndWithoutGeneration \/ EndBeforeJoin
           \/ /\ phase' = "writing" /\ Len(todo') = 1 /\ ending'.retry = FALSE
              /\ ending'.code # None
    PROVE  Room' /\ EndFits'
<1>1. capture.frames \in Nat /\ EndFrames = 5 /\ MaxFrames \in Nat
  BY SessionAssumption DEF Core, Typed, ACapture, EndFrames
<1>2. capture.frames + 1 <= MaxFrames /\ capture.frames + 1 + 1 <= MaxFrames
  BY <1>1
<1>3. CASE EndWithoutGeneration
  BY <1>2, <1>3 DEF EndWithoutGeneration, Room, EndFits
<1>4. ASSUME phase' = "writing", Len(todo') = 1, ending'.retry = FALSE, ending'.code # None
      PROVE  Room' /\ EndFits'
  BY <1>2, <1>4 DEF Room, EndFits
<1>5. CASE EndBeforeJoin
  <2>1. /\ phase' = "writing" /\ todo' = <<Event("diagnostic", "CONNECT")>>
        /\ ending' = [Nothing EXCEPT !.code = "CONNECT"]
    BY <1>5 DEF EndBeforeJoin
  <2>2. Len(todo') = 1 /\ ending'.retry = FALSE /\ ending'.code = "CONNECT"
    BY <2>1 DEF Nothing
  <2>3. QED
    BY <1>4, <2>1, <2>2 DEF None
<1>6. QED
  BY <1>3, <1>4, <1>5

LEMMA AttemptLeavesRoom ==
    ASSUME Core, Room, EndFits, Attempt
    PROVE  Room' /\ EndFits'
<1>1. phase = "attempt" /\ capture' = capture /\ broken' = broken
  BY DEF Attempt
<1>2. broken = "no" /\ capture.frames + EndFrames <= MaxFrames
  BY <1>1 DEF Core, GoesOn, Room
<1>3. CASE EndWithoutGeneration \/ EndBeforeJoin
  BY <1>1, <1>2, <1>3, EndsInRoom
<1>4. CASE phase' = "worker"
  BY <1>1, <1>2, <1>4 DEF Room, EndFits
<1>5. CASE /\ phase' = "writing" /\ todo' = <<Event("diagnostic", "PIN")>>
           /\ ending' = [Nothing EXCEPT !.code = "PIN"]
  <2>1. Len(todo') = 1 /\ ending'.retry = FALSE /\ ending'.code # None
    BY <1>5 DEF Nothing, None
  <2>2. QED
    BY <1>1, <1>2, <1>5, <2>1, EndsInRoom
<1>6. QED
  BY <1>3, <1>4, <1>5 DEF Attempt

LEMMA AfterLeavesRoom ==
    ASSUME Core, Room, EndFits, After
    PROVE  Room' /\ EndFits'
<1> DEFINE c == Conditions
           d == LeftOver(c, KilledFor(c))
           t == todo'
           f == capture.frames
<1>1. Typed /\ Recorded
  BY DEF Core
<1>2. /\ phase = "worker" /\ phase' = "writing" /\ capture' = capture /\ broken' = broken
      /\ ending'.code = First(c) /\ ending'.opened = capture.open
      /\ Closes(t, d, capture.open, Reason(Deciding(c)))
      /\ t \in Seq(AnEvent) /\ Len(t) <= 4
      /\ Len(d) \in 0 .. 3
  BY <1>1, AfterLeaves
<1>3. \A code : Tells(t, code) <=> \/ KilledFor(c) /\ code = "TIMEOUT"
                                   \/ \E m \in Indices(c) : c[m].written = "host" /\ c[m].code = code
  BY <1>1, AfterLeaves
<1>4. f \in Nat /\ EndFrames = 5 /\ MaxFrames \in Nat /\ (broken = "no" => f + EndFrames <= MaxFrames)
  BY <1>1, <1>2, SessionAssumption DEF Typed, ACapture, EndFrames, Room
<1>5. broken = "no" => f + Len(t) + 1 <= MaxFrames
  <2> DEFINE x == Len(t)
  <2>1. x \in Nat /\ x <= 4
    BY <1>2
  <2> HIDE DEF x, f
  <2>2. broken = "no" => f + x + 1 <= MaxFrames
    BY <1>4, <2>1
  <2>3. QED
    BY <2>2 DEF x
<1>6. ASSUME ending'.code = None, ~ending'.opened PROVE t = <<>>
  <2>1. c \in Seq(ACondition)
    BY <1>1, ConditionsAre
  <2>2. c = <<>>
    <3>1. SUFFICES ASSUME c # <<>> PROVE FALSE
      OBVIOUS
    <3>2. 1 \in Indices(c)
      <4>1. Len(c) \in Nat /\ Len(c) # 0
        BY <2>1, <3>1
      <4>2. QED
        BY <4>1 DEF Indices
    <3>3. c[1].code \in Codes
      BY <2>1, <3>2, Indexed
    <3>4. QED
      BY <1>2, <1>6, <3>1, <3>3, CodesAre DEF First
  <2>3. ~KilledFor(c)
    BY <2>2 DEF KilledFor, First, None
  <2>4. Indices(c) = {}
    BY <2>2 DEF Indices
  <2> HIDE DEF c, t, d
  <2>5. \A code : ~Tells(t, code)
    BY <1>3, <2>3, <2>4
  <2>6. \A n \in Indices(d) : FALSE
    BY <1>2, <2>5 DEF Closes
  <2>7. Len(d) = 0
    BY <1>2, <2>6 DEF Indices
  <2>8. Len(t) = 0
    BY <1>2, <1>6, <2>7 DEF Closes
  <2>9. QED
    BY <1>2, <2>8
<1> HIDE DEF c, t, d, f
<1>7. Room'
  BY <1>2, <1>4, <1>5, <1>6 DEF Room, t, f
<1>8. QED
  BY <1>2, <1>7 DEF EndFits

LEMMA WriteLeavesRoom ==
    ASSUME Core, Room, EndFits, WriteEvent
    PROVE  Room' /\ EndFits'
<1> DEFINE event == Head(todo)
           end == ~ending.retry
           r == Tail(todo)
           f == capture.frames
           L == Len(todo)
<1>1. Typed /\ GoesOn /\ Bordered /\ phase = "writing" /\ todo # <<>>
  BY DEF Core, WriteEvent
<1>2. /\ todo \in Seq(AnEvent) /\ capture \in ACapture /\ said \in [Codes -> Nat]
      /\ f \in Nat /\ EndFrames = 5 /\ MaxFrames \in Nat
  BY <1>1, SessionAssumption DEF Typed, ACapture, EndFrames
<1>3. L \in Nat \ {0} /\ event \in AnEvent
  <2>1. L \in Nat /\ L # 0 /\ event \in AnEvent
    BY <1>1, <1>2
  <2> HIDE DEF L
  <2>2. QED
    BY <2>1
<1>4. broken = "no" =>
         /\ f + L + 1 <= MaxFrames
         /\ ending.retry => f + EndFrames <= MaxFrames
         /\ ending.code # None \/ ending.opened
  BY <1>1 DEF Room
<1>5. CASE Refused(end) /\ ~end /\ broken = "no" /\ LimitAtEnd
  <2> DEFINE t == todo'
             x == Len(t)
  <2>1. x \in 1 .. 2 /\ ending'.code = "LIMIT" /\ ending'.retry = FALSE
    BY <1>1, <1>5, LimitLeaves
  <2>2. capture' = capture /\ broken' = broken /\ phase' = "writing"
    BY <1>1, <1>5 DEF LimitAtEnd
  <2> HIDE DEF x
  <2>3. f + x + 1 <= MaxFrames
    <3> HIDE DEF f, L, event
    <3>1. f + EndFrames <= MaxFrames
      BY <1>4, <1>5
    <3>2. QED
      BY <1>2, <2>1, <3>1
  <2>4. "LIMIT" # None
    BY DEF None
  <2>5. QED
    BY <2>1, <2>2, <2>3, <2>4 DEF Room, EndFits, x
<1>6. CASE Refused(end) /\ end /\ broken = "no"
  <2>1. f + 1 > MaxFrames
    BY <1>6 DEF Refused
  <2> HIDE DEF f, L, event
  <2>2. QED
    BY <1>2, <1>3, <1>4, <1>6, <2>1
<1>7. CASE broken' \in {broken, "io"} /\ broken' # "no"
  BY <1>7 DEF Room, EndFits
<1>8. CASE WritesNext
  <2>1. /\ broken = "no" /\ broken' = "no" /\ phase' = "writing" /\ ending' = ending /\ todo' = r
        /\ ~Refused(end) /\ Written(event)
    BY <1>8 DEF WritesNext
  <2>2. event \in AnEvent \cup Frames /\ end \in BOOLEAN
    BY <1>3
  <2>3. capture'.frames = f + 1 /\ (~end => f + 1 + EndFrames <= MaxFrames)
    BY <1>2, <2>1, <2>2, Writing
  <2>4. Len(r) = L - 1
    BY <1>1, <1>2
  <2> DEFINE x == Len(r)
             g == capture'.frames
  <2> HIDE DEF f, L, event, x, g, r
  <2>5. g + x + 1 <= MaxFrames /\ (ending.retry => g + EndFrames <= MaxFrames)
    BY <1>2, <1>3, <1>4, <2>1, <2>3, <2>4 DEF x, g
  <2>6. QED
    BY <1>4, <2>1, <2>5 DEF Room, EndFits, x, g
<1>9. QED
  <2>1. CASE broken # "no" /\ UNCHANGED broken
    BY <1>7, <2>1
  <2>2. CASE WriteBreaks(event)
    <3>1. broken' = "io"
      BY <2>2 DEF WriteBreaks
    <3>2. QED
      BY <1>7, <3>1
  <2>3. QED
    BY <1>1, <1>5, <1>6, <1>8, <2>1, <2>2 DEF WriteEvent, WritesNext

LEMMA SettleLeavesRoom ==
    ASSUME Core, Room, EndFits, Settle
    PROVE  Room' /\ EndFits'
<1>1. phase = "writing" /\ todo = <<>> /\ capture' = capture /\ broken' = broken
      /\ outputs' = outputs
  BY DEF Settle
<1>2. capture.frames \in Nat /\ EndFrames = 5 /\ MaxFrames \in Nat
  BY SessionAssumption DEF Core, Typed, ACapture, EndFrames
<1>3. broken = "no" =>
         /\ capture.frames + 1 <= MaxFrames
         /\ ending.retry => capture.frames + EndFrames <= MaxFrames
         /\ ending.code = None /\ ~ending.opened => capture.frames + EndFrames <= MaxFrames
  <2>1. Len(todo) = 0
    BY <1>1
  <2>2. broken = "no" => capture.frames + 0 + 1 <= MaxFrames
    BY <1>1, <2>1 DEF Room
  <2>3. QED
    BY <1>1, <1>2, <2>2 DEF Room
<1>4. CASE broken # "no"
  BY <1>1, <1>4 DEF Room, EndFits
<1>5. CASE broken = "no" /\ ending.retry /\ phase' = "backoff"
  BY <1>1, <1>3, <1>5 DEF Room, EndFits
<1>6. CASE /\ broken = "no" /\ ending.code = None /\ ~ending.opened
           /\ (EndWithoutGeneration \/ EndBeforeJoin)
  BY <1>1, <1>3, <1>6, EndsInRoom
<1>7. CASE broken = "no" /\ phase' = "finish"
  BY <1>1, <1>3, <1>7 DEF Room, EndFits
<1>8. QED
  BY <1>4, <1>5, <1>6, <1>7 DEF Settle

LEMMA BackoffLeavesRoom ==
    ASSUME Core, Room, EndFits, Backoff
    PROVE  Room' /\ EndFits'
<1>1. phase = "backoff" /\ capture' = capture
  BY DEF Backoff
<1>2. broken = "no" /\ capture.frames + EndFrames <= MaxFrames
  BY <1>1 DEF Core, GoesOn, Room
<1>3. CASE (EndWithoutGeneration \/ EndBeforeJoin) /\ UNCHANGED broken
  BY <1>1, <1>2, <1>3, EndsInRoom
<1>4. CASE phase' = "attempt" /\ UNCHANGED broken
  BY <1>1, <1>2, <1>4 DEF Room, EndFits
<1>5. CASE broken' = "io"
  BY <1>5 DEF Room, EndFits
<1>6. QED
  BY <1>3, <1>4, <1>5 DEF Backoff

LEMMA FinishLeavesRoom ==
    ASSUME Core, Room, EndFits, RecordOutputs \/ Finish
    PROVE  Room' /\ EndFits'
<1>1. CASE RecordOutputs
  <2>1. /\ phase = "finish" /\ phase' = "finish" /\ outputs = "failed" /\ broken = "no"
        /\ outputs' = "recorded"
    BY <1>1 DEF RecordOutputs
  <2>2. ~Refused(TRUE)
    <3>1. capture.frames \in Nat /\ MaxFrames \in Nat /\ capture.frames + 1 <= MaxFrames
      BY <2>1, SessionAssumption DEF Core, Typed, ACapture, Room
    <3>2. QED
      BY <3>1 DEF Refused
  <2>3. broken' \in {"no", "io"}
    BY <1>1, <2>1, <2>2 DEF RecordOutputs, WriteBreaks
  <2>4. QED
    BY <2>1, <2>3 DEF Room, EndFits
<1>2. CASE Finish
  <2>1. phase' = "done" /\ broken' \in {broken, "io"}
    BY <1>2 DEF Finish
  <2>2. QED
    BY <2>1 DEF Room, EndFits
<1>3. QED
  BY <1>1, <1>2

LEMMA RoomStays ==
    ASSUME Core, Room, EndFits, [Next]_vars
    PROVE  Room' /\ EndFits'
<1>1. CASE RequestStop
  BY <1>1 DEF RequestStop, Room, EndFits
<1>2. CASE Line \/ Clock \/ Exit \/ Close
  BY <1>2, LifeLeavesRoom
<1>3. CASE Host
  BY <1>3, AttemptLeavesRoom, AfterLeavesRoom, WriteLeavesRoom, SettleLeavesRoom, BackoffLeavesRoom,
     FinishLeavesRoom DEF Host
<1>4. CASE UNCHANGED vars
  BY <1>4 DEF vars, Room, EndFits
<1>5. QED
  BY <1>1, <1>2, <1>3, <1>4 DEF Next

\* _writer.END_FRAMES: whatever ends a session of a frame limit that holds END_FRAMES at all, what is
\* kept for its end is enough.
THEOREM EndsFit ==
    ASSUME MaxFrames >= EndFrames
    PROVE  Spec => []EndFits
<1>1. Init => Core /\ Room /\ EndFits
  BY SessionBegins, RoomBegins
<1>2. Core /\ Room /\ EndFits /\ [Next]_vars => (Core /\ Room /\ EndFits)'
  BY CoreStays, RoomStays
<1>3. QED
  BY <1>1, <1>2, PTL DEF Spec

-----------------------------------------------------------------------------
\* The boundary of the last generation names what the footer does.

LEMMA LastCodeStays ==
    ASSUME Core, LastCode, [Next]_vars
    PROVE  LastCode'
<1>1. Typed /\ Recorded /\ GoesOn
  BY DEF Core
<1>2. /\ worker.conditions \in Seq(ACondition) /\ Sound(worker.conditions, failure)
      /\ failure \in Codes \cup {None}
  BY <1>1 DEF Typed, TypeOK, Life, ACondition, Recorded
<1>3. \A code \in Codes, written \in Origins :
         LastIs(worker.conditions, failure) =>
            LastIs(Noted(worker.conditions, code, written), Raised(code))
  BY <1>2, NotedSound
<1>4. CASE Lives
  <2>1. CASE broken' = "io"
    BY <2>1 DEF LastCode
  <2>2. CASE broken' = broken /\ failure' = failure /\ worker'.conditions = worker.conditions
    <3>1. phase = "worker"
      BY <1>4 DEF Lives
    <3>2. QED
      BY <2>2, <3>1 DEF LastCode
  <2>3. ASSUME broken' = broken, NEW code \in WorkerCodes \cup {"TIMEOUT"},
               worker'.conditions = Noted(worker.conditions, code, "host"), failure' = Raised(code)
        PROVE  LastCode'
    <3>1. code \in Codes /\ "host" \in Origins /\ phase = "worker"
      BY <1>4, CodesAre DEF Origins, Lives
    <3>2. QED
      BY <1>3, <2>3, <3>1 DEF LastCode
  <2>4. QED
    BY <1>4, <2>1, <2>2, <2>3 DEF Lives
<1>5. ASSUME NEW event \in Frames, FrameTaken(event)
      PROVE  LastCode'
  <2>1. phase = "worker" /\ broken = "no"
    BY <1>5 DEF FrameTaken
  <2>2. LastIs(worker.conditions, failure)
    BY <2>1 DEF LastCode
  <2>3. CASE broken' = "io"
    BY <2>3 DEF LastCode
  <2>4. CASE Heard(event)
    <3>1. event.type = "diagnostic" => event.what \in Codes
      BY SessionAssumption, CodesAre DEF Frames
    <3>2. "IO" \in Codes /\ "LIMIT" \in Codes /\ "SCHEMA" \in Codes
      BY CodesAre
    <3>3. "host" \in Origins /\ "worker" \in Origins /\ None \in Origins
      BY DEF Origins
    <3>4. ASSUME NEW code \in Codes, NEW written \in Origins, failure' = Raised(code),
                 worker'.conditions = Noted(worker.conditions, code, written)
          PROVE  LastIs(worker'.conditions, failure')
      BY <1>3, <2>2, <3>4
    <3>5. ASSUME event.type = "diagnostic", failure' = failure,
                 worker'.conditions = Marked(worker.conditions, event.what, "worker")
          PROVE  LastIs(worker'.conditions, failure')
      BY <1>2, <2>2, <3>1, <3>3, <3>5, MarkedSound
    <3>6. LastIs(worker'.conditions, failure')
      BY <2>2, <2>4, <3>1, <3>2, <3>3, <3>4, <3>5 DEF Heard
    <3>7. QED
      BY <3>6 DEF LastCode
  <2>5. QED
    BY <1>5, <2>3, <2>4 DEF FrameTaken
<1>6. CASE Line \/ Clock \/ Exit \/ Close
  BY <1>1, <1>4, <1>5, <1>6, LifeSteps
<1>7. CASE RequestStop
  <2>1. worker'.conditions = worker.conditions
    BY <1>1, <1>7 DEF RequestStop, Typed, TypeOK, Life
  <2>2. QED
    BY <1>7, <2>1 DEF RequestStop, LastCode
<1>8. CASE Attempt
  <2>1. phase = "attempt" /\ worker' = NewWorker
    BY <1>8 DEF Attempt
  <2>2. failure = None
    BY <1>1, <2>1 DEF GoesOn
  <2>3. phase' = "worker" => failure' = failure
    BY <1>8 DEF Attempt, EndWithoutGeneration, EndBeforeJoin
  <2>4. worker'.conditions = <<>>
    BY <2>1, NewWorkerIs
  <2>5. QED
    BY <2>2, <2>3, <2>4 DEF LastCode, LastIs
<1>9. CASE After \/ WriteEvent \/ Settle \/ Backoff \/ RecordOutputs \/ Finish
  <2>1. phase' # "worker"
    BY <1>9 DEF After, WriteEvent, LimitAtEnd, Settle, Backoff, RecordOutputs, Finish,
                EndWithoutGeneration, EndBeforeJoin
  <2>2. QED
    BY <2>1 DEF LastCode
<1>10. CASE UNCHANGED vars
  BY <1>10 DEF vars, LastCode
<1>11. QED
  BY <1>6, <1>7, <1>8, <1>9, <1>10 DEF Next, Host

\* The reason of a generation's end, as _after writes it.
LEMMA AfterReasons ==
    ASSUME Core, LastCode, phase = "worker", broken = "no", capture.open,
           NEW c, c = Conditions,
           NEW code, code = First(c),
           NEW settled, settled = IF code = None \/ code = "RETRACTION" THEN failure
                                  ELSE Terminal(code)
    PROVE  Reason(Deciding(c)) = IF settled = None /\ code = "RETRACTION" THEN "retraction"
                                                                         ELSE Reason(settled)
<1>1. Typed /\ Recorded /\ LastIs(worker.conditions, failure)
  BY DEF Core, LastCode
<1>2. /\ c \in Seq(ACondition) /\ Len(c) <= 2
      /\ \/ c = worker.conditions /\ worker.conditions # <<>>
         \/ c = <<>> /\ worker.conditions = <<>>
         \/ /\ worker.conditions = <<>>
            /\ \E k \in {"CONNECT", "SCHEMA"} : c = <<Condition(k, "host")>>
  BY <1>1, ConditionsAre
<1>3. CASE c = <<>> /\ worker.conditions = <<>>
  <2>1. failure = None /\ code = None /\ Deciding(c) = None
    BY <1>1, <1>3 DEF LastIs, First, Deciding
  <2>2. None # "RETRACTION"
    BY DEF None
  <2>3. QED
    BY <2>1, <2>2
<1>4. ASSUME worker.conditions = <<>>, NEW k \in {"CONNECT", "SCHEMA"}, c = <<Condition(k, "host")>>
      PROVE  Reason(Deciding(c)) = IF settled = None /\ code = "RETRACTION" THEN "retraction"
                                                                           ELSE Reason(settled)
  <2>1. failure = None
    BY <1>1, <1>4 DEF LastIs
  <2>2. Len(c) = 1 /\ c # <<>> /\ c[1].code = k
    BY <1>4 DEF Condition
  <2>3. code = k /\ Deciding(c) = k
    BY <2>2 DEF First, Deciding
  <2>4. k # None /\ k # "RETRACTION"
    BY DEF None
  <2>5. settled = k
    BY <2>1, <2>3, <2>4 DEF Terminal
  <2>6. QED
    BY <2>3, <2>4, <2>5
<1>5. CASE c = worker.conditions /\ worker.conditions # <<>>
  <2>1. code = c[1].code /\ Deciding(c) = c[Len(c)].code /\ 1 \in Indices(c)
    <3>1. Len(c) \in Nat /\ Len(c) # 0
      BY <1>2, <1>5
    <3>2. QED
      BY <1>5, <3>1 DEF First, Deciding, Indices
  <2>2. code \in Codes /\ code # None
    BY <1>2, <2>1, Indexed, CodesAre
  <2>3. CASE failure # None
    <3>1. Deciding(c) = failure
      BY <1>1, <1>5, <2>1, <2>3 DEF LastIs
    <3>2. settled = failure
      BY <2>3 DEF Terminal
    <3>3. QED
      BY <2>3, <3>1, <3>2
  <2>4. CASE failure = None
    <3>1. Len(c) # 2
      BY <1>1, <1>5, <2>4 DEF Recorded, Sound
    <3>2. Len(c) = 1
      <4> DEFINE x == Len(c)
      <4>1. x \in Nat /\ x # 0 /\ x <= 2
        BY <1>2, <1>5, Indexed
      <4> HIDE DEF x
      <4>2. x # 2
        BY <3>1 DEF x
      <4>3. x = 1
        BY <4>1, <4>2
      <4>4. QED
        BY <4>3 DEF x
    <3>3. Deciding(c) = code
      BY <2>1, <3>2
    <3>4. CASE code = "RETRACTION"
      <4>1. settled = None
        BY <2>4, <3>4
      <4>2. Reason("RETRACTION") = "retraction"
        BY DEF Reason, None
      <4>3. QED
        BY <3>3, <3>4, <4>1, <4>2
    <3>5. CASE code # "RETRACTION"
      <4>1. settled = code
        BY <2>2, <2>4, <3>5 DEF Terminal
      <4>2. QED
        BY <3>3, <3>5, <4>1
    <3>6. QED
      BY <3>4, <3>5
  <2>5. QED
    BY <2>3, <2>4
<1>6. QED
  BY <1>2, <1>3, <1>4, <1>5

LEMMA LimitIs ==
    NamedBy("LIMIT") = "limit"
BY DEF NamedBy, Reason, None

\* The last of the events is written, and another is left.
LEMMA WritesReasoned ==
    ASSUME Core, Reasoned, WritesNext
    PROVE  Reasoned'
<1> DEFINE event == Head(todo)
           r == Tail(todo)
           n == NamedBy(Settled)
<1>1. /\ phase = "writing" /\ todo # <<>> /\ broken = "no" /\ ~Refused(~ending.retry)
      /\ Written(event) /\ todo' = r /\ phase' = "writing"
      /\ UNCHANGED <<failure, broken, ending>>
  BY DEF WritesNext
<1>2. /\ todo \in Seq(AnEvent) /\ capture \in ACapture /\ said \in [Codes -> Nat]
      /\ \A i \in Indices(todo) : todo[i].type = "end" => i = Len(todo)
  BY <1>1 DEF Core, Typed, Bordered
<1>3. /\ event \in AnEvent
      /\ event.type = "end" => r = <<>> /\ EndIsLast(todo)
      /\ EndIsLast(r) <=> EndIsLast(todo) /\ event.type # "end"
      /\ EndIsLast(r) => r[Len(r)] = todo[Len(todo)]
      /\ EndIsLast(todo) /\ ~EndIsLast(r) => event = todo[Len(todo)]
  BY <1>1, <1>2, TakenOff
<1>4. (~ending.retry) \in BOOLEAN /\ event \in AnEvent \cup Frames
  BY <1>3
<1>5. event.type \in {"diagnostic", "end"}
  BY <1>3 DEF AnEvent
<1>6. /\ event.type = "end" => capture'.reason = event.what
      /\ event.type = "diagnostic" => capture'.reason = capture.reason
  BY <1>1, <1>2, <1>4, Writing
<1>7. NamedBy(Settled)' = n
  BY <1>1 DEF NamedBy, Settled, Terminal
<1> HIDE DEF event, r, n
<1>8. EndWaits' <=> EndIsLast(r)
  BY <1>1 DEF EndWaits, EndIsLast
<1>9. SUFFICES ASSUME ending.opened, ~ending.forced
               PROVE  /\ EndWaits' => todo'[Len(todo')].what = n
                      /\ ~EndWaits' => capture'.reason = n
                      /\ ending.retry /\ r # <<>> => EndWaits'
  BY <1>1, <1>7 DEF Reasoned
<1>10. /\ EndIsLast(todo) => todo[Len(todo)].what = n
       /\ ~EndIsLast(todo) => capture.reason = n
       /\ ending.retry => EndIsLast(todo)
  BY <1>1, <1>9 DEF Reasoned, EndWaits, n
<1>11. EndWaits' => todo'[Len(todo')].what = n
  BY <1>1, <1>3, <1>8, <1>10
<1>12. ~EndWaits' => capture'.reason = n
  BY <1>3, <1>5, <1>6, <1>8, <1>10
<1>13. ending.retry /\ r # <<>> => EndWaits'
  BY <1>3, <1>8, <1>10
<1>14. QED
  BY <1>11, <1>12, <1>13

LEMMA ReasonedStays ==
    ASSUME Core, LastCode, Reasoned, [Next]_vars
    PROVE  Reasoned'
<1>1. Typed /\ Recorded /\ GoesOn /\ Bordered
  BY DEF Core
<1>2. CASE phase' \in {"attempt", "worker", "backoff"}
  BY <1>2 DEF Reasoned
<1>3. CASE broken' # "no"
  BY <1>3 DEF Reasoned
<1>4. ASSUME EndWithoutGeneration \/ EndBeforeJoin PROVE Reasoned'
  <2>1. ending'.opened = FALSE
    BY <1>4 DEF EndWithoutGeneration, EndBeforeJoin, Nothing
  <2>2. QED
    BY <2>1 DEF Reasoned
<1>5. CASE RequestStop
  BY <1>2, <1>5 DEF RequestStop
<1>6. CASE Line \/ Clock \/ Exit \/ Close
  <2>1. phase' = "worker"
    BY <1>1, <1>6, LifeSteps DEF Lives, InSession, FrameTaken
  <2>2. QED
    BY <1>2, <2>1
<1>7. CASE Attempt
  <2>1. ASSUME ending' = [Nothing EXCEPT !.code = "PIN"] PROVE Reasoned'
    <3>1. ending'.opened = FALSE
      BY <2>1 DEF Nothing
    <3>2. QED
      BY <3>1 DEF Reasoned
  <2>2. QED
    BY <1>2, <1>4, <1>7, <2>1 DEF Attempt
<1>8. ASSUME After, broken' = "no" PROVE Reasoned'
  <2> DEFINE c == Conditions
             code == First(c)
             t == todo'
             settled == IF code = None \/ code = "RETRACTION" THEN failure ELSE Terminal(code)
  <2>1. /\ phase = "worker" /\ phase' = "writing" /\ broken = "no" /\ failure' = failure
        /\ ending'.code = code /\ ending'.opened = capture.open
    BY <1>1, <1>8, AfterLeaves
  <2>2. Closes(t, LeftOver(c, KilledFor(c)), capture.open, Reason(Deciding(c)))
    BY <1>1, <1>8, AfterLeaves
  <2> HIDE DEF t, c
  <2>3. SUFFICES ASSUME capture.open PROVE Reasoned'
    BY <2>1 DEF Reasoned
  <2>4. EndIsLast(t) /\ t[Len(t)] = Event("end", Reason(Deciding(c)))
    BY <2>2, <2>3 DEF Closes
  <2>5. EndWaits'
    BY <2>4 DEF EndWaits, EndIsLast, t
  <2>6. Reason(Deciding(c)) = IF settled = None /\ code = "RETRACTION" THEN "retraction"
                                                                     ELSE Reason(settled)
    BY <2>1, <2>3, AfterReasons DEF c
  <2>7. Settled' = settled
    BY <2>1, <2>3 DEF Settled, Terminal
  <2> HIDE DEF settled, code
  <2>8. NamedBy(Settled)' = IF settled = None /\ code = "RETRACTION" THEN "retraction"
                                                                    ELSE Reason(settled)
    BY <2>1, <2>7 DEF NamedBy, Reason
  <2>9. todo'[Len(todo')].what = NamedBy(Settled)'
    BY <2>4, <2>6, <2>8 DEF Event, t
  <2>10. QED
    BY <2>1, <2>5, <2>9 DEF Reasoned
<1>9. ASSUME WriteEvent, broken' = "no" PROVE Reasoned'
  <2>1. phase = "writing" /\ todo # <<>>
    BY <1>9 DEF WriteEvent
  <2>2. CASE ending.retry /\ broken = "no" /\ LimitAtEnd
    <3> DEFINE t == todo'
    <3>1. /\ capture.open <=> EndIsLast(t)
          /\ capture.open => t[Len(t)] = Event("end", "limit")
          /\ ending'.code = "LIMIT" /\ ending'.retry = FALSE
          /\ ending'.forced = ending.forced /\ ending'.opened = ending.opened
      BY <1>1, <2>2, LimitLeaves
    <3>2. phase' = "writing" /\ failure' = failure /\ failure = None
      BY <1>1, <2>1, <2>2 DEF LimitAtEnd, GoesOn
    <3>3. SUFFICES ASSUME ending.opened, ~ending.forced PROVE Reasoned'
      BY <3>1 DEF Reasoned
    <3>4. capture.open
      BY <1>1, <2>1, <2>2, <3>3 DEF Reasoned, Bordered
    <3>5. EndWaits' /\ todo'[Len(todo')].what = "limit"
      BY <3>1, <3>4 DEF EndWaits, EndIsLast, Event
    <3>6. NamedBy(Settled)' = "limit"
      <4>1. Settled' = "LIMIT"
        BY <3>1, <3>2 DEF Settled, Terminal, None
      <4>2. NamedBy(Settled)' = Reason("LIMIT")
        BY <3>1, <4>1 DEF NamedBy, Reason
      <4>3. QED
        BY <4>2 DEF Reason, None
    <3>7. QED
      BY <3>1, <3>2, <3>5, <3>6 DEF Reasoned
  <2>3. CASE WritesNext
    BY <2>3, WritesReasoned
  <2>4. QED
    BY <1>9, <2>1, <2>2, <2>3 DEF WriteEvent, WriteBreaks, WritesNext
<1>10. ASSUME Settle, broken' = "no" PROVE Reasoned'
  <2>1. phase = "writing" /\ todo = <<>> /\ UNCHANGED <<capture, broken, outputs>>
    BY <1>10 DEF Settle
  <2>2. CASE EndWithoutGeneration \/ EndBeforeJoin
    BY <1>4, <2>2
  <2>3. CASE phase' = "backoff"
    BY <1>2, <2>3
  <2>4. CASE /\ failure' = CASE ending.code = None -> failure
                           [] ending.forced      -> Terminal("TIMEOUT")
                           [] ~ending.forced /\ ending.code = "RETRACTION" /\ ending.opened
                                                 -> failure
                           [] OTHER              -> Terminal(ending.code)
             /\ phase' = "finish" /\ UNCHANGED <<todo, ending>>
    <3>1. SUFFICES ASSUME ending.opened, ~ending.forced PROVE capture.reason = NamedBy(failure)'
      BY <2>1, <2>4 DEF Reasoned
    <3>2. ~EndWaits
      BY <2>1 DEF EndWaits, EndIsLast
    <3>3. capture.reason = NamedBy(Settled)
      BY <1>10, <2>1, <3>1, <3>2 DEF Reasoned
    <3>4. failure' = Settled
      BY <2>4, <3>1 DEF Settled
    <3>5. NamedBy(failure)' = NamedBy(Settled)
      BY <2>4, <3>4 DEF NamedBy, Reason
    <3>6. QED
      BY <3>3, <3>5
  <2>5. QED
    BY <1>10, <2>2, <2>3, <2>4 DEF Settle
<1>11. CASE Backoff
  BY <1>2, <1>3, <1>4, <1>11 DEF Backoff
<1>12. CASE RecordOutputs
  <2>1. phase' = "finish" /\ outputs' = "recorded"
    BY <1>12 DEF RecordOutputs
  <2>2. QED
    BY <2>1 DEF Reasoned
<1>13. ASSUME Finish, broken' = "no" PROVE Reasoned'
  <2>1. /\ phase = "finish" /\ phase' = "done" /\ broken = "no" /\ failure' = failure
        /\ UNCHANGED <<outputs, ending>>
        /\ capture' = [capture EXCEPT !.footer = Footer]
    BY <1>13 DEF Finish
  <2>2. capture'.reason = capture.reason
    BY <1>1, <2>1 DEF Typed, ACapture
  <2>3. NamedBy(failure)' = NamedBy(failure)
    BY <2>1 DEF NamedBy, Reason
  <2>4. QED
    BY <2>1, <2>2, <2>3 DEF Reasoned
<1>14. CASE UNCHANGED vars
  BY <1>14 DEF vars, Reasoned, EndWaits, EndIsLast, NamedBy, Reason, Settled, Terminal
<1>15. QED
  BY <1>3, <1>5, <1>6, <1>7, <1>8, <1>9, <1>10, <1>11, <1>12, <1>13, <1>14 DEF Next, Host

\* host.py, "WHEN A WORKER ENDS" (NAT-08): where the derived records are whole and the worker was not
\* killed for a retraction, the reason the last generation's end gives follows from the footer's code.
THEOREM BoundariesFollowFooters == Spec => []BoundaryFollowsFooter
<1>1. Init => Core /\ LastCode /\ Reasoned
  BY SessionBegins DEF Init, LastCode, Reasoned
<1>2. Core /\ LastCode /\ Reasoned /\ [Next]_vars => (Core /\ LastCode /\ Reasoned)'
  BY CoreStays, LastCodeStays, ReasonedStays
<1>3. Reasoned => BoundaryFollowsFooter
  BY DEF Reasoned, BoundaryFollowsFooter, Named, NamedBy
<1>4. QED
  BY <1>1, <1>2, <1>3, PTL DEF Spec

-----------------------------------------------------------------------------
\* Each condition has its diagnostic, once.

\* A condition of the noted ones is one there was, or the new one in the last place.
LEMMA NotedEach ==
    ASSUME NEW conditions \in Seq(ACondition), NEW code \in Codes, NEW written \in Origins
    PROVE  \A n \in Indices(Noted(conditions, code, written)) :
              LET c == Noted(conditions, code, written)[n]
              IN  \/ n \in Indices(conditions) /\ c = conditions[n]
                  \/ /\ c.code = code /\ c.written = written
                     /\ \/ conditions = <<>> /\ n = 1
                        \/ NeverRetried(code) /\ failure = None
<1> DEFINE row == Condition(code, written)
           noted == Noted(conditions, code, written)
           more == Append(conditions, row)
<1>1. row.code = code /\ row.written = written
  BY DEF Condition
<1>2. CASE conditions = <<>> \/ (NeverRetried(code) /\ failure = None /\ code \notin CodesOf(conditions))
  <2>1. noted = more
    BY <1>2 DEF Noted
  <2>2. /\ row \in ACondition /\ Len(conditions) \in Nat
    BY DEF Condition, ACondition, Origins
  <2> HIDE DEF row
  <2>3. /\ Len(more) = Len(conditions) + 1 /\ more[Len(conditions) + 1] = row
        /\ \A n \in Indices(conditions) : more[n] = conditions[n]
    BY <2>2 DEF Indices
  <2>4. \A n \in Indices(more) : n \in Indices(conditions) \/ n = Len(conditions) + 1
    BY <2>2, <2>3 DEF Indices
  <2>5. conditions = <<>> => Len(conditions) + 1 = 1
    OBVIOUS
  <2> HIDE DEF more, noted
  <2>6. QED
    BY <1>1, <1>2, <2>1, <2>3, <2>4, <2>5 DEF noted
<1>3. CASE ~(conditions = <<>> \/ (NeverRetried(code) /\ failure = None /\ code \notin CodesOf(conditions)))
  <2>1. noted = conditions
    BY <1>3 DEF Noted
  <2>2. QED
    BY <2>1
<1>4. QED
  BY <1>2, <1>3

\* What a life's conditions say of the diagnostics captured in it.
Diagnosed(conditions, code, told, derived) ==
    /\ conditions = <<>> => \A c \in Codes : told[c] = 0
    /\ code = None => \A c \in Codes : NeverRetried(c) => told[c] = 0
    /\ told["IO"] = 0 /\ told["TIMEOUT"] = 0
    /\ \A n \in Indices(conditions) :
          /\ conditions[n].written = "host" => told[conditions[n].code] = 0
          /\ conditions[n].written = "worker" => told[conditions[n].code] >= 1
          /\ conditions[n].code = "TIMEOUT" => n = 1
          /\ conditions[n].code = "IO" => derived = "failed"

LEMMA CountedIs ==
    Counted <=> (phase = "worker" /\ broken = "no" =>
                    Diagnosed(worker.conditions, failure, said, outputs))
BY DEF Counted, Diagnosed

\* A condition more, of which the capture holds no diagnostic.
LEMMA NotedDiagnosed ==
    ASSUME NEW conditions \in Seq(ACondition), Diagnosed(conditions, failure, said, outputs),
           Sound(conditions, failure), failure \in Codes \cup {None},
           NEW code \in Codes, NEW written \in {"host", None},
           code = "TIMEOUT" => conditions = <<>>,
           NEW derived, outputs = "failed" => derived = "failed",
           code = "IO" => derived = "failed"
    PROVE  Diagnosed(Noted(conditions, code, written), Raised(code), said, derived)
<1> DEFINE noted == Noted(conditions, code, written)
<1>1. written \in Origins
  BY DEF Origins
<1>2. noted # <<>> /\ (Raised(code) = None => failure = None)
  BY <1>1, NotedSound
<1>3. \A n \in Indices(noted) :
         \/ n \in Indices(conditions) /\ noted[n] = conditions[n]
         \/ /\ noted[n].code = code /\ noted[n].written = written
            /\ \/ conditions = <<>> /\ n = 1
               \/ NeverRetried(code) /\ failure = None
  BY <1>1, NotedEach
<1> HIDE DEF noted
<1>4. said[code] = 0 \/ ~(conditions = <<>> \/ (NeverRetried(code) /\ failure = None))
  BY DEF Diagnosed
<1>5. NeverRetried("TIMEOUT") = FALSE
  BY DEF NeverRetried, Transient
<1>6. ASSUME NEW n \in Indices(noted)
      PROVE  /\ noted[n].written = "host" => said[noted[n].code] = 0
             /\ noted[n].written = "worker" => said[noted[n].code] >= 1
             /\ noted[n].code = "TIMEOUT" => n = 1
             /\ noted[n].code = "IO" => derived = "failed"
  <2>1. CASE n \in Indices(conditions) /\ noted[n] = conditions[n]
    BY <2>1 DEF Diagnosed
  <2>2. CASE /\ noted[n].code = code /\ noted[n].written = written
             /\ \/ conditions = <<>> /\ n = 1
                \/ NeverRetried(code) /\ failure = None
    <3>1. said[code] = 0 /\ written # "worker"
      BY <1>4, <2>2 DEF None
    <3>2. code = "TIMEOUT" => n = 1
      BY <1>5, <2>2
    <3>3. QED
      BY <2>2, <3>1, <3>2
  <2>3. QED
    BY <1>3, <2>1, <2>2
<1>7. QED
  BY <1>2, <1>6 DEF Diagnosed, noted

\* A frame of the worker's, once it is captured.
LEMMA HeardDiagnosed ==
    ASSUME Core, phase = "worker", broken = "no", Diagnosed(worker.conditions, failure, said, outputs),
           NEW event \in Frames, ~Refused(FALSE), Written(event), outputs' \in OutputsAfter,
           Heard(event)
    PROVE  Diagnosed(worker'.conditions, failure', said', outputs')
<1> DEFINE c == worker.conditions
           what == event.what
<1>1. /\ c \in Seq(ACondition) /\ Sound(c, failure) /\ failure \in Codes \cup {None}
      /\ said \in [Codes -> Nat] /\ capture \in ACapture
      /\ outputs \in {"ok", "failed"}
  BY DEF Core, Typed, TypeOK, Life, ACondition, Recorded, GoesOn
<1>2. outputs' \in {"ok", "failed"} /\ (outputs = "failed" => outputs' = "failed")
  BY <1>1 DEF OutputsAfter
<1>3. event.type = "diagnostic" => what \in WorkerCodes /\ what \in Codes /\ what # "IO" /\ what # "TIMEOUT"
  BY SessionAssumption, CodesAre DEF Frames
<1>4. FALSE \in BOOLEAN /\ event \in AnEvent \cup Frames
  OBVIOUS
<1>5. /\ said' \in [Codes -> Nat]
      /\ event.type = "diagnostic" =>
            said'[what] = said[what] + 1 /\ \A k \in Codes \ {what} : said'[k] = said[k]
      /\ event.type # "diagnostic" => said' = said
  BY <1>1, <1>4, Writing
<1>6. said'["IO"] = 0 /\ said'["TIMEOUT"] = 0
  BY <1>3, <1>5, CodesAre DEF Diagnosed
<1>7. event.type = "diagnostic" => said'[what] >= 1
  BY <1>1, <1>3, <1>5
<1>8. \A n \in Indices(c) : c[n].code \in Codes
  BY <1>1, Indexed
<1>9. CASE /\ outputs' # "ok" /\ c = <<>>
           /\ worker'.conditions = Noted(c, "IO", "host") /\ failure' = Raised("IO")
  <2>1. "IO" \in Codes /\ "host" \in Origins
    BY CodesAre DEF Origins
  <2>2. Raised("IO") # None /\ Noted(c, "IO", "host") # <<>>
    <3>1. NeverRetried("IO")
      BY DEF NeverRetried, Transient
    <3>2. QED
      BY <1>1, <2>1, <3>1, NotedSound
  <2>3. \A n \in Indices(Noted(c, "IO", "host")) :
           Noted(c, "IO", "host")[n].code = "IO" /\ Noted(c, "IO", "host")[n].written = "host"
    <3>1. Indices(c) = {}
      BY <1>9 DEF Indices
    <3>2. QED
      BY <1>1, <2>1, <3>1, NotedEach
  <2>4. QED
    BY <1>2, <1>6, <1>9, <2>2, <2>3 DEF Diagnosed
<1>10. CASE /\ event.type = "diagnostic" /\ what \in CodesOf(c) /\ failure' = failure
            /\ worker'.conditions = Marked(c, what, "worker")
  <2> DEFINE m == Marked(c, what, "worker")
  <2>1. what \in Codes /\ "worker" \in Origins
    BY <1>3, <1>10 DEF Origins
  <2>2. /\ Len(m) = Len(c) /\ (m = <<>> <=> c = <<>>)
        /\ \A n \in Indices(c) :
              /\ m[n].code = c[n].code
              /\ m[n].written = IF c[n].code = what THEN "worker" ELSE c[n].written
    BY <1>1, <2>1, MarkedSound
  <2>3. PICK i \in Indices(c) : c[i].code = what
    BY <1>1, <1>10, Indexed
  <2>4. c # <<>>
    BY <2>3 DEF Indices
  <2>5. failure = None => ~NeverRetried(what)
    BY <1>1, <2>3 DEF Sound
  <2> HIDE DEF m, c
  <2>6. Indices(m) = Indices(c)
    BY <2>2 DEF Indices
  <2>7. failure' = None => \A k \in Codes : NeverRetried(k) => said'[k] = 0
    BY <1>5, <1>10, <2>5 DEF Diagnosed, c
  <2>8. ASSUME NEW n \in Indices(m)
        PROVE  /\ m[n].written = "host" => said'[m[n].code] = 0
               /\ m[n].written = "worker" => said'[m[n].code] >= 1
               /\ m[n].code = "TIMEOUT" => n = 1
               /\ m[n].code = "IO" => outputs' = "failed"
    <3>1. /\ c[n].written = "host" => said[c[n].code] = 0
          /\ c[n].written = "worker" => said[c[n].code] >= 1
          /\ c[n].code = "TIMEOUT" => n = 1
          /\ c[n].code = "IO" => outputs = "failed"
      BY <2>6, <2>8 DEF Diagnosed, c
    <3>2. CASE c[n].code = what
      BY <1>2, <1>3, <1>7, <1>10, <2>2, <2>6, <3>1, <3>2
    <3>3. CASE c[n].code # what
      <4>1. said'[c[n].code] = said[c[n].code]
        BY <1>5, <1>8, <1>10, <2>6, <3>3
      <4>2. QED
        BY <1>2, <2>2, <2>6, <3>1, <3>3, <4>1
    <3>4. QED
      BY <3>2, <3>3
  <2>9. m # <<>>
    BY <2>2, <2>4
  <2>10. QED
    BY <1>6, <1>10, <2>7, <2>8, <2>9 DEF Diagnosed, m
<1>11. CASE /\ event.type = "diagnostic" /\ what \notin CodesOf(c) /\ failure' = Raised(what)
            /\ worker'.conditions = Noted(c, what, "worker")
  <2> DEFINE m == Noted(c, what, "worker")
  <2>1. what \in Codes /\ "worker" \in Origins
    BY <1>3, <1>11 DEF Origins
  <2>2. m # <<>> /\ (Raised(what) = None => failure = None /\ ~NeverRetried(what))
    BY <1>1, <2>1, NotedSound
  <2>3. \A n \in Indices(m) :
           \/ n \in Indices(c) /\ m[n] = c[n]
           \/ m[n].code = what /\ m[n].written = "worker"
    BY <1>1, <2>1, NotedEach
  <2>4. \A n \in Indices(c) : c[n].code # what
    BY <1>1, <1>11, Indexed
  <2> HIDE DEF m, c
  <2>5. failure' = None => \A k \in Codes : NeverRetried(k) => said'[k] = 0
    BY <1>5, <1>11, <2>2 DEF Diagnosed, c
  <2>6. ASSUME NEW n \in Indices(m)
        PROVE  /\ m[n].written = "host" => said'[m[n].code] = 0
               /\ m[n].written = "worker" => said'[m[n].code] >= 1
               /\ m[n].code = "TIMEOUT" => n = 1
               /\ m[n].code = "IO" => outputs' = "failed"
    <3>1. CASE n \in Indices(c) /\ m[n] = c[n]
      <4>1. /\ c[n].written = "host" => said[c[n].code] = 0
            /\ c[n].written = "worker" => said[c[n].code] >= 1
            /\ c[n].code = "TIMEOUT" => n = 1
            /\ c[n].code = "IO" => outputs = "failed"
        BY <3>1 DEF Diagnosed, c
      <4>2. said'[c[n].code] = said[c[n].code]
        BY <1>5, <1>8, <1>11, <2>4, <3>1
      <4>3. QED
        BY <1>2, <3>1, <4>1, <4>2
    <3>2. CASE m[n].code = what /\ m[n].written = "worker"
      BY <1>3, <1>7, <1>11, <3>2
    <3>3. QED
      BY <2>3, <3>1, <3>2
  <2>7. QED
    BY <1>6, <1>11, <2>2, <2>5, <2>6 DEF Diagnosed, m
<1>12. CASE event.type # "diagnostic" /\ worker'.conditions = c /\ failure' = failure
  BY <1>2, <1>5, <1>12 DEF Diagnosed
<1>13. ASSUME event.type = "data", NEW code \in {"LIMIT", "SCHEMA"},
              worker'.conditions = Noted(c, code, None), failure' = Raised(code)
       PROVE  Diagnosed(worker'.conditions, failure', said', outputs')
  <2>1. code \in Codes /\ None \in {"host", None} /\ code # "TIMEOUT" /\ code # "IO"
    BY CodesAre
  <2>2. said' = said
    BY <1>5, <1>13
  <2> HIDE DEF c
  <2>3. Diagnosed(Noted(c, code, None), Raised(code), said, outputs')
    BY <1>1, <1>2, <2>1, NotedDiagnosed DEF c
  <2>4. QED
    BY <1>13, <2>2, <2>3
<1>14. QED
  BY <1>9, <1>10, <1>11, <1>12, <1>13 DEF Heard

LEMMA CountedStays ==
    ASSUME Core, Counted, [Next]_vars
    PROVE  Counted'
<1>1. /\ Typed /\ Recorded /\ GoesOn
      /\ worker.conditions \in Seq(ACondition) /\ Sound(worker.conditions, failure)
      /\ failure \in Codes \cup {None}
  BY DEF Core, Typed, TypeOK, Life, ACondition, Recorded
<1>2. Counted' <=> (phase' = "worker" /\ broken' = "no" =>
                       Diagnosed(worker'.conditions, failure', said', outputs'))
  BY DEF Counted, Diagnosed, Indices
<1>3. CASE Lives
  <2>1. phase = "worker" /\ phase' = phase /\ said' = said /\ outputs' = outputs
    BY <1>3 DEF Lives, InSession
  <2>2. SUFFICES ASSUME broken = "no", broken' = "no"
                 PROVE  Diagnosed(worker'.conditions, failure', said', outputs')
    <3>1. broken' = "no" => broken = "no"
      BY <1>3 DEF Lives
    <3>2. QED
      BY <1>2, <3>1
  <2>3. Diagnosed(worker.conditions, failure, said, outputs)
    BY <2>1, <2>2, CountedIs
  <2>4. CASE failure' = failure /\ worker'.conditions = worker.conditions
    BY <2>1, <2>3, <2>4
  <2>5. ASSUME NEW code \in WorkerCodes \cup {"TIMEOUT"}, code = "TIMEOUT" => worker.conditions = <<>>,
               worker'.conditions = Noted(worker.conditions, code, "host"), failure' = Raised(code)
        PROVE  Diagnosed(worker'.conditions, failure', said', outputs')
    <3>1. code \in Codes /\ code # "IO" /\ "host" \in {"host", None}
      BY CodesAre
    <3>2. Diagnosed(Noted(worker.conditions, code, "host"), Raised(code), said, outputs)
      BY <1>1, <2>3, <2>5, <3>1, NotedDiagnosed
    <3>3. QED
      BY <2>1, <2>5, <3>2
  <2>6. QED
    BY <1>3, <2>2, <2>4, <2>5 DEF Lives
<1>4. ASSUME NEW event \in Frames, FrameTaken(event)
      PROVE  Counted'
  <2>1. phase = "worker" /\ broken = "no" /\ ~Refused(FALSE)
    BY <1>4 DEF FrameTaken
  <2>2. CASE broken' = "io"
    BY <1>2, <2>2
  <2>3. CASE Written(event) /\ outputs' \in OutputsAfter /\ Heard(event)
    <3>1. Diagnosed(worker.conditions, failure, said, outputs)
      BY <2>1, CountedIs
    <3>2. QED
      BY <1>2, <2>1, <2>3, <3>1, HeardDiagnosed
  <2>4. QED
    BY <1>4, <2>2, <2>3 DEF FrameTaken
<1>5. CASE Line \/ Clock \/ Exit \/ Close
  BY <1>1, <1>3, <1>4, <1>5, LifeSteps
<1>6. CASE RequestStop
  <2>1. worker'.conditions = worker.conditions
    BY <1>1, <1>6 DEF RequestStop, Typed, TypeOK, Life
  <2>2. UNCHANGED <<phase, failure, broken, outputs, said>>
    BY <1>6 DEF RequestStop
  <2>3. QED
    BY <1>2, <2>1, <2>2, CountedIs
<1>7. CASE Attempt
  <2>1. worker' = NewWorker /\ said' = [c \in Codes |-> 0] /\ worker'.conditions = <<>>
    BY <1>7, NewWorkerIs DEF Attempt
  <2>2. \A c \in Codes : said'[c] = 0
    BY <2>1
  <2>3. Indices(<<>>) = {}
    BY DEF Indices
  <2>4. Diagnosed(<<>>, failure', said', outputs')
    BY <2>2, <2>3, CodesAre DEF Diagnosed
  <2>5. QED
    BY <1>2, <2>1, <2>4
<1>8. CASE After \/ WriteEvent \/ Settle \/ Backoff \/ RecordOutputs \/ Finish
  <2>1. phase' # "worker"
    BY <1>8 DEF After, WriteEvent, LimitAtEnd, Settle, Backoff, RecordOutputs, Finish,
                EndWithoutGeneration, EndBeforeJoin
  <2>2. QED
    BY <1>2, <2>1
<1>9. CASE UNCHANGED vars
  BY <1>2, <1>9, CountedIs DEF vars
<1>10. QED
  BY <1>5, <1>6, <1>7, <1>8, <1>9 DEF Next, Host

\* What the capture and the events still to write make of the conditions of a life that ended.
Told(conditions, told, events, writing, derived) ==
    /\ \A n \in Indices(conditions) :
          /\ conditions[n].written = "host" =>
                told[conditions[n].code] = IF writing /\ Tells(events, conditions[n].code) THEN 0 ELSE 1
          /\ conditions[n].written = "worker" => told[conditions[n].code] >= 1
    /\ told["IO"] <= 1 /\ told["TIMEOUT"] <= 1
    /\ told["IO"] = 1 => derived = "recorded"
    /\ writing =>
          /\ \A m, n \in Indices(events) : events[m] = events[n] => m = n
          /\ Tells(events, "IO") => derived = "failed"
          /\ Tells(events, "TIMEOUT") => told["TIMEOUT"] = 0

Settling == phase \in {"writing", "backoff", "finish", "done"} /\ broken = "no"

LEMMA AccountedIs ==
    Accounted <=> (Settling => Told(ending.conditions, said, todo, phase = "writing", outputs))
BY DEF Accounted, Settling, Told, Waits, Tells

\* Nothing is told of yet, and one event at most waits, of neither kind.
LEMMA ToldNothing ==
    ASSUME NEW told, told["IO"] <= 1, told["TIMEOUT"] <= 1, NEW derived,
           told["IO"] = 1 => derived = "recorded", NEW events, NEW writing \in BOOLEAN,
           writing => /\ \A m, n \in Indices(events) : events[m] = events[n] => m = n
                      /\ ~Tells(events, "IO") /\ ~Tells(events, "TIMEOUT")
    PROVE  Told(<<>>, told, events, writing, derived)
<1>1. Indices(<<>>) = {}
  BY DEF Indices
<1>2. QED
  BY <1>1 DEF Told

LEMMA AfterTold ==
    ASSUME Core, Counted, After, broken = "no"
    PROVE  Told(Conditions, said, todo', TRUE, outputs)
<1> DEFINE c == Conditions
           t == todo'
           w == worker.conditions
           forced == KilledFor(c)
<1>1. Typed /\ Recorded /\ phase = "worker"
  BY DEF Core, After
<1>2. Diagnosed(w, failure, said, outputs)
  BY <1>1, CountedIs
<1>3. /\ \A code : Tells(t, code)
            <=> \/ forced /\ code = "TIMEOUT"
                \/ \E m \in Indices(c) : c[m].written = "host" /\ c[m].code = code
      /\ (forced => "TIMEOUT" \notin CodesOf(c)) => \A m, n \in Indices(t) : t[m] = t[n] => m = n
  BY <1>1, AfterLeaves
<1>4. /\ c \in Seq(ACondition)
      /\ \/ c = w /\ w # <<>>
         \/ c = <<>> /\ w = <<>>
         \/ w = <<>> /\ \E k \in {"CONNECT", "SCHEMA"} : c = <<Condition(k, "host")>>
  BY <1>1, ConditionsAre
<1> HIDE DEF c, t, w
<1>5. ASSUME NEW n \in Indices(c)
      PROVE  /\ c[n].written = "host" => said[c[n].code] = 0
             /\ c[n].written = "worker" => said[c[n].code] >= 1
             /\ c[n].code = "TIMEOUT" => n = 1
             /\ c[n].code = "IO" => outputs = "failed"
  <2>1. CASE c = w /\ w # <<>>
    BY <1>2, <1>5, <2>1 DEF Diagnosed
  <2>2. CASE c = <<>>
    BY <1>5, <2>2 DEF Indices
  <2>3. ASSUME w = <<>>, NEW k \in {"CONNECT", "SCHEMA"}, c = <<Condition(k, "host")>>
        PROVE  c[n].written = "host" /\ c[n].code = k /\ said[k] = 0
    <3>1. n = 1
      BY <1>5, <2>3 DEF Indices
    <3>2. c[1].written = "host" /\ c[1].code = k
      BY <2>3 DEF Condition
    <3>3. k \in Codes
      BY CodesAre
    <3>4. QED
      BY <1>2, <2>3, <3>1, <3>2, <3>3 DEF Diagnosed
  <2>4. CASE w = <<>> /\ \E k \in {"CONNECT", "SCHEMA"} : c = <<Condition(k, "host")>>
    <3>1. PICK k \in {"CONNECT", "SCHEMA"} : c = <<Condition(k, "host")>>
      BY <2>4
    <3>2. c[n].written = "host" /\ c[n].code = k /\ said[k] = 0
      BY <2>3, <2>4, <3>1
    <3>3. k # "TIMEOUT" /\ k # "IO"
      OBVIOUS
    <3>4. QED
      BY <3>2, <3>3
  <2>5. QED
    BY <1>4, <2>1, <2>2, <2>4
<1>6. forced => "TIMEOUT" \notin CodesOf(c)
  <2>1. SUFFICES ASSUME forced, NEW n \in Indices(c), c[n].code = "TIMEOUT" PROVE FALSE
    BY <1>4, Indexed
  <2>2. n = 1
    BY <1>5, <2>1
  <2>3. c[1].code = "RETRACTION"
    BY <2>1 DEF KilledFor, First, None
  <2>4. QED
    BY <2>1, <2>2, <2>3
<1>7. said["IO"] = 0 /\ said["TIMEOUT"] = 0
  BY <1>2 DEF Diagnosed
<1> HIDE DEF forced
<1>8. ASSUME NEW n \in Indices(c), c[n].written = "host"
      PROVE  Tells(t, c[n].code)
  BY <1>3, <1>8
<1>9. Tells(t, "IO") => outputs = "failed"
  BY <1>3, <1>5
<1>10. \A m, n \in Indices(t) : t[m] = t[n] => m = n
  BY <1>3, <1>6
<1>11. \A n \in Indices(c) :
          /\ c[n].written = "host" => said[c[n].code] = 0 /\ Tells(t, c[n].code)
          /\ c[n].written = "worker" => said[c[n].code] >= 1
  BY <1>5, <1>8
<1>12. Told(c, said, t, TRUE, outputs)
  BY <1>7, <1>9, <1>10, <1>11 DEF Told
<1>13. QED
  BY <1>12 DEF c, t

\* The next of the events is written: its diagnostic is told of.
LEMMA WritesTold ==
    ASSUME Core, WritesNext, Told(ending.conditions, said, todo, TRUE, outputs)
    PROVE  Told(ending.conditions, said', todo', TRUE, outputs')
<1> DEFINE event == Head(todo)
           what == event.what
           r == Tail(todo)
           c == ending.conditions
<1>1. /\ phase = "writing" /\ todo # <<>> /\ broken = "no" /\ ~Refused(~ending.retry)
      /\ Written(event) /\ todo' = r
  BY DEF WritesNext
<1>2. /\ todo \in Seq(AnEvent) /\ capture \in ACapture /\ said \in [Codes -> Nat]
      /\ \A i \in Indices(todo) : todo[i].type = "end" => i = Len(todo)
      /\ c \in Seq(ACondition) /\ outputs \in {"ok", "failed", "recorded"}
  BY <1>1 DEF Core, Typed, TypeOK, Bordered, AnEnding
<1>3. \A m, n \in Indices(todo) : todo[m] = todo[n] => m = n
  BY DEF Told
<1>4. event \in AnEvent /\ \A k : Tells(todo, k) <=> event = Event("diagnostic", k) \/ Tells(r, k)
  BY <1>1, <1>2, TakenOff
<1>5. /\ \A m, n \in Indices(r) : r[m] = r[n] => m = n
      /\ \A n \in Indices(r) : r[n] # event
  BY <1>1, <1>2, <1>3, TakenOff
<1>6. (~ending.retry) \in BOOLEAN /\ event \in AnEvent \cup Frames
  BY <1>4
<1>7. /\ said' \in [Codes -> Nat]
      /\ event.type = "diagnostic" =>
            /\ what \in Codes /\ said'[what] = said[what] + 1
            /\ \A k \in Codes \ {what} : said'[k] = said[k]
      /\ event.type # "diagnostic" => said' = said
  BY <1>1, <1>2, <1>6, Writing
<1>8. \A k : event = Event("diagnostic", k) <=> event.type = "diagnostic" /\ what = k
  <2>1. \A k : \A x \in AnEvent : x = Event("diagnostic", k) <=> x.type = "diagnostic" /\ x.what = k
    BY DEF AnEvent, Event
  <2>2. QED
    BY <1>4, <2>1
<1>9. PICK o \in OutputsAfter :
         outputs' = IF ~ending.retry /\ event = Event("diagnostic", "IO") /\ o = "failed"
                      THEN "recorded" ELSE o
  BY DEF WritesNext
<1>10. /\ outputs \in {"failed", "recorded"} => o = outputs
       /\ o \in {"ok", "failed", "recorded"}
  BY <1>2, <1>9 DEF OutputsAfter
<1>11. event = Event("diagnostic", "IO") => ~ending.retry
  <2>1. SUFFICES ASSUME event = Event("diagnostic", "IO"), ending.retry PROVE FALSE
    OBVIOUS
  <2>2. Waits("IO")
    BY <1>4, <2>1 DEF Waits
  <2>3. QED
    BY <1>1, <2>1, <2>2 DEF Core, Earned, GoesOn
<1>12. /\ \A n \in Indices(c) :
             /\ c[n].code \in Codes
             /\ c[n].written = "host" => said[c[n].code] = IF Tells(todo, c[n].code) THEN 0 ELSE 1
             /\ c[n].written = "worker" => said[c[n].code] >= 1
       /\ said["IO"] <= 1 /\ said["TIMEOUT"] <= 1 /\ (said["IO"] = 1 => outputs = "recorded")
       /\ Tells(todo, "IO") => outputs = "failed"
       /\ Tells(todo, "TIMEOUT") => said["TIMEOUT"] = 0
  BY <1>2, Indexed DEF Told
<1>13. said["IO"] \in Nat /\ said["TIMEOUT"] \in Nat /\ "IO" \in Codes /\ "TIMEOUT" \in Codes
  BY <1>2, CodesAre
<1> HIDE DEF event, r, c, what
<1>14. CASE event.type = "diagnostic"
  <2>1. Tells(todo, what) /\ ~Tells(r, what) /\ \A k : k # what => (Tells(r, k) <=> Tells(todo, k))
    BY <1>4, <1>5, <1>8, <1>14 DEF Tells
  <2>2. ASSUME NEW n \in Indices(c)
        PROVE  /\ c[n].written = "host" => said'[c[n].code] = IF Tells(r, c[n].code) THEN 0 ELSE 1
               /\ c[n].written = "worker" => said'[c[n].code] >= 1
    <3>1. CASE c[n].code = what
      <4>1. said[what] \in Nat /\ said'[what] = said[what] + 1
        BY <1>2, <1>7, <1>14
      <4>2. c[n].written = "host" => said[what] = 0
        BY <1>12, <2>1, <2>2, <3>1
      <4>3. QED
        BY <2>1, <3>1, <4>1, <4>2
    <3>2. CASE c[n].code # what
      <4>1. said'[c[n].code] = said[c[n].code]
        BY <1>7, <1>12, <1>14, <2>2, <3>2
      <4>2. QED
        BY <1>12, <2>1, <2>2, <3>2, <4>1
    <3>3. QED
      BY <3>1, <3>2
  <2>3. /\ said'["IO"] <= 1 /\ (said'["IO"] = 1 => outputs' = "recorded")
        /\ Tells(r, "IO") => outputs' = "failed"
    <3>1. CASE what = "IO"
      <4>1. outputs = "failed" /\ said["IO"] = 0
        BY <1>12, <1>13, <2>1, <3>1
      <4>2. said'["IO"] = 1
        BY <1>7, <1>14, <3>1, <4>1
      <4>3. event = Event("diagnostic", "IO")
        BY <1>8, <1>14, <3>1
      <4>4. outputs' = "recorded"
        BY <1>9, <1>10, <1>11, <4>1, <4>3
      <4>5. QED
        BY <2>1, <3>1, <4>2, <4>4
    <3>2. CASE what # "IO"
      <4>1. said'["IO"] = said["IO"] /\ outputs' = o
        BY <1>7, <1>8, <1>9, <1>13, <1>14, <3>2
      <4>2. QED
        BY <1>10, <1>12, <2>1, <3>2, <4>1
    <3>3. QED
      BY <3>1, <3>2
  <2>4. said'["TIMEOUT"] <= 1 /\ (Tells(r, "TIMEOUT") => said'["TIMEOUT"] = 0)
    <3>1. CASE what = "TIMEOUT"
      <4>1. said["TIMEOUT"] = 0
        BY <1>12, <2>1, <3>1
      <4>2. said'["TIMEOUT"] = 1
        BY <1>7, <1>14, <3>1, <4>1
      <4>3. QED
        BY <2>1, <3>1, <4>2
    <3>2. CASE what # "TIMEOUT"
      <4>1. said'["TIMEOUT"] = said["TIMEOUT"]
        BY <1>7, <1>13, <1>14, <3>2
      <4>2. QED
        BY <1>12, <2>1, <3>2, <4>1
    <3>3. QED
      BY <3>1, <3>2
  <2>5. QED
    BY <1>1, <1>5, <2>2, <2>3, <2>4 DEF Told, c
<1>15. CASE event.type # "diagnostic"
  <2>1. said' = said /\ \A k : Tells(r, k) <=> Tells(todo, k)
    BY <1>4, <1>7, <1>8, <1>15
  <2>2. outputs' = o
    BY <1>8, <1>9, <1>15
  <2>3. QED
    BY <1>1, <1>5, <1>10, <1>12, <2>1, <2>2 DEF Told, c
<1>16. QED
  BY <1>14, <1>15

LEMMA AccountedStays ==
    ASSUME Core, Counted, Accounted, [Next]_vars
    PROVE  Accounted'
<1>1. Typed /\ Recorded /\ GoesOn /\ said \in [Codes -> Nat]
  BY DEF Core, Typed
<1>2. Accounted' <=> (Settling' => Told(ending'.conditions, said', todo', phase' = "writing", outputs'))
  BY DEF Accounted, Settling, Told, Waits, Tells, Indices
<1>3. CASE phase' \in {"attempt", "worker"} \/ broken' # "no"
  BY <1>3 DEF Accounted
<1>4. \A code \in {"CONNECT", "PIN", "LIMIT"} : code # "IO" /\ code # "TIMEOUT" /\ code \in Codes
  BY CodesAre
\* A session that is told of, and ends without a generation.
<1>5. ASSUME EndWithoutGeneration \/ EndBeforeJoin
             \/ \E code \in {"CONNECT", "PIN"} : /\ todo' = <<Event("diagnostic", code)>>
                                                /\ ending' = [Nothing EXCEPT !.code = code],
             said'["IO"] <= 1, said'["TIMEOUT"] <= 1, said'["IO"] = 1 => outputs' = "recorded"
      PROVE  Accounted'
  <2>1. ending'.conditions = <<>>
    BY <1>5 DEF EndWithoutGeneration, EndBeforeJoin, Nothing
  <2>2. phase' = "writing" => /\ \A m, n \in Indices(todo') : todo'[m] = todo'[n] => m = n
                              /\ ~Tells(todo', "IO") /\ ~Tells(todo', "TIMEOUT")
    <3>1. SUFFICES ASSUME phase' = "writing"
                   PROVE  /\ \A m, n \in Indices(todo') : todo'[m] = todo'[n] => m = n
                          /\ ~Tells(todo', "IO") /\ ~Tells(todo', "TIMEOUT")
      OBVIOUS
    <3>2. PICK code \in {"CONNECT", "PIN"} : todo' = <<Event("diagnostic", code)>>
      BY <1>5, <3>1 DEF EndWithoutGeneration, EndBeforeJoin
    <3> DEFINE t == todo'
    <3>3. t = <<Event("diagnostic", code)>>
      BY <3>2
    <3> HIDE DEF t
    <3>4. /\ \A c : Tells(t, c) <=> c = code
          /\ \A m, n \in Indices(t) : t[m] = t[n] => m = n
      BY <1>4, <3>3, OneEvent
    <3>5. QED
      BY <1>4, <3>4 DEF t
  <2>3. Told(<<>>, said', todo', phase' = "writing", outputs')
    <3> DEFINE s == said'
               d == outputs'
               t == todo'
               w == phase' = "writing"
    <3>1. /\ s["IO"] <= 1 /\ s["TIMEOUT"] <= 1 /\ (s["IO"] = 1 => d = "recorded") /\ w \in BOOLEAN
          /\ w => /\ \A m, n \in Indices(t) : t[m] = t[n] => m = n
                  /\ ~Tells(t, "IO") /\ ~Tells(t, "TIMEOUT")
      BY <1>5, <2>2
    <3> HIDE DEF s, d, t, w
    <3>2. Told(<<>>, s, t, w, d)
      BY <3>1, ToldNothing
    <3>3. QED
      BY <3>2 DEF s, d, t, w
  <2>4. QED
    BY <1>2, <2>1, <2>3
<1>6. CASE RequestStop
  BY <1>6 DEF RequestStop, Accounted, Waits, Tells, Indices
<1>7. CASE Line \/ Clock \/ Exit \/ Close
  <2>1. phase' = "worker"
    BY <1>1, <1>7, LifeSteps DEF Lives, InSession, FrameTaken
  <2>2. QED
    BY <1>3, <2>1
<1>8. CASE Attempt
  <2>1. said' = [c \in Codes |-> 0]
    BY <1>8 DEF Attempt
  <2>2. said'["IO"] = 0 /\ said'["TIMEOUT"] = 0
    BY <2>1, CodesAre
  <2>3. QED
    BY <1>3, <1>5, <1>8, <2>2 DEF Attempt
<1>9. ASSUME After, broken' = "no" PROVE Accounted'
  <2>1. /\ phase' = "writing" /\ broken = "no" /\ said' = said /\ outputs' = outputs
        /\ ending'.conditions = Conditions
    BY <1>1, <1>9, AfterLeaves
  <2>2. Told(Conditions, said, todo', TRUE, outputs)
    BY <1>9, <2>1, AfterTold
  <2>3. QED
    BY <1>2, <2>1, <2>2
<1>10. ASSUME WriteEvent, broken' = "no" PROVE Accounted'
  <2>1. phase = "writing" /\ todo # <<>>
    BY <1>10 DEF WriteEvent
  <2>2. CASE ending.retry /\ broken = "no" /\ LimitAtEnd
    <3> DEFINE t == todo'
    <3>1. /\ \A c : Tells(t, c) <=> c = "LIMIT"
          /\ \A m, n \in Indices(t) : t[m] = t[n] => m = n
          /\ ending'.conditions = <<>>
      BY <1>1, <2>2, LimitLeaves
    <3>2. said' = said /\ outputs' = outputs /\ phase' = "writing"
      BY <2>1, <2>2 DEF LimitAtEnd
    <3>3. said["IO"] <= 1 /\ said["TIMEOUT"] <= 1 /\ (said["IO"] = 1 => outputs = "recorded")
      BY <2>1, <2>2 DEF Accounted
    <3> HIDE DEF t
    <3>4. Told(<<>>, said, t, TRUE, outputs)
      BY <1>4, <3>1, <3>3, ToldNothing
    <3>5. QED
      BY <1>2, <3>1, <3>2, <3>4 DEF t
  <2>3. CASE WritesNext
    <3>1. broken = "no" /\ phase' = "writing" /\ ending' = ending
      BY <2>3 DEF WritesNext
    <3>2. Told(ending.conditions, said, todo, phase = "writing", outputs)
      BY <2>1, <3>1, AccountedIs DEF Settling
    <3>3. Told(ending.conditions, said, todo, TRUE, outputs)
      BY <2>1, <3>2
    <3>4. Told(ending.conditions, said', todo', TRUE, outputs')
      BY <2>3, <3>3, WritesTold
    <3>5. QED
      BY <1>2, <3>1, <3>4
  <2>4. QED
    BY <1>10, <2>1, <2>2, <2>3 DEF WriteEvent, WriteBreaks, WritesNext
<1>11. ASSUME Settle, broken' = "no" PROVE Accounted'
  <2>1. phase = "writing" /\ todo = <<>> /\ UNCHANGED <<broken, outputs, said>>
    BY <1>11 DEF Settle
  <2>2. /\ \A n \in Indices(ending.conditions) :
              /\ ending.conditions[n].written = "host" => said[ending.conditions[n].code] = 1
              /\ ending.conditions[n].written = "worker" => said[ending.conditions[n].code] >= 1
        /\ said["IO"] <= 1 /\ said["TIMEOUT"] <= 1 /\ (said["IO"] = 1 => outputs = "recorded")
    <3>1. \A code : ~Waits(code)
      BY <2>1 DEF Waits, Tells, Indices
    <3>2. QED
      BY <1>11, <2>1, <3>1 DEF Accounted
  <2>3. CASE EndWithoutGeneration \/ EndBeforeJoin
    BY <1>5, <2>1, <2>2, <2>3
  <2>4. CASE phase' \in {"backoff", "finish"} /\ ending' = ending
    <3>1. Told(ending.conditions, said, todo', FALSE, outputs)
      BY <2>2 DEF Told
    <3>2. QED
      BY <1>2, <2>1, <2>4, <3>1
  <2>5. QED
    BY <1>11, <2>3, <2>4 DEF Settle
<1>12. CASE Backoff
  <2>1. phase = "backoff" /\ said' = said /\ outputs' = outputs
    BY <1>12 DEF Backoff
  <2>2. broken = "no"
    BY <1>1, <2>1 DEF GoesOn
  <2>3. said["IO"] <= 1 /\ said["TIMEOUT"] <= 1 /\ (said["IO"] = 1 => outputs = "recorded")
    BY <2>1, <2>2 DEF Accounted
  <2>4. QED
    BY <1>3, <1>5, <1>12, <2>1, <2>3 DEF Backoff
<1>13. ASSUME RecordOutputs, broken' = "no" PROVE Accounted'
  <2> DEFINE event == Event("diagnostic", "IO")
             c == ending.conditions
  <2>1. /\ phase = "finish" /\ phase' = "finish" /\ outputs = "failed" /\ broken = "no"
        /\ outputs' = "recorded" /\ ending' = ending /\ ~Refused(TRUE) /\ Written(event)
    BY <1>13 DEF RecordOutputs, WriteBreaks
  <2>2. event \in AnEvent \cup Frames /\ event.type = "diagnostic" /\ event.what = "IO" /\ TRUE \in BOOLEAN
    BY CodesAre DEF Event, AnEvent
  <2>3. capture \in ACapture /\ c \in Seq(ACondition)
    BY <1>1 DEF Typed, AnEnding
  <2> HIDE DEF event
  <2>4. said'["IO"] = said["IO"] + 1 /\ \A k \in Codes \ {"IO"} : said'[k] = said[k]
    BY <1>1, <2>1, <2>2, <2>3, Writing
  <2>5. /\ \A n \in Indices(c) :
              /\ c[n].code \in Codes
              /\ c[n].written = "host" => said[c[n].code] = 1
              /\ c[n].written = "worker" => said[c[n].code] >= 1
        /\ said["IO"] <= 1 /\ said["TIMEOUT"] <= 1 /\ said["IO"] # 1
    BY <2>1, <2>3, Indexed DEF Accounted
  <2>6. said["IO"] = 0 /\ "IO" \in Codes /\ "TIMEOUT" \in Codes
    <3>1. said["IO"] \in Nat
      BY <1>1, CodesAre
    <3>2. QED
      BY <2>5, <3>1, CodesAre
  <2> HIDE DEF c
  <2>7. ASSUME NEW n \in Indices(c)
        PROVE  /\ c[n].written = "host" => said'[c[n].code] = 1
               /\ c[n].written = "worker" => said'[c[n].code] >= 1
    <3>1. c[n].code = "IO" => said'[c[n].code] = 1 /\ c[n].written # "host"
      BY <2>4, <2>5, <2>6, <2>7
    <3>2. c[n].code # "IO" => said'[c[n].code] = said[c[n].code]
      BY <2>4, <2>5, <2>7
    <3>3. QED
      BY <2>5, <2>7, <3>1, <3>2
  <2>8. said'["IO"] = 1 /\ said'["TIMEOUT"] <= 1
    BY <2>4, <2>5, <2>6
  <2>9. Told(c, said', todo', FALSE, outputs')
    BY <2>1, <2>7, <2>8 DEF Told
  <2>10. QED
    BY <1>2, <2>1, <2>9 DEF c
<1>14. ASSUME Finish, broken' = "no" PROVE Accounted'
  <2>1. /\ phase = "finish" /\ phase' = "done" /\ broken = "no"
        /\ UNCHANGED <<outputs, said, todo, ending>>
    BY <1>14 DEF Finish
  <2>2. Told(ending.conditions, said, todo, FALSE, outputs)
    BY <2>1, AccountedIs DEF Settling
  <2>3. QED
    BY <1>2, <2>1, <2>2
<1>15. CASE UNCHANGED vars
  BY <1>15 DEF vars, Accounted, Waits, Tells, Indices
<1>16. QED
  BY <1>3, <1>6, <1>7, <1>8, <1>9, <1>10, <1>11, <1>12, <1>13, <1>14, <1>15 DEF Next, Host

\* _after, _diagnose: each condition a life ended by is in the capture, once where the host writes it,
\* and neither E_IO nor E_TIMEOUT is written twice.
THEOREM ConditionsDiagnosedOnce == Spec => []DiagnosedOnce
<1>1. Init => Core /\ Counted /\ Accounted
  BY SessionBegins DEF Init, Counted, Accounted
<1>2. Core /\ Counted /\ Accounted /\ [Next]_vars => (Core /\ Counted /\ Accounted)'
  BY CoreStays, CountedStays, AccountedStays
<1>3. Accounted => DiagnosedOnce
  BY DEF Accounted, DiagnosedOnce, Indices
<1>4. QED
  BY <1>1, <1>2, <1>3, PTL DEF Spec

=============================================================================
