--------------------------------- MODULE Reducer ---------------------------------
(***************************************************************************)
(* The reducer of an HLA capture (reducer.py): one frame of a verified      *)
(* capture turns the state of its generation (the objects, their identity   *)
(* and their cached attributes) into the next one and into output records,  *)
(* which a consumer takes for what it knows of the entities.                *)
(*                                                                         *)
(* One action per kind of frame and outcome.  The capture's framing rules   *)
(* admit the frames (_framing_fault), and the federation may send any of    *)
(* them in any order: discoveries and removals again or of unknown tokens,  *)
(* retractable updates, attributes that do not decode.  A frame that only   *)
(* yields a diagnostic leaves the state as it is and is not an action.  The *)
(* configuration has a time policy (without one no state is eligible), and  *)
(* elapsed time does not decrease (a verified capture's never does).        *)
(***************************************************************************)
EXTENDS Integers, FiniteSets, Functions

CONSTANTS Tokens,            \* object tokens
          Triples,           \* entity identifiers that are not null
          Reflections,       \* what a reflection may supply: attribute name -> value and raw bytes
          MaxAttributes,     \* limits.attributes_per_reflection
          MaxBytes,          \* limits.cached_attribute_bytes_per_generation
          MaxObjects,        \* limits.active_objects_per_generation
          MaxTokens,         \* limits.object_tokens_per_session
          MaxGenerations,    \* bound: generations of a capture
          MaxRevision        \* bound: revisions of an entity

\* codec.NAMES
Names == {"EntityIdentifier", "EntityType", "ForceIdentifier", "Spatial"}

\* Values that any attribute may have: one that decodes, and one that does not.
Plain == "plain"
Malformed == "malformed"

\* The null identifier, and a position without geographic coordinates.
Null == "null"
Unprojectable == "unprojectable"

None == "none"

Values == Triples \cup {Plain, Malformed, Null, Unprojectable}

ASSUME ReducerAssumption ==
    /\ Triples \cap {Plain, Malformed, Null, Unprojectable, None} = {} /\ None \notin Tokens
    /\ \A r \in Reflections :
          /\ DOMAIN r \subseteq Names \cup {"Unsubscribed"}
          /\ \A n \in DOMAIN r : r[n] \in [value: Values, bytes: Nat]
          /\ "EntityIdentifier" \in DOMAIN r
                => r["EntityIdentifier"].value \in Triples \cup {Null, Malformed}
    /\ {MaxAttributes, MaxBytes, MaxObjects, MaxTokens, MaxGenerations, MaxRevision} \subseteq Nat
    /\ IsFiniteSet(Tokens)

VARIABLES
    generation,     \* the open generation, 0 when none is
    last,           \* rules.last_generation
    objects,        \* the discovered, unremoved objects: token -> object
    removed, seen,  \* sets of tokens
    index,          \* the holder of each triple
    incarnations,   \* of each triple
    cacheBytes,
    terminal,
    tokensBefore,   \* distinct tokens of the generations before
    view            \* what the consumer of the records knows of the entities

vars == <<generation, last, objects, removed, seen, index, incarnations, cacheBytes, terminal,
          tokensBefore, view>>

Life == INSTANCE EntityLife WITH
    Generations  <- 1 .. MaxGenerations,
    Incarnations <- 1 .. Cardinality(Tokens)

Statuses == {"ABSENT", "VALID", "INVALID"}

Slot   == [status: Statuses, value: Values \cup {None}, bytes: Nat]
Absent == [status |-> "ABSENT", value |-> None, bytes |-> 0]

Object == [lifecycle: {"ACTIVE", "QUARANTINED"}, identity: Triples \cup {None}, incarnation: Nat,
           slots: [Names -> Slot], revision: Nat, eligible: BOOLEAN]

Discovered == [lifecycle |-> "ACTIVE", identity |-> None, incarnation |-> 0,
               slots |-> [n \in Names |-> Absent], revision |-> 0, eligible |-> FALSE]

NoObjects == [t \in {} |-> Discovered]

TypeOK ==
    /\ generation \in 0 .. MaxGenerations /\ last \in 0 .. MaxGenerations
    /\ removed \subseteq Tokens /\ seen \subseteq Tokens
    /\ DOMAIN objects \subseteq Tokens /\ \A t \in DOMAIN objects : objects[t] \in Object
    /\ index \in [Triples -> Tokens \cup {None}]
    /\ incarnations \in [Triples -> Nat]
    /\ cacheBytes \in 0 .. MaxBytes
    /\ terminal \in BOOLEAN
    /\ tokensBefore \in 0 .. MaxTokens
    /\ view \in [Life!Entities -> [state: {"unborn", "live", "withdrawn", "ended"}, revision: Nat]]

Init ==
    /\ generation = 0 /\ last = 0
    /\ objects = NoObjects /\ removed = {} /\ seen = {}
    /\ index = [x \in Triples |-> None] /\ incarnations = [x \in Triples |-> 0]
    /\ cacheBytes = 0 /\ terminal = FALSE /\ tokensBefore = 0
    /\ Life!Init

-----------------------------------------------------------------------------
\* Records and what they tell.

EntityOf(o) == [generation |-> generation, triple |-> o.identity, incarnation |-> o.incarnation]

\* The entities of a set of objects end: those with an entity_id.
Finished(os) ==
    LET over == {EntityOf(o) : o \in {o \in os : o.identity # None}}
    IN  [e \in Life!Entities |-> IF e \in over THEN [view[e] EXCEPT !.state = "ended"] ELSE view[e]]

\* An invalidated record when an object was eligible and is not any more, an upsert when there is
\* a new revision.
Told(old, new) ==
    IF old.eligible /\ ~new.eligible
      THEN [view EXCEPT ![EntityOf(old)].state = "withdrawn"]
    ELSE IF new.revision > old.revision
      THEN [view EXCEPT ![EntityOf(new)] = [state |-> "live", revision |-> new.revision]]
    ELSE view

Put(t, o) == [x \in DOMAIN objects \cup {t} |-> IF x = t THEN o ELSE objects[x]]

\* The frame leaves this object of the token, and tells the difference.
Becomes(t, o) ==
    /\ o.revision <= MaxRevision
    /\ objects' = Put(t, o)
    /\ view' = Told(objects[t], o)

Status(o, n) == o.slots[n].status

\* The projector's verdict on the snapshot of an object (_assess): no reason applies.
Eligible(o) ==
    /\ \A n \in {"EntityIdentifier", "EntityType", "Spatial"} : Status(o, n) = "VALID"
    /\ Status(o, "ForceIdentifier") # "INVALID"
    /\ o.slots["EntityIdentifier"].value # Null
    /\ o.slots["Spatial"].value # Unprojectable
    /\ o.lifecycle = "ACTIVE"

\* _evaluate: the upsert comes when a valid attribute was supplied.
Evaluated(o, supplied) ==
    [o EXCEPT !.eligible = Eligible(o),
              !.revision = IF Eligible(o) /\ supplied THEN @ + 1 ELSE @]

-----------------------------------------------------------------------------
\* Generations.

Cleared ==
    /\ tokensBefore' = tokensBefore + Cardinality(seen)
    /\ objects' = NoObjects /\ removed' = {} /\ seen' = {}
    /\ index' = [x \in Triples |-> None] /\ incarnations' = [x \in Triples |-> 0]
    /\ cacheBytes' = 0 /\ terminal' = FALSE

GenerationStart ==
    /\ generation = 0 /\ last < MaxGenerations
    /\ generation' = last + 1 /\ last' = last + 1
    /\ Cleared
    /\ UNCHANGED view

GenerationEnd ==
    /\ generation # 0
    /\ generation' = 0
    /\ view' = Finished({objects[t] : t \in DOMAIN objects})
    /\ Cleared
    /\ UNCHANGED last

-----------------------------------------------------------------------------
\* Discoveries, removals, and frames of tokens that are no object.

Open == generation # 0 /\ UNCHANGED <<generation, last, tokensBefore>>

Known(t) == t \in DOMAIN objects

\* _token_admitted
Admitted(t) == t \in seen \/ tokensBefore + Cardinality(seen) + 1 <= MaxTokens

Stops == terminal' = TRUE

Unchanged == UNCHANGED <<objects, removed, seen, index, incarnations, cacheBytes, view>>

\* Again under another name or class, or after its removal.
DiscoverAgain(t) ==
    /\ Open
    /\ Known(t) \/ t \in removed
    /\ Stops /\ Unchanged

DiscoverBeyondLimit(t) ==
    /\ Open
    /\ ~Known(t) /\ t \notin removed
    /\ ~Admitted(t) \/ Cardinality(DOMAIN objects) >= MaxObjects
    /\ Stops /\ Unchanged

Discover(t) ==
    /\ Open
    /\ ~Known(t) /\ t \notin removed
    /\ Admitted(t) /\ Cardinality(DOMAIN objects) < MaxObjects
    /\ seen' = seen \cup {t}
    /\ objects' = Put(t, Discovered)
    /\ UNCHANGED <<removed, index, incarnations, cacheBytes, terminal, view>>

\* A reflection or removal of an unknown object names its token: the worker allocated it.
Unknown(t) ==
    /\ Open
    /\ ~Known(t)
    /\ IF Admitted(t) THEN seen' = seen \cup {t} /\ UNCHANGED terminal
                      ELSE Stops /\ UNCHANGED seen
    /\ UNCHANGED <<objects, removed, index, incarnations, cacheBytes, view>>

\* The bytes of an object's values, each by itself: there are as many as the values have.
BytesOf(t, values) == UNION {{<<t, n>>} \X (1 .. values[n].bytes) : n \in DOMAIN values}

\* Mutant: whoever claimed a triple releases it.
MutantReleased(t) ==
    [x \in Triples |-> IF objects[t].slots["EntityIdentifier"].value = x THEN None ELSE index[x]]

Released(t) == [x \in Triples |-> IF index[x] = t THEN None ELSE index[x]]

Remove(t) ==
    /\ Open
    /\ Known(t)
    /\ view' = Finished({objects[t]})
    /\ index' = Released(t)
    /\ cacheBytes' = cacheBytes - Cardinality(BytesOf(t, objects[t].slots))
    /\ objects' = [x \in DOMAIN objects \ {t} |-> objects[x]]
    /\ removed' = removed \cup {t}
    /\ UNCHANGED <<seen, incarnations, terminal>>

\* Mutant: what was told of it stays.
MutantQuarantined(o) == [o EXCEPT !.lifecycle = "QUARANTINED"]

Quarantined(o) == [o EXCEPT !.lifecycle = "QUARANTINED", !.eligible = FALSE]

\* A retractable removal or reflection, of attributes or of none: replay could not undo it.
Retractable(t) ==
    /\ Open
    /\ Known(t)
    /\ Becomes(t, Quarantined(objects[t]))
    /\ UNCHANGED <<removed, seen, index, incarnations, cacheBytes, terminal>>

-----------------------------------------------------------------------------
\* Reflections.

ReflectTooMany(r) ==
    /\ Open
    /\ Cardinality(DOMAIN r) > MaxAttributes
    /\ Stops /\ Unchanged

Supplied(r) == DOMAIN r \cap Names

BytesAfter(t, r) ==
    cacheBytes + Cardinality(BytesOf(t, Restrict(r, Supplied(r))))
               - Cardinality(BytesOf(t, Restrict(objects[t].slots, Supplied(r))))

Reflected(t, r) ==
    /\ Open
    /\ Known(t)
    /\ DOMAIN r # {} /\ Cardinality(DOMAIN r) <= MaxAttributes

ReflectTooLarge(t, r) ==
    /\ Reflected(t, r)
    /\ BytesAfter(t, r) > MaxBytes
    /\ Stops /\ Unchanged

Decodes(r) == \A n \in DOMAIN r : n \in Names /\ r[n].value # Malformed

\* What was supplied is kept as INVALID.
Rejected(t, r) ==
    [objects[t] EXCEPT !.slots =
        [n \in Names |-> IF n \in DOMAIN r
                           THEN [status |-> "INVALID", value |-> None, bytes |-> r[n].bytes]
                           ELSE @[n]]]

\* One attribute fails and the whole reflection is rejected.
Reject(t, r) ==
    /\ Reflected(t, r) /\ BytesAfter(t, r) <= MaxBytes
    /\ ~Decodes(r)
    /\ Becomes(t, Evaluated(Rejected(t, r), FALSE))
    /\ cacheBytes' = BytesAfter(t, r)
    /\ UNCHANGED <<removed, seen, index, incarnations, terminal>>

\* The slots after a reflection that decodes.
Applied(t, r) ==
    [objects[t] EXCEPT !.slots =
        [n \in Names |-> IF n \in DOMAIN r
                           THEN [status |-> "VALID", value |-> r[n].value, bytes |-> r[n].bytes]
                           ELSE @[n]]]

Apply(t, r) ==
    /\ Reflected(t, r) /\ BytesAfter(t, r) <= MaxBytes
    /\ Decodes(r)
    /\ cacheBytes' = BytesAfter(t, r)
    /\ UNCHANGED <<removed, seen, terminal>>

Identifies(r) == "EntityIdentifier" \in DOMAIN r

Triple(r) == r["EntityIdentifier"].value

\* An ACTIVE object without an identity supplies an identifier that is not null.
Claims(t, r) ==
    /\ Identifies(r) /\ Triple(r) # Null
    /\ objects[t].identity = None /\ objects[t].lifecycle = "ACTIVE"

\* Any identifier but its own, the null one too.
Changes(t, r) == Identifies(r) /\ objects[t].identity \notin {None, Triple(r)}

ApplyValues(t, r) ==
    /\ Apply(t, r)
    /\ ~Claims(t, r) /\ ~Changes(t, r)
    /\ Becomes(t, Evaluated(Applied(t, r), TRUE))
    /\ UNCHANGED <<index, incarnations>>

ApplyChange(t, r) ==
    /\ Apply(t, r)
    /\ Changes(t, r)
    /\ Becomes(t, Evaluated(Quarantined(Applied(t, r)), TRUE))
    /\ UNCHANGED <<index, incarnations>>

\* Mutant: a triple that is free was never held.
MutantNextIncarnation(x) == 1

NextIncarnation(x) == incarnations[x] + 1

ApplyClaim(t, r) ==
    /\ Apply(t, r)
    /\ Claims(t, r) /\ index[Triple(r)] = None
    /\ incarnations' = [incarnations EXCEPT ![Triple(r)] = NextIncarnation(Triple(r))]
    /\ index' = [index EXCEPT ![Triple(r)] = t]
    /\ Becomes(t, Evaluated([Applied(t, r) EXCEPT !.identity = Triple(r),
                                                  !.incarnation = NextIncarnation(Triple(r))],
                           TRUE))

\* Another object holds the triple: both are quarantined, and the holder keeps its identity.
ApplyCollision(t, r) ==
    /\ Apply(t, r)
    /\ Claims(t, r) /\ index[Triple(r)] # None
    /\ LET holder == index[Triple(r)]
           held   == Quarantined(objects[holder])
       IN  /\ objects' = [Put(t, Evaluated(Quarantined(Applied(t, r)), TRUE)) EXCEPT ![holder] = held]
           /\ view' = Told(objects[holder], held)
    /\ UNCHANGED <<index, incarnations>>

Reflect(t, r) ==
    \/ ReflectTooLarge(t, r) \/ Reject(t, r)
    \/ ApplyValues(t, r) \/ ApplyChange(t, r) \/ ApplyClaim(t, r) \/ ApplyCollision(t, r)

Next ==
    \/ GenerationStart \/ GenerationEnd
    \/ \E t \in Tokens : \/ Discover(t) \/ DiscoverAgain(t) \/ DiscoverBeyondLimit(t)
                         \/ Unknown(t) \/ Remove(t) \/ Retractable(t)
                         \/ \E r \in Reflections : Reflect(t, r)
    \/ \E r \in Reflections : ReflectTooMany(r)

Spec == Init /\ [][Next]_vars

-----------------------------------------------------------------------------
\* The records of any capture implement the abstract life of the entities.
LifeSpec == Life!Spec

\* What the consumer takes for live is what is eligible in the state, entity by entity and at the
\* same revision: no removal, quarantine, collision, rejected reflection or new generation leaves
\* one behind, no later frame relies on a stale verdict, and nothing is eligible without an
\* identity (_evaluate, _identify, _remove).
ViewIsEligible ==
    /\ \A t \in DOMAIN objects :
          /\ objects[t].eligible = Eligible(objects[t])
          /\ objects[t].eligible => objects[t].identity # None
    /\ \A e \in Life!Entities :
          view[e].state = "live"
            <=> \E t \in DOMAIN objects : /\ objects[t].eligible /\ EntityOf(objects[t]) = e
                                          /\ objects[t].revision = view[e].revision

\* The state's books agree: the index names the object of each identity and no other, the cached
\* bytes are those of the objects that remain, an ACTIVE object's identifier is its identity, and
\* every token counts once for its session (_identify, _remove, _clear_generation, RED-12).
BooksBalance ==
    /\ \A x \in Triples, t \in Tokens : index[x] = t <=> Known(t) /\ objects[t].identity = x
    /\ cacheBytes = Cardinality(UNION {BytesOf(t, objects[t].slots) : t \in DOMAIN objects})
    /\ \A t \in DOMAIN objects :
          LET slot == objects[t].slots["EntityIdentifier"]
          IN  objects[t].lifecycle = "ACTIVE" /\ slot.status = "VALID" /\ slot.value # Null
                => objects[t].identity = slot.value
    /\ DOMAIN objects \cup removed \subseteq seen
    /\ tokensBefore + Cardinality(seen) <= MaxTokens

=============================================================================
