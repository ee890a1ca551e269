------------------------------ MODULE Reducer_Proofs ------------------------------
(***************************************************************************)
(* Proofs about Reducer: what a consumer of the records takes for live is  *)
(* what is eligible in the state, the records implement the abstract life  *)
(* of the entities, and the state's books balance; for any tokens,         *)
(* identifiers, reflections, limits and generations.                       *)
(*                                                                         *)
(* The inductive invariant Kept says of every entity what the view holds of*)
(* it: that of the open generation which has an identifier is told as its  *)
(* object stands, the incarnations before it are over, and those after it  *)
(* and later generations unborn.  Booked counts the cached bytes as a set, *)
(* so that a reflection takes some away and adds others.                   *)
(***************************************************************************)
EXTENDS Reducer, FiniteSetTheorems, TLAPS

Views == [state: {"unborn", "live", "withdrawn", "ended"}, revision: Nat]

Typed ==
    /\ last \in 0 .. MaxGenerations /\ generation \in {0, last}
    /\ DOMAIN objects \in SUBSET Tokens /\ \A t \in DOMAIN objects : objects[t] \in Object
    /\ removed \in SUBSET Tokens /\ removed \cap DOMAIN objects = {}
    /\ index \in [Triples -> Tokens \cup {None}]
    /\ incarnations \in [Triples -> Nat]
    /\ view \in [Life!Entities -> Views]
    /\ generation = 0 => DOMAIN objects = {}

\* Of one object: it is eligible by its slots, nothing is told of one without an identity, what is
\* eligible was told, and an ACTIVE one's identifier is its identity.
Fits(o) ==
    LET slot == o.slots["EntityIdentifier"]
    IN  /\ o.eligible = Eligible(o)
        /\ o.identity = None => o.revision = 0
        /\ o.eligible => o.revision # 0
        /\ slot.status = "VALID" =>
              /\ slot.value # None
              /\ o.lifecycle = "ACTIVE" /\ slot.value # Null => o.identity = slot.value

\* The index names the object of each identity, and that is the last incarnation of it.
Identified ==
    /\ \A x \in Triples, t \in Tokens :
          index[x] = t <=> t \in DOMAIN objects /\ objects[t].identity = x
    /\ \A t \in DOMAIN objects :
          /\ Fits(objects[t])
          /\ objects[t].identity # None =>
                objects[t].incarnation = incarnations[objects[t].identity]

\* Every incarnation takes an object of its own: one that has an identity or was removed.
Named == removed \cup {t \in DOMAIN objects : objects[t].identity # None}

Limited ==
    /\ \A x \in Triples : incarnations[x] <= Cardinality(Named)
    /\ \A x \in Triples : index[x] # None => incarnations[x] # 0

\* What the view holds of an entity of the open generation.
Telling(o) == [state    |-> IF o.eligible THEN "live" ELSE IF o.revision = 0 THEN "unborn" ELSE "withdrawn",
             revision |-> o.revision]

Stands(e) ==
    LET x == e.triple
    IN  /\ e.incarnation < incarnations[x] => view[e].state = "ended"
        /\ e.incarnation > incarnations[x] => view[e] = Life!Unborn
        /\ e.incarnation = incarnations[x] =>
              IF index[x] = None THEN view[e].state = "ended" ELSE view[e] = Telling(objects[index[x]])

Shown ==
    \A e \in Life!Entities :
       /\ e.generation = generation => Stands(e)
       /\ e.generation # generation => view[e].state \in {"unborn", "ended"}
       /\ e.generation > last => view[e] = Life!Unborn

Kept == Typed /\ Identified /\ Limited /\ Shown

-----------------------------------------------------------------------------
\* Objects and entities.

LEMMA NamedFits ==
    ASSUME Typed
    PROVE  /\ IsFiniteSet(Named) /\ Named \in SUBSET Tokens
           /\ Cardinality(Named) \in Nat /\ Cardinality(Tokens) \in Nat
           /\ Cardinality(Named) <= Cardinality(Tokens)
<1>1. Named \in SUBSET Tokens /\ IsFiniteSet(Tokens)
  BY ReducerAssumption DEF Named, Typed
<1>2. QED
  BY <1>1, FS_Subset, FS_CardinalityType

\* The entity of an object with an identity.
LEMMA EntityIs ==
    ASSUME Typed, Identified, Limited, NEW t \in DOMAIN objects, objects[t].identity # None
    PROVE  /\ objects[t].identity \in Triples /\ index[objects[t].identity] = t
           /\ EntityOf(objects[t]) \in Life!Entities
           /\ EntityOf(objects[t]).generation = generation
           /\ EntityOf(objects[t]).triple = objects[t].identity
           /\ EntityOf(objects[t]).incarnation = incarnations[objects[t].identity]
<1> DEFINE o == objects[t]
<1>1. o \in Object /\ t \in Tokens
  BY DEF Typed
<1>2. o.identity \in Triples /\ o.incarnation \in Nat
  BY <1>1 DEF Object
<1>3. index[o.identity] = t /\ o.incarnation = incarnations[o.identity]
  BY <1>1, <1>2 DEF Identified
<1>4. incarnations[o.identity] # 0 /\ incarnations[o.identity] <= Cardinality(Named)
  <2>1. t # None
    BY <1>1, ReducerAssumption
  <2>2. QED
    BY <1>2, <1>3, <2>1 DEF Limited
<1>5. incarnations[o.identity] \in 1 .. Cardinality(Tokens)
  BY <1>2, <1>3, <1>4, NamedFits
<1>6. generation \in 1 .. MaxGenerations
  <2>1. DOMAIN objects # {}
    OBVIOUS
  <2>2. QED
    BY <2>1, ReducerAssumption DEF Typed
<1>7. QED
  BY <1>2, <1>3, <1>5, <1>6 DEF EntityOf, Life!Entities

\* What the view holds of it.
LEMMA ObjectShown ==
    ASSUME Kept, NEW t \in DOMAIN objects, objects[t].identity # None
    PROVE  view[EntityOf(objects[t])] = Telling(objects[t])
<1>1. /\ objects[t].identity \in Triples /\ index[objects[t].identity] = t
      /\ EntityOf(objects[t]) \in Life!Entities
      /\ EntityOf(objects[t]).generation = generation
      /\ EntityOf(objects[t]).triple = objects[t].identity
      /\ EntityOf(objects[t]).incarnation = incarnations[objects[t].identity]
  BY EntityIs DEF Kept
<1>2. t # None
  BY ReducerAssumption DEF Kept, Typed
<1>3. QED
  BY <1>1, <1>2 DEF Kept, Shown, Stands

-----------------------------------------------------------------------------
\* What a frame makes of one object.

\* Only an object with an identity is eligible.
LEMMA EligibleIsNamed ==
    ASSUME NEW o \in Object, Fits(o), o.eligible
    PROVE  o.identity # None
BY DEF Fits, Eligible, Status

\* The evaluation of an object touches its verdict and its revision.
LEMMA EvaluatedIs ==
    ASSUME NEW o \in Object, NEW supplied \in BOOLEAN
    PROVE  LET n == Evaluated(o, supplied)
           IN  /\ n \in Object
               /\ n.identity = o.identity /\ n.incarnation = o.incarnation
               /\ n.slots = o.slots /\ n.lifecycle = o.lifecycle
               /\ n.eligible = Eligible(n) /\ Eligible(n) = Eligible(o)
               /\ n.revision = IF Eligible(o) /\ supplied THEN o.revision + 1 ELSE o.revision
<1> DEFINE n == Evaluated(o, supplied)
<1>1. o.revision \in Nat /\ Eligible(o) \in BOOLEAN
  BY DEF Object, Eligible
<1>2. n \in Object
  <2> DEFINE verdict  == Eligible(o)
             revision == IF Eligible(o) /\ supplied THEN o.revision + 1 ELSE o.revision
  <2>1. verdict \in BOOLEAN /\ revision \in Nat
    BY <1>1
  <2>2. n = [o EXCEPT !.eligible = verdict, !.revision = revision]
    BY DEF Evaluated
  <2> HIDE DEF verdict, revision, n
  <2>3. QED
    BY <2>1, <2>2 DEF Object
<1>3. /\ n.identity = o.identity /\ n.incarnation = o.incarnation
      /\ n.slots = o.slots /\ n.lifecycle = o.lifecycle
      /\ n.eligible = Eligible(o)
      /\ n.revision = IF Eligible(o) /\ supplied THEN o.revision + 1 ELSE o.revision
  BY DEF Evaluated, Object
<1>4. Eligible(n) = Eligible(o)
  BY <1>3 DEF Eligible, Status
<1>5. QED
  BY <1>2, <1>3, <1>4

\* What a frame that keeps an object makes of it: nothing but a verdict, slots and a lifecycle.
Turns(old, new) ==
    /\ new \in Object /\ Fits(new)
    /\ new.identity = old.identity /\ new.incarnation = old.incarnation
    /\ \/ ~new.eligible /\ new.revision = old.revision
       \/ new.eligible /\ new.revision = old.revision + 1
       \/ new.eligible /\ old.eligible /\ new.revision = old.revision

\* The slots are those of a reflection that decodes, the others as they were.
LEMMA AppliedIs ==
    ASSUME Typed, NEW t \in DOMAIN objects, NEW r \in Reflections, Decodes(r)
    PROVE  LET o == objects[t]
               n == Applied(t, r)
           IN  /\ n \in Object
               /\ n.identity = o.identity /\ n.incarnation = o.incarnation
               /\ n.lifecycle = o.lifecycle /\ n.eligible = o.eligible /\ n.revision = o.revision
               /\ ~Identifies(r) => n.slots["EntityIdentifier"] = o.slots["EntityIdentifier"]
               /\ Identifies(r) => /\ n.slots["EntityIdentifier"].status = "VALID"
                                   /\ n.slots["EntityIdentifier"].value = Triple(r)
                                   /\ Triple(r) \in Triples \cup {Null} /\ Triple(r) # None
<1> DEFINE o == objects[t]
           slots == [m \in Names |-> IF m \in DOMAIN r
                           THEN [status |-> "VALID", value |-> r[m].value, bytes |-> r[m].bytes]
                           ELSE o.slots[m]]
           n == Applied(t, r)
<1>1. o \in Object /\ o.slots \in [Names -> Slot]
  BY DEF Typed, Object
<1>2. slots \in [Names -> Slot]
  BY <1>1, ReducerAssumption DEF Slot, Statuses, Decodes
<1>3. n = [o EXCEPT !.slots = slots]
  BY DEF Applied
<1>4. /\ n \in Object /\ n.slots = slots
      /\ n.identity = o.identity /\ n.incarnation = o.incarnation
      /\ n.lifecycle = o.lifecycle /\ n.eligible = o.eligible /\ n.revision = o.revision
  <2> HIDE DEF o, slots, n
  <2>1. QED
    BY <1>1, <1>2, <1>3 DEF Object
<1>5. "EntityIdentifier" \in Names
  BY DEF Names
<1>6. ASSUME Identifies(r)
      PROVE  Triple(r) \in Triples \cup {Null} /\ Triple(r) # None
  BY <1>6, ReducerAssumption DEF Identifies, Triple, Decodes, Null, None, Malformed
<1>7. QED
  BY <1>4, <1>5, <1>6 DEF Identifies, Triple

\* A quarantined object is eligible no more, and keeps the rest.
LEMMA QuarantinedIs ==
    ASSUME NEW o \in Object
    PROVE  LET n == Quarantined(o)
           IN  /\ n \in Object
               /\ n.identity = o.identity /\ n.incarnation = o.incarnation
               /\ n.slots = o.slots /\ n.lifecycle = "QUARANTINED" /\ n.revision = o.revision
               /\ ~n.eligible /\ ~Eligible(n)
BY DEF Quarantined, Object, Eligible

LEMMA QuarantineTurns ==
    ASSUME NEW o \in Object, Fits(o)
    PROVE  Turns(o, Quarantined(o))
<1> DEFINE n == Quarantined(o)
<1>1. /\ n \in Object
      /\ n.identity = o.identity /\ n.incarnation = o.incarnation
      /\ n.slots = o.slots /\ n.lifecycle = "QUARANTINED" /\ n.revision = o.revision
      /\ ~n.eligible /\ ~Eligible(n)
  BY QuarantinedIs
<1> HIDE DEF n
<1>2. n.eligible = Eligible(n)
  <2>1. n.eligible \in BOOLEAN
    BY <1>1 DEF Object
  <2>2. n.eligible = FALSE /\ Eligible(n) = FALSE
    BY <2>1, <1>1, SMT DEF Eligible
  <2>3. QED
    BY <2>2
<1>3. Fits(n)
  BY <1>1, <1>2 DEF Fits
<1>4. QED
  BY <1>1, <1>3 DEF Turns, n

\* A change of identity quarantines the object, after its values are taken.
LEMMA ChangeTurns ==
    ASSUME Typed, Identified, NEW t \in DOMAIN objects, NEW r \in Reflections, Decodes(r)
    PROVE  LET n == Evaluated(Quarantined(Applied(t, r)), TRUE)
           IN  Turns(objects[t], n) /\ ~n.eligible /\ n.revision = objects[t].revision
<1> DEFINE o == objects[t]
           a == Applied(t, r)
           q == Quarantined(a)
           n == Evaluated(q, TRUE)
<1>1. o \in Object /\ Fits(o)
  BY DEF Typed, Identified
<1>2. /\ a \in Object
      /\ a.identity = o.identity /\ a.incarnation = o.incarnation /\ a.revision = o.revision
      /\ ~Identifies(r) => a.slots["EntityIdentifier"] = o.slots["EntityIdentifier"]
      /\ Identifies(r) => /\ a.slots["EntityIdentifier"].value = Triple(r)
                          /\ Triple(r) # None
  BY AppliedIs
<1>3. /\ q \in Object
      /\ q.identity = a.identity /\ q.incarnation = a.incarnation
      /\ q.slots = a.slots /\ q.lifecycle = "QUARANTINED" /\ q.revision = a.revision
      /\ ~Eligible(q)
  BY <1>2, QuarantinedIs
<1>4. /\ n \in Object
      /\ n.identity = q.identity /\ n.incarnation = q.incarnation
      /\ n.slots = q.slots /\ n.lifecycle = q.lifecycle
      /\ n.eligible = Eligible(n) /\ Eligible(n) = Eligible(q)
      /\ n.revision = q.revision
  BY <1>3, EvaluatedIs
<1> HIDE DEF o, a, q, n
<1>5. n.slots["EntityIdentifier"].status = "VALID" => n.slots["EntityIdentifier"].value # None
  BY <1>1, <1>2, <1>3, <1>4 DEF Fits
<1>6. /\ n.identity = None => n.revision = 0
      /\ ~n.eligible /\ n.lifecycle = "QUARANTINED" /\ n.revision = o.revision
      /\ n.identity = o.identity /\ n.incarnation = o.incarnation
  BY <1>1, <1>2, <1>3, <1>4 DEF Fits
<1>7. Fits(n)
  BY <1>4, <1>5, <1>6 DEF Fits
<1>8. Turns(o, n) /\ ~n.eligible /\ n.revision = o.revision
  BY <1>4, <1>6, <1>7 DEF Turns
<1>9. QED
  BY <1>8 DEF o, n, q, a

\* Values that neither claim nor change an identity are taken, and the object evaluated.
LEMMA ValuesTurn ==
    ASSUME Typed, Identified, NEW t \in DOMAIN objects, NEW r \in Reflections, Decodes(r),
           ~Claims(t, r), ~Changes(t, r)
    PROVE  Turns(objects[t], Evaluated(Applied(t, r), TRUE))
<1> DEFINE o == objects[t]
           a == Applied(t, r)
           n == Evaluated(a, TRUE)
<1>1. o \in Object /\ Fits(o) /\ o.revision \in Nat
  BY DEF Typed, Identified, Object
<1>2. /\ a \in Object
      /\ a.identity = o.identity /\ a.incarnation = o.incarnation
      /\ a.lifecycle = o.lifecycle /\ a.eligible = o.eligible /\ a.revision = o.revision
      /\ ~Identifies(r) => a.slots["EntityIdentifier"] = o.slots["EntityIdentifier"]
      /\ Identifies(r) => /\ a.slots["EntityIdentifier"].value = Triple(r)
                          /\ Triple(r) # None
  BY AppliedIs
<1>3. /\ n \in Object
      /\ n.identity = a.identity /\ n.incarnation = a.incarnation
      /\ n.slots = a.slots /\ n.lifecycle = a.lifecycle
      /\ n.eligible = Eligible(n) /\ Eligible(n) = Eligible(a)
      /\ n.revision = IF Eligible(a) THEN a.revision + 1 ELSE a.revision
  BY <1>2, EvaluatedIs
<1>4. Identifies(r) => \/ o.identity = Triple(r)
                       \/ o.identity = None /\ (Triple(r) = Null \/ o.lifecycle # "ACTIVE")
  BY DEF Claims, Changes
<1> HIDE DEF o, a, n
<1>5. n.slots["EntityIdentifier"].status = "VALID" =>
        /\ n.slots["EntityIdentifier"].value # None
        /\ n.lifecycle = "ACTIVE" /\ n.slots["EntityIdentifier"].value # Null
             => n.identity = n.slots["EntityIdentifier"].value
  BY <1>1, <1>2, <1>3, <1>4 DEF Fits
<1>6. Eligible(n) => n.identity # None
  BY <1>5 DEF Eligible, Status
<1>7. /\ n.identity = None => n.revision = 0
      /\ n.eligible => n.revision # 0
  BY <1>1, <1>2, <1>3, <1>6 DEF Fits
<1>8. Fits(n)
  BY <1>3, <1>5, <1>7 DEF Fits
<1>9. Turns(o, n)
  BY <1>2, <1>3, <1>8 DEF Turns
<1>10. QED
  BY <1>9 DEF o, n, a

\* What an attribute that fails leaves eligible was eligible, and no attribute of it is touched.
LEMMA RejectTurns ==
    ASSUME Typed, Identified, NEW t \in DOMAIN objects, NEW r \in Reflections
    PROVE  Turns(objects[t], Evaluated(Rejected(t, r), FALSE))
<1> DEFINE o == objects[t]
           slots == [m \in Names |-> IF m \in DOMAIN r
                           THEN [status |-> "INVALID", value |-> None, bytes |-> r[m].bytes]
                           ELSE o.slots[m]]
           a == Rejected(t, r)
           n == Evaluated(a, FALSE)
<1>1. o \in Object /\ Fits(o) /\ o.slots \in [Names -> Slot]
  BY DEF Typed, Identified, Object
<1>2. slots \in [Names -> Slot]
  BY <1>1, ReducerAssumption DEF Slot, Statuses
<1>3. a = [o EXCEPT !.slots = slots]
  BY DEF Rejected
<1>4. /\ a \in Object /\ a.slots = slots
      /\ a.identity = o.identity /\ a.incarnation = o.incarnation
      /\ a.lifecycle = o.lifecycle /\ a.eligible = o.eligible /\ a.revision = o.revision
  <2> HIDE DEF o, slots, a
  <2>1. QED
    BY <1>1, <1>2, <1>3 DEF Object
<1>5. /\ n \in Object
      /\ n.identity = a.identity /\ n.incarnation = a.incarnation
      /\ n.slots = a.slots /\ n.lifecycle = a.lifecycle
      /\ n.eligible = Eligible(n) /\ Eligible(n) = Eligible(a)
      /\ n.revision = a.revision
  BY <1>4, EvaluatedIs
<1>6. \A m \in Names : slots[m] = o.slots[m] \/ slots[m].status = "INVALID"
  OBVIOUS
<1>7. {"EntityIdentifier", "EntityType", "ForceIdentifier", "Spatial"} \in SUBSET Names
  BY DEF Names
<1> HIDE DEF o, a, n, slots
<1>8. Eligible(n) => Eligible(o)
  <2>1. \A m \in Names : n.slots[m] = o.slots[m] \/ n.slots[m].status = "INVALID"
    BY <1>4, <1>5, <1>6
  <2>2. QED
    BY <2>1, <1>4, <1>5, <1>7 DEF Eligible, Status
<1>9. n.slots["EntityIdentifier"].status = "VALID" =>
        /\ n.slots["EntityIdentifier"].value # None
        /\ n.lifecycle = "ACTIVE" /\ n.slots["EntityIdentifier"].value # Null
             => n.identity = n.slots["EntityIdentifier"].value
  BY <1>1, <1>4, <1>5, <1>6, <1>7 DEF Fits
<1>10. /\ n.identity = None => n.revision = 0
       /\ n.eligible => o.eligible /\ n.revision # 0
  BY <1>1, <1>4, <1>5, <1>8 DEF Fits
<1>11. Fits(n)
  BY <1>5, <1>9, <1>10 DEF Fits
<1>12. Turns(o, n)
  BY <1>4, <1>5, <1>10, <1>11 DEF Turns
<1>13. QED
  BY <1>12 DEF o, n, a

-----------------------------------------------------------------------------
\* The frames that keep every object.

\* What a record says of an entity with an object: the view tells of it as the object then stands,
\* and the entity lives on.
LEMMA RecordOf ==
    ASSUME Kept, NEW h \in DOMAIN objects, NEW n, Turns(objects[h], n), view' = Told(objects[h], n)
    PROVE  /\ view' = [e \in Life!Entities |->
                          IF objects[h].identity # None /\ e = EntityOf(objects[h])
                            THEN Telling(n) ELSE view[e]]
           /\ [Life!Next]_view
<1> DEFINE o == objects[h]
           E == EntityOf(o)
<1>1. /\ o \in Object /\ Fits(o) /\ o.revision \in Nat /\ o.eligible \in BOOLEAN
      /\ view \in [Life!Entities -> Views]
  BY DEF Kept, Typed, Identified, Object
<1>2. /\ n \in Object /\ Fits(n) /\ n.revision \in Nat /\ n.eligible \in BOOLEAN
      /\ n.identity = o.identity /\ n.incarnation = o.incarnation
      /\ \/ ~n.eligible /\ n.revision = o.revision
         \/ n.eligible /\ n.revision = o.revision + 1
         \/ n.eligible /\ o.eligible /\ n.revision = o.revision
  BY DEF Turns, Object
<1>3. EntityOf(n) = E
  BY <1>2 DEF EntityOf
<1>4. view' = IF o.eligible /\ ~n.eligible THEN [view EXCEPT ![E].state = "withdrawn"]
              ELSE IF n.revision > o.revision
                THEN [view EXCEPT ![E] = [state |-> "live", revision |-> n.revision]]
              ELSE view
  BY <1>3 DEF Told
<1>5. CASE o.identity = None
  <2>1. ~o.eligible /\ ~n.eligible /\ n.revision = o.revision
    BY <1>1, <1>2, <1>5, EligibleIsNamed DEF Fits
  <2>2. view' = view
    BY <2>1, <1>1, <1>2, <1>4
  <2>3. QED
    BY <2>2, <1>1, <1>5
<1>6. CASE o.identity # None
  <2>1. /\ E \in Life!Entities /\ E.generation = generation
        /\ E.triple = o.identity /\ E.incarnation = incarnations[o.identity]
    BY <1>6, EntityIs DEF Kept
  <2>2. view[E] = Telling(o)
    BY <1>6, ObjectShown
  <2>3. o.eligible => o.revision # 0
    BY <1>1 DEF Fits
  <2>4. Telling(n) \in Views
    BY <1>2 DEF Telling, Views
  <2> HIDE DEF E, o
  <2>5. CASE o.eligible /\ ~n.eligible
    <3>1. view' = [view EXCEPT ![E].state = "withdrawn"]
      BY <2>5, <1>4
    <3>2. n.revision = o.revision /\ o.revision # 0
      BY <2>5, <2>3, <1>2
    <3>3. view[E] = [state |-> "live", revision |-> o.revision]
      BY <2>2, <2>5 DEF Telling
    <3>4. Telling(n) = [state |-> "withdrawn", revision |-> o.revision]
      BY <2>5, <3>2 DEF Telling
    <3>5. view' = [view EXCEPT ![E] = Telling(n)]
      <4>1. [view[E] EXCEPT !.state = "withdrawn"] = Telling(n)
        BY <3>3, <3>4
      <4>2. QED
        BY <4>1, <3>1
    <3>6. Life!Withdraw(E)
      BY <3>1, <3>3 DEF Life!Withdraw
    <3>7. view' = [e \in Life!Entities |-> IF e = E THEN Telling(n) ELSE view[e]]
      BY <3>5, <2>1, <1>1
    <3>8. QED
      BY <3>6, <3>7, <2>1, <1>6 DEF Life!Next, E, o
  <2>6. CASE ~(o.eligible /\ ~n.eligible) /\ n.revision > o.revision
    <3>1. view' = [view EXCEPT ![E] = [state |-> "live", revision |-> n.revision]]
      BY <2>6, <1>4
    <3>2. n.eligible /\ n.revision = o.revision + 1
      BY <2>6, <1>1, <1>2
    <3>3. view[E].revision = o.revision /\ view[E].state # "ended"
      BY <2>2 DEF Telling
    <3>4. Telling(n) = [state |-> "live", revision |-> n.revision]
      BY <3>2 DEF Telling
    <3>5. view' = [view EXCEPT ![E] = [state |-> "live", revision |-> @.revision + 1]]
      BY <3>1, <3>2, <3>3, <2>1, <1>1
    <3>6. \A d \in Life!Before(E) : Life!Ended(d)
      BY <2>1 DEF Kept, Shown, Stands, Life!Before, Life!Ended
    <3>7. \A d \in Life!Entities :
             view[d].state \in {"live", "withdrawn"} => d.generation = E.generation
      BY <2>1 DEF Kept, Shown
    <3>8. Life!Upsert(E)
      BY <3>3, <3>5, <3>6, <3>7 DEF Life!Upsert, Life!Ended
    <3>9. view' = [e \in Life!Entities |-> IF e = E THEN Telling(n) ELSE view[e]]
      BY <3>1, <3>4, <2>1, <1>1
    <3>10. QED
      BY <3>8, <3>9, <2>1, <1>6 DEF Life!Next, E, o
  <2>7. CASE ~(o.eligible /\ ~n.eligible) /\ ~(n.revision > o.revision)
    <3>1. view' = view
      BY <2>7, <1>4
    <3>2. n.eligible = o.eligible /\ n.revision = o.revision
      BY <2>7, <1>1, <1>2
    <3>3. Telling(n) = view[E]
      BY <3>2, <2>2 DEF Telling
    <3>4. view' = [e \in Life!Entities |-> IF e = E THEN Telling(n) ELSE view[e]]
      BY <3>1, <3>3, <2>1, <1>1
    <3>5. QED
      BY <3>1, <3>4, <1>6 DEF E, o
  <2>8. QED
    BY <2>5, <2>6, <2>7
<1>7. QED
  BY <1>5, <1>6

\* A frame that turns objects, and tells of the one it makes eligible or not.
LEMMA FrameTurns ==
    ASSUME Kept, NEW h \in DOMAIN objects,
           DOMAIN objects' = DOMAIN objects,
           \A u \in DOMAIN objects : Turns(objects[u], objects'[u]),
           \A u \in DOMAIN objects \ {h} : /\ objects'[u].eligible = objects[u].eligible
                                           /\ objects'[u].revision = objects[u].revision,
           view' = Told(objects[h], objects'[h]),
           UNCHANGED <<generation, last, removed, index, incarnations>>
    PROVE  Kept' /\ [Life!Next]_view
<1> DEFINE E == EntityOf(objects[h])
<1>1. \A u \in DOMAIN objects :
         /\ objects'[u] \in Object /\ Fits(objects'[u])
         /\ objects'[u].identity = objects[u].identity
         /\ objects'[u].incarnation = objects[u].incarnation
  BY DEF Turns
<1>2. Turns(objects[h], objects'[h])
  OBVIOUS
<1>3. /\ view' = [e \in Life!Entities |->
                     IF objects[h].identity # None /\ e = E THEN Telling(objects'[h]) ELSE view[e]]
      /\ [Life!Next]_view
  BY <1>2, RecordOf
<1>4. Telling(objects'[h]) \in Views
  <2>1. objects'[h].revision \in Nat
    BY <1>1 DEF Object
  <2>2. QED
    BY <2>1 DEF Telling, Views
<1>5. Typed'
  <2>1. view' \in [Life!Entities -> Views]
    BY <1>3, <1>4 DEF Kept, Typed
  <2>2. QED
    BY <1>1, <2>1 DEF Kept, Typed, Object, Life!Entities
<1>6. Identified'
  <2>1. \A t \in DOMAIN objects : Fits(objects[t])'
    BY <1>1 DEF Fits, Eligible, Status
  <2>2. \A t \in DOMAIN objects :
           (objects[t].identity # None => objects[t].incarnation = incarnations[objects[t].identity])'
    BY <1>1 DEF Kept, Identified
  <2>3. \A x \in Triples, t \in Tokens :
           (index[x] = t <=> t \in DOMAIN objects /\ objects[t].identity = x)'
    BY <1>1 DEF Kept, Identified
  <2> HIDE DEF Fits
  <2>4. QED
    BY <2>1, <2>2, <2>3 DEF Identified
<1>7. Named' = Named
  BY <1>1 DEF Named
<1>8. Limited'
  BY <1>7 DEF Kept, Limited
<1>9. \A u \in DOMAIN objects \ {h} : Telling(objects'[u]) = Telling(objects[u])
  BY DEF Telling
<1>10. h \in Tokens /\ h # None
  BY ReducerAssumption DEF Kept, Typed
<1>11. \A x \in Triples : None # x
  BY ReducerAssumption
<1>12. \A x \in Triples : index[x] # None =>
          /\ index[x] \in DOMAIN objects
          /\ objects[index[x]].identity = x
          /\ objects[index[x]].incarnation = incarnations[x]
  <2>1. \A x \in Triples : index[x] # None =>
           index[x] \in DOMAIN objects /\ objects[index[x]].identity = x
    BY DEF Kept, Typed, Identified
  <2>2. QED
    BY <2>1, <1>11 DEF Kept, Identified
<1>13. \A e \in Life!Entities : e.triple \in Triples
  BY DEF Life!Entities
<1>14. ASSUME NEW e \in Life!Entities
       PROVE  /\ e.generation = generation => Stands(e)'
              /\ e.generation # generation => view'[e].state \in {"unborn", "ended"}
              /\ e.generation > last => view'[e] = Life!Unborn
  <2>1. CASE objects[h].identity # None /\ e = E
    <3>1. /\ view'[e] = Telling(objects'[h])
          /\ index[e.triple] = h /\ e.generation = generation
          /\ e.incarnation = incarnations[e.triple]
      BY <2>1, <1>3, EntityIs DEF Kept
    <3>2. generation <= last /\ last \in Nat /\ e.incarnation \in Int
      BY ReducerAssumption DEF Kept, Typed, Life!Entities
    <3>3. ~(e.generation > last)
      BY <3>1, <3>2 DEF Kept, Typed
    <3>4. Stands(e)'
      BY <3>1, <3>2, <1>10 DEF Stands, Telling
    <3>5. QED
      BY <3>1, <3>3, <3>4
  <2>2. CASE ~(objects[h].identity # None /\ e = E)
    <3>1. view'[e] = view[e]
      BY <2>2, <1>3
    <3>2. ASSUME index[e.triple] # None, e.incarnation = incarnations[e.triple],
                 e.generation = generation
          PROVE  index[e.triple] # h
      <4>1. SUFFICES ASSUME index[e.triple] = h PROVE FALSE
        OBVIOUS
      <4>2. objects[h].identity = e.triple /\ objects[h].incarnation = e.incarnation
        BY <4>1, <3>2, <1>12, <1>13
      <4>3. e = [generation |-> e.generation, triple |-> e.triple, incarnation |-> e.incarnation]
        BY DEF Life!Entities
      <4>4. e = E
        BY <4>2, <4>3, <3>2 DEF EntityOf
      <4>5. QED
        BY <4>2, <4>4, <2>2, <1>11, <1>13
    <3>3. e.generation = generation => Stands(e)'
      <4>1. SUFFICES ASSUME e.generation = generation PROVE Stands(e)'
        OBVIOUS
      <4>2. Stands(e)
        BY <4>1 DEF Kept, Shown
      <4>3. CASE e.incarnation = incarnations[e.triple] /\ index[e.triple] # None
        <5>1. index[e.triple] \in DOMAIN objects \ {h}
          BY <4>1, <4>3, <3>2, <1>12, <1>13
        <5>2. Telling(objects'[index[e.triple]]) = Telling(objects[index[e.triple]])
          BY <5>1, <1>9
        <5>3. view[e] = Telling(objects[index[e.triple]])
          BY <4>2, <4>3 DEF Stands
        <5>4. e.incarnation \in Int
          BY DEF Life!Entities
        <5>5. QED
          BY <5>2, <5>3, <5>4, <4>3, <3>1 DEF Stands, Telling
      <4>4. CASE ~(e.incarnation = incarnations[e.triple] /\ index[e.triple] # None)
        BY <4>2, <4>4, <3>1 DEF Stands
      <4>5. QED
        BY <4>3, <4>4
    <3>4. QED
      BY <3>1, <3>3 DEF Kept, Shown
  <2>3. QED
    BY <2>1, <2>2
<1>15. Shown'
  <2>1. Life!Entities' = Life!Entities /\ Life!Unborn' = Life!Unborn
    BY DEF Life!Entities, Life!Unborn
  <2>2. QED
    BY <1>14, <2>1 DEF Shown
<1>16. QED
  BY <1>3, <1>5, <1>6, <1>8, <1>15 DEF Kept

-----------------------------------------------------------------------------
\* The claim of an identity.

\* The object that claims a free identifier begins its next incarnation.
LEMMA ClaimTurns ==
    ASSUME Kept, NEW t \in DOMAIN objects, NEW r \in Reflections, Decodes(r), Claims(t, r),
           NEW k \in Nat
    PROVE  LET n == Evaluated([Applied(t, r) EXCEPT !.identity = Triple(r), !.incarnation = k], TRUE)
           IN  /\ n \in Object /\ Fits(n)
               /\ n.identity = Triple(r) /\ n.incarnation = k
               /\ Triple(r) \in Triples /\ Triple(r) # None
               /\ objects[t].identity = None /\ objects[t].revision = 0 /\ ~objects[t].eligible
               /\ n.revision = IF n.eligible THEN 1 ELSE 0
<1> DEFINE o == objects[t]
           a == Applied(t, r)
           c == [a EXCEPT !.identity = Triple(r), !.incarnation = k]
           n == Evaluated(c, TRUE)
<1>1. o \in Object /\ Fits(o) /\ o.identity = None /\ o.revision = 0 /\ ~o.eligible
  <2>1. o \in Object /\ Fits(o) /\ o.identity = None
    BY DEF Kept, Typed, Identified, Claims
  <2>2. QED
    BY <2>1 DEF Fits
<1>2. /\ a \in Object /\ a.revision = o.revision
      /\ a.slots["EntityIdentifier"].value = Triple(r)
      /\ Triple(r) \in Triples /\ Triple(r) # None
  BY AppliedIs DEF Kept, Claims
<1> HIDE DEF o, a
<1>3. /\ c \in Object
      /\ c.identity = Triple(r) /\ c.incarnation = k
      /\ c.slots = a.slots /\ c.revision = 0
  BY <1>1, <1>2 DEF Object
<1> HIDE DEF c
<1>4. /\ n \in Object
      /\ n.identity = c.identity /\ n.incarnation = c.incarnation
      /\ n.slots = c.slots
      /\ n.eligible = Eligible(n) /\ Eligible(n) = Eligible(c)
      /\ n.revision = IF Eligible(c) THEN c.revision + 1 ELSE c.revision
  BY <1>3, EvaluatedIs
<1> HIDE DEF n
<1>5. n.revision = IF n.eligible THEN 1 ELSE 0
  BY <1>3, <1>4
<1>6. Fits(n)
  BY <1>2, <1>3, <1>4, <1>5 DEF Fits
<1>7. QED
  BY <1>1, <1>2, <1>3, <1>4, <1>5, <1>6 DEF n, c, a, o

LEMMA ClaimKept ==
    ASSUME Kept, NEW t \in Tokens, NEW r \in Reflections, Open, ApplyClaim(t, r)
    PROVE  Kept' /\ [Life!Next]_view
<1> DEFINE x == Triple(r)
           k == incarnations[x] + 1
           n == Evaluated([Applied(t, r) EXCEPT !.identity = x, !.incarnation = k], TRUE)
           E == EntityOf(n)
<1>1. /\ t \in DOMAIN objects /\ Decodes(r) /\ Claims(t, r) /\ index[x] = None
      /\ generation # 0 /\ UNCHANGED <<generation, last, removed>>
  BY DEF ApplyClaim, Apply, Reflected, Known, Open
<1>2. x \in Triples /\ x # None
  BY <1>1, ReducerAssumption, ClaimTurns DEF Kept, Typed, Object
<1>3. incarnations[x] \in Nat /\ k \in Nat
  BY <1>2 DEF Kept, Typed
<1>4. /\ n \in Object /\ Fits(n)
      /\ n.identity = x /\ n.incarnation = k
      /\ objects[t].identity = None /\ objects[t].revision = 0 /\ ~objects[t].eligible
      /\ n.revision = IF n.eligible THEN 1 ELSE 0
  BY <1>1, <1>3, ClaimTurns
<1>5. /\ incarnations' = [incarnations EXCEPT ![x] = k]
      /\ index' = [index EXCEPT ![x] = t]
      /\ objects' = Put(t, n)
      /\ view' = Told(objects[t], n)
  BY DEF ApplyClaim, NextIncarnation, Becomes
<1> HIDE DEF n, k, x
<1>6. /\ DOMAIN objects' = DOMAIN objects
      /\ objects'[t] = n
      /\ \A u \in DOMAIN objects \ {t} : objects'[u] = objects[u]
  BY <1>1, <1>5 DEF Put
<1>7. /\ Named' = Named \cup {t} /\ t \notin Named
      /\ Named' \in SUBSET Tokens /\ IsFiniteSet(Named') /\ IsFiniteSet(Tokens)
  <2>1. t \notin Named
    BY <1>1, <1>4 DEF Named, Kept, Typed
  <2>2. \A u \in DOMAIN objects \ {t} : objects'[u].identity = objects[u].identity
    BY <1>6
  <2>3. Named' = Named \cup {t}
    BY <2>2, <1>1, <1>2, <1>4, <1>6 DEF Named
  <2>4. IsFiniteSet(Named) /\ Named \in SUBSET Tokens
    BY NamedFits DEF Kept
  <2>5. QED
    BY <2>1, <2>3, <2>4, ReducerAssumption, FS_AddElement
<1>8. /\ Cardinality(Named) \in Nat /\ Cardinality(Tokens) \in Nat
      /\ Cardinality(Named') = Cardinality(Named) + 1
      /\ Cardinality(Named') <= Cardinality(Tokens)
  <2>1. Cardinality(Named) \in Nat /\ Cardinality(Tokens) \in Nat /\ IsFiniteSet(Named)
    BY NamedFits DEF Kept
  <2>2. Cardinality(Named') = Cardinality(Named) + 1
    BY <2>1, <1>7, FS_AddElement
  <2>3. Cardinality(Named') <= Cardinality(Tokens)
    BY <1>7, FS_Subset
  <2>4. QED
    BY <2>1, <2>2, <2>3
<1>9. /\ E \in Life!Entities
      /\ E.generation = generation /\ E.triple = x /\ E.incarnation = k
  <2>1. incarnations[x] <= Cardinality(Named)
    BY <1>2 DEF Kept, Limited
  <2>2. k \in 1 .. Cardinality(Tokens)
    BY <2>1, <1>3, <1>8 DEF k
  <2>3. generation \in 1 .. MaxGenerations
    BY <1>1, ReducerAssumption DEF Kept, Typed
  <2>4. QED
    BY <2>2, <2>3, <1>2, <1>4 DEF EntityOf, Life!Entities
<1> HIDE DEF E
<1>10. view[E] = Life!Unborn
  BY <1>3, <1>9 DEF k, Kept, Shown, Stands
<1>11. Telling(n) = IF n.eligible THEN [state |-> "live", revision |-> 1] ELSE Life!Unborn
  BY <1>4 DEF Telling, Life!Unborn
<1>12. /\ view \in [Life!Entities -> Views]
       /\ view' = [view EXCEPT ![E] = Telling(n)]
       /\ [Life!Next]_view
  <2>1. view \in [Life!Entities -> Views]
    BY DEF Kept, Typed
  <2>2. view' = IF n.revision > 0
                  THEN [view EXCEPT ![E] = [state |-> "live", revision |-> n.revision]] ELSE view
    BY <1>4, <1>5 DEF Told, E
  <2>3. CASE n.eligible
    <3>1. view' = [view EXCEPT ![E] = [state |-> "live", revision |-> 1]]
      BY <2>2, <2>3, <1>4
    <3>2. view' = [view EXCEPT ![E] = [state |-> "live", revision |-> @.revision + 1]]
      BY <3>1, <1>10 DEF Life!Unborn
    <3>3. \A d \in Life!Before(E) : Life!Ended(d)
      <4>1. SUFFICES ASSUME NEW d \in Life!Before(E) PROVE view[d].state = "ended"
        BY DEF Life!Ended
      <4>2. /\ d \in Life!Entities /\ d.generation = generation /\ d.triple = x
            /\ d.incarnation \in Nat /\ d.incarnation < incarnations[x] + 1
        BY <1>9 DEF k, Life!Before, Life!Entities
      <4>3. d.incarnation < incarnations[x] \/ d.incarnation = incarnations[x]
        BY <4>2, <1>3
      <4>4. QED
        BY <4>2, <4>3, <1>1 DEF Kept, Shown, Stands
    <3>4. \A d \in Life!Entities :
             view[d].state \in {"live", "withdrawn"} => d.generation = E.generation
      BY <1>9 DEF Kept, Shown
    <3>5. Life!Upsert(E)
      BY <3>2, <3>3, <3>4, <1>10 DEF Life!Upsert, Life!Ended, Life!Unborn
    <3>6. QED
      BY <3>1, <3>5, <2>1, <2>3, <1>9, <1>11 DEF Life!Next
  <2>4. CASE ~n.eligible
    <3>1. view' = view /\ Telling(n) = view[E]
      BY <2>2, <2>4, <1>4, <1>10, <1>11
    <3>2. QED
      BY <3>1, <2>1, <1>9
  <2>5. QED
    BY <2>3, <2>4
<1>13. Typed'
  <2>1. Telling(n) \in Views
    BY <1>4 DEF Telling, Views, Object
  <2>2. view' \in [Life!Entities -> Views]
    BY <2>1, <1>12
  <2>3. \A u \in DOMAIN objects' : objects'[u] \in Object
    BY <1>4, <1>6 DEF Kept, Typed
  <2>4. index' \in [Triples -> Tokens \cup {None}] /\ incarnations' \in [Triples -> Nat]
    BY <1>3, <1>5 DEF Kept, Typed
  <2>5. QED
    BY <2>2, <2>3, <2>4, <1>1, <1>6 DEF Kept, Typed, Object, Life!Entities
<1>14. \A y \in Triples : /\ index'[y] = IF y = x THEN t ELSE index[y]
                          /\ incarnations'[y] = IF y = x THEN k ELSE incarnations[y]
  BY <1>5 DEF Kept, Typed
<1>15. \A u \in DOMAIN objects \ {t} : objects[u].identity # x
  BY <1>1, <1>2, ReducerAssumption DEF Kept, Typed, Identified
<1>16. Identified'
  <2>1. \A u \in DOMAIN objects : Fits(objects'[u])
    BY <1>4, <1>6 DEF Kept, Identified
  <2>2. ASSUME NEW u \in DOMAIN objects, objects'[u].identity # None
        PROVE  objects'[u].incarnation = incarnations'[objects'[u].identity]
    <3>1. CASE u = t
      BY <3>1, <1>2, <1>4, <1>6, <1>14
    <3>2. CASE u # t
      <4>1. objects'[u] = objects[u] /\ objects[u].identity \in Triples /\ objects[u].identity # x
        BY <3>2, <2>2, <1>6, <1>15 DEF Kept, Typed, Object
      <4>2. QED
        BY <4>1, <2>2, <1>14 DEF Kept, Identified
    <3>3. QED
      BY <3>1, <3>2
  <2>3. ASSUME NEW y \in Triples, NEW u \in Tokens
        PROVE  index'[y] = u <=> u \in DOMAIN objects /\ objects'[u].identity = y
    <3>1. index[y] = u <=> u \in DOMAIN objects /\ objects[u].identity = y
      BY DEF Kept, Identified
    <3>2. y # None
      BY ReducerAssumption
    <3>3. QED
      BY <3>1, <3>2, <1>1, <1>4, <1>6, <1>14, <1>15
  <2>4. \A u \in DOMAIN objects' : Fits(objects[u])'
    BY <2>1, <1>6 DEF Fits, Eligible, Status
  <2> HIDE DEF Fits
  <2>5. QED
    BY <2>2, <2>3, <2>4, <1>6 DEF Identified
<1>17. Limited'
  <2>1. ASSUME NEW y \in Triples
        PROVE  incarnations'[y] <= Cardinality(Named')
    <3>1. incarnations[y] \in Nat /\ incarnations[y] <= Cardinality(Named)
      BY DEF Kept, Typed, Limited
    <3>2. QED
      BY <3>1, <1>2, <1>8, <1>14 DEF k
  <2>2. ASSUME NEW y \in Triples, index'[y] # None
        PROVE  incarnations'[y] # 0
    BY <2>2, <1>3, <1>14 DEF k, Kept, Limited
  <2>3. QED
    BY <2>1, <2>2 DEF Limited
<1>18. ASSUME NEW e \in Life!Entities
       PROVE  /\ e.generation = generation => Stands(e)'
              /\ e.generation # generation => view'[e].state \in {"unborn", "ended"}
              /\ e.generation > last => view'[e] = Life!Unborn
  <2>1. e.triple \in Triples /\ e.incarnation \in Nat /\ t # None
    BY ReducerAssumption DEF Life!Entities
  <2>2. /\ e.generation = generation => Stands(e)
        /\ e.generation # generation => view[e].state \in {"unborn", "ended"}
        /\ e.generation > last => view[e] = Life!Unborn
    BY DEF Kept, Shown
  <2>3. CASE e = E
    <3>1. view'[e] = Telling(n) /\ index'[e.triple] = t /\ objects'[t] = n
          /\ incarnations'[e.triple] = k /\ e.incarnation = k /\ e.generation = generation
      BY <2>3, <1>2, <1>6, <1>9, <1>12, <1>14
    <3>2. ~(e.generation > last)
      BY <3>1, <1>1, ReducerAssumption DEF Kept, Typed
    <3>3. Stands(e)'
      BY <3>1, <2>1, <1>3 DEF Stands, Telling
    <3>4. QED
      BY <3>1, <3>2, <3>3
  <2>4. CASE e # E
    <3>1. view'[e] = view[e]
      BY <2>4, <1>9, <1>12
    <3>2. ASSUME e.generation = generation PROVE Stands(e)'
      <4>1. CASE e.triple # x
        <5>1. index'[e.triple] = index[e.triple] /\ incarnations'[e.triple] = incarnations[e.triple]
          BY <4>1, <2>1, <1>14
        <5>2. index[e.triple] # None =>
                 objects'[index[e.triple]] = objects[index[e.triple]]
          <6>1. SUFFICES ASSUME index[e.triple] # None
                         PROVE  objects'[index[e.triple]] = objects[index[e.triple]]
            OBVIOUS
          <6>2. index[e.triple] \in Tokens
            BY <6>1, <2>1 DEF Kept, Typed
          <6>3. index[e.triple] \in DOMAIN objects /\ objects[index[e.triple]].identity = e.triple
            BY <6>2, <2>1 DEF Kept, Identified
          <6>4. e.triple # None
            BY <2>1, ReducerAssumption
          <6>5. QED
            BY <6>3, <6>4, <1>4, <1>6
        <5>3. QED
          BY <5>1, <5>2, <3>1, <3>2, <2>2 DEF Stands, Telling
      <4>2. CASE e.triple = x
        <5>1. e.incarnation # k
          <6>1. e = [generation |-> e.generation, triple |-> e.triple, incarnation |-> e.incarnation]
                /\ E = [generation |-> generation, triple |-> x, incarnation |-> k]
            BY <1>4 DEF E, EntityOf, Life!Entities
          <6>2. QED
            BY <6>1, <4>2, <3>2, <2>4
        <5>2. incarnations'[e.triple] = k /\ index[e.triple] = None
          BY <4>2, <1>1, <1>2, <1>14
        <5>3. CASE e.incarnation < k
          <6>1. e.incarnation < incarnations[x] \/ e.incarnation = incarnations[x]
            BY <5>3, <2>1, <1>3 DEF k
          <6>2. view[e].state = "ended"
            BY <6>1, <5>2, <4>2, <3>2, <2>2 DEF Stands
          <6>3. QED
            BY <6>2, <5>2, <5>3, <3>1, <2>1, <1>3 DEF Stands
        <5>4. CASE e.incarnation > k
          <6>1. e.incarnation > incarnations[x]
            BY <5>4, <2>1, <1>3 DEF k
          <6>2. view[e] = Life!Unborn
            BY <6>1, <4>2, <3>2, <2>2 DEF Stands
          <6>3. QED
            BY <6>2, <5>2, <5>4, <3>1, <2>1, <1>3 DEF Stands, Life!Unborn
        <5>5. QED
          BY <5>1, <5>3, <5>4, <2>1, <1>3
      <4>3. QED
        BY <4>1, <4>2
    <3>3. QED
      BY <3>1, <3>2, <2>2
  <2>5. QED
    BY <2>3, <2>4
<1>19. Shown'
  <2>1. Life!Entities' = Life!Entities /\ Life!Unborn' = Life!Unborn
    BY DEF Life!Entities, Life!Unborn
  <2>2. QED
    BY <1>1, <1>18, <2>1 DEF Shown
<1>20. QED
  BY <1>12, <1>13, <1>16, <1>17, <1>19 DEF Kept

-----------------------------------------------------------------------------
\* The end of objects and of generations.

\* The entities of objects that end are over, and no other is touched.
LEMMA FinishedIs ==
    ASSUME Kept, NEW U \in SUBSET DOMAIN objects, view' = Finished({objects[u] : u \in U})
    PROVE  /\ view' \in [Life!Entities -> Views]
           /\ [Life!Next]_view
           /\ \A e \in Life!Entities :
                 IF /\ e.generation = generation /\ index[e.triple] \in U
                    /\ e.incarnation = incarnations[e.triple]
                   THEN view'[e].state = "ended" ELSE view'[e] = view[e]
<1> DEFINE over == {EntityOf(o) : o \in {o \in {objects[u] : u \in U} : o.identity # None}}
<1>1. ASSUME NEW e \in over
      PROVE  /\ e \in Life!Entities /\ view[e].state # "ended"
             /\ e.generation = generation /\ index[e.triple] \in U
             /\ e.incarnation = incarnations[e.triple]
  <2>1. PICK u \in U : objects[u].identity # None /\ e = EntityOf(objects[u])
    BY <1>1
  <2>2. u \in DOMAIN objects
    OBVIOUS
  <2>3. /\ index[objects[u].identity] = u /\ e \in Life!Entities
        /\ e.generation = generation /\ e.triple = objects[u].identity
        /\ e.incarnation = incarnations[objects[u].identity]
    BY <2>1, <2>2, EntityIs DEF Kept
  <2>4. view[e] = Telling(objects[u])
    BY <2>1, <2>2, ObjectShown
  <2>5. view[e].state # "ended"
    BY <2>4 DEF Telling
  <2>6. QED
    BY <2>3, <2>5
<1>2. ASSUME NEW e \in Life!Entities, e.generation = generation, index[e.triple] \in U,
             e.incarnation = incarnations[e.triple]
      PROVE  e \in over
  <2>1. e.triple \in Triples /\ e.triple # None
    BY ReducerAssumption DEF Life!Entities
  <2>2. index[e.triple] \in Tokens /\ index[e.triple] \in DOMAIN objects
    BY <1>2 DEF Kept, Typed
  <2>3. objects[index[e.triple]].identity = e.triple
    BY <2>1, <2>2 DEF Kept, Identified
  <2>4. objects[index[e.triple]].incarnation = incarnations[e.triple]
    BY <2>1, <2>2, <2>3 DEF Kept, Identified
  <2>5. e = [generation |-> e.generation, triple |-> e.triple, incarnation |-> e.incarnation]
    BY DEF Life!Entities
  <2>6. e = EntityOf(objects[index[e.triple]])
    BY <2>3, <2>4, <2>5, <1>2 DEF EntityOf
  <2>7. QED
    BY <2>1, <2>3, <2>6, <1>2
<1>3. view' = [e \in Life!Entities |->
                  IF e \in over THEN [view[e] EXCEPT !.state = "ended"] ELSE view[e]]
  BY DEF Finished
<1> HIDE DEF over
<1>4. view \in [Life!Entities -> Views]
  BY DEF Kept, Typed
<1>5. Life!End(over)
  BY <1>1, <1>3 DEF Life!End, Life!Ended
<1>6. over \in SUBSET Life!Entities
  BY <1>1
<1>7. [Life!Next]_view
  BY <1>5, <1>6 DEF Life!Next
<1>8. ASSUME NEW e \in Life!Entities
      PROVE  /\ [view[e] EXCEPT !.state = "ended"] \in Views
             /\ [view[e] EXCEPT !.state = "ended"].state = "ended"
  BY <1>4 DEF Views
<1>9. view' \in [Life!Entities -> Views]
  BY <1>3, <1>4, <1>8
<1>10. ASSUME NEW e \in Life!Entities
       PROVE  IF /\ e.generation = generation /\ index[e.triple] \in U
                 /\ e.incarnation = incarnations[e.triple]
                THEN view'[e].state = "ended" ELSE view'[e] = view[e]
  BY <1>1, <1>2, <1>3, <1>8
<1>11. QED
  BY <1>7, <1>9, <1>10

LEMMA GenerationEndKept ==
    ASSUME Kept, GenerationEnd
    PROVE  Kept' /\ [Life!Next]_view
<1>1. view' = Finished({objects[u] : u \in DOMAIN objects})
  BY DEF GenerationEnd
<1>2. /\ view' \in [Life!Entities -> Views]
      /\ [Life!Next]_view
      /\ \A e \in Life!Entities :
            IF /\ e.generation = generation /\ index[e.triple] \in DOMAIN objects
               /\ e.incarnation = incarnations[e.triple]
              THEN view'[e].state = "ended" ELSE view'[e] = view[e]
  BY <1>1, FinishedIs
<1>3. /\ generation # 0 /\ generation' = 0 /\ last' = last
      /\ objects' = NoObjects /\ removed' = {} /\ DOMAIN objects' = {}
      /\ index' = [x \in Triples |-> None] /\ incarnations' = [x \in Triples |-> 0]
  BY DEF GenerationEnd, Cleared, NoObjects
<1>4. Typed'
  BY <1>2, <1>3 DEF Kept, Typed, Object, Life!Entities
<1>5. Identified'
  BY <1>3, ReducerAssumption DEF Identified
<1>6. Limited'
  <2>1. Named' = {}
    BY <1>3 DEF Named
  <2>2. Cardinality(Named') = 0
    BY <2>1, FS_EmptySet
  <2>3. QED
    BY <2>2, <1>3 DEF Limited
<1>7. ASSUME NEW e \in Life!Entities
      PROVE  /\ e.generation # 0
             /\ view'[e].state \in {"unborn", "ended"}
             /\ e.generation > last => view'[e] = Life!Unborn
  <2>1. e.generation \in Nat \ {0} /\ e.triple \in Triples /\ e.incarnation \in Int
    BY ReducerAssumption DEF Life!Entities
  <2>2. CASE e.generation # generation
    BY <2>1, <2>2, <1>2 DEF Kept, Shown
  <2>3. CASE e.generation = generation
    <3>1. ~(e.generation > last)
      BY <2>3, <2>1, <1>3, ReducerAssumption DEF Kept, Typed
    <3>2. Stands(e)
      BY <2>3 DEF Kept, Shown
    <3>3. index[e.triple] # None => index[e.triple] \in DOMAIN objects
      BY <2>1 DEF Kept, Typed, Identified
    <3>4. view'[e].state \in {"unborn", "ended"}
      <4>1. incarnations[e.triple] \in Nat
        BY <2>1 DEF Kept, Typed
      <4>2. CASE e.incarnation # incarnations[e.triple]
        <5>1. e.incarnation < incarnations[e.triple] \/ e.incarnation > incarnations[e.triple]
          BY <4>1, <4>2, <2>1
        <5>2. view'[e] = view[e]
          BY <4>2, <1>2
        <5>3. QED
          BY <5>1, <5>2, <3>2 DEF Stands, Life!Unborn
      <4>3. CASE e.incarnation = incarnations[e.triple] /\ index[e.triple] = None
        BY <4>3, <3>2, <1>2 DEF Stands
      <4>4. CASE e.incarnation = incarnations[e.triple] /\ index[e.triple] # None
        BY <4>4, <3>3, <2>3, <1>2
      <4>5. QED
        BY <4>2, <4>3, <4>4
    <3>5. QED
      BY <2>1, <3>1, <3>4
  <2>4. QED
    BY <2>2, <2>3
<1>8. Shown'
  <2>1. Life!Entities' = Life!Entities /\ Life!Unborn' = Life!Unborn
    BY DEF Life!Entities, Life!Unborn
  <2>2. QED
    BY <1>3, <1>7, <2>1 DEF Shown
<1>9. QED
  BY <1>2, <1>4, <1>5, <1>6, <1>8 DEF Kept

LEMMA GenerationStartKept ==
    ASSUME Kept, GenerationStart
    PROVE  Kept' /\ [Life!Next]_view
<1>1. /\ generation = 0 /\ last < MaxGenerations /\ generation' = last + 1 /\ last' = last + 1
      /\ objects' = NoObjects /\ removed' = {} /\ DOMAIN objects' = {}
      /\ index' = [x \in Triples |-> None] /\ incarnations' = [x \in Triples |-> 0]
      /\ view' = view
  BY DEF GenerationStart, Cleared, NoObjects
<1>2. last \in Nat /\ MaxGenerations \in Nat
  BY ReducerAssumption DEF Kept, Typed
<1>3. Typed'
  BY <1>1, <1>2 DEF Kept, Typed, Object, Life!Entities
<1>4. Identified'
  BY <1>1, ReducerAssumption DEF Identified
<1>5. Limited'
  <2>1. Named' = {}
    BY <1>1 DEF Named
  <2>2. Cardinality(Named') = 0
    BY <2>1, FS_EmptySet
  <2>3. QED
    BY <2>2, <1>1 DEF Limited
<1>6. ASSUME NEW e \in Life!Entities
      PROVE  /\ e.generation = last + 1 => Stands(e)'
             /\ view[e].state \in {"unborn", "ended"}
             /\ e.generation > last + 1 => view[e] = Life!Unborn
  <2>1. e.generation \in Nat \ {0} /\ e.triple \in Triples /\ e.incarnation \in Nat \ {0}
    BY ReducerAssumption DEF Life!Entities
  <2>2. view[e].state \in {"unborn", "ended"}
    BY <2>1, <1>1 DEF Kept, Shown
  <2>3. e.generation > last => view[e] = Life!Unborn
    BY DEF Kept, Shown
  <2>4. ASSUME e.generation = last + 1 PROVE Stands(e)'
    <3>1. incarnations'[e.triple] = 0 /\ view'[e] = Life!Unborn
      BY <2>1, <2>3, <2>4, <1>1, <1>2
    <3>2. QED
      BY <3>1, <2>1 DEF Stands, Life!Unborn
  <2>5. QED
    BY <2>1, <2>2, <2>3, <2>4, <1>2
<1>7. Shown'
  <2>1. Life!Entities' = Life!Entities /\ Life!Unborn' = Life!Unborn
    BY DEF Life!Entities, Life!Unborn
  <2>2. QED
    BY <1>1, <1>6, <2>1 DEF Shown
<1>8. QED
  BY <1>1, <1>3, <1>4, <1>5, <1>7 DEF Kept

LEMMA RemoveKept ==
    ASSUME Kept, NEW t \in Tokens, Remove(t)
    PROVE  Kept' /\ [Life!Next]_view
<1>1. /\ t \in DOMAIN objects /\ UNCHANGED <<generation, last, incarnations>>
      /\ view' = Finished({objects[t]})
      /\ index' = [x \in Triples |-> IF index[x] = t THEN None ELSE index[x]]
      /\ removed' = removed \cup {t}
      /\ DOMAIN objects' = DOMAIN objects \ {t}
      /\ \A u \in DOMAIN objects \ {t} : objects'[u] = objects[u]
  BY DEF Remove, Known, Open, Released
<1>2. /\ view' \in [Life!Entities -> Views]
      /\ [Life!Next]_view
      /\ \A e \in Life!Entities :
            IF /\ e.generation = generation /\ index[e.triple] \in {t}
               /\ e.incarnation = incarnations[e.triple]
              THEN view'[e].state = "ended" ELSE view'[e] = view[e]
  <2>1. {t} \in SUBSET DOMAIN objects /\ {objects[t]} = {objects[u] : u \in {t}}
    BY <1>1
  <2>2. QED
    BY <2>1, <1>1, FinishedIs
<1>3. t # None
  BY ReducerAssumption
<1>4. Typed'
  BY <1>1, <1>2 DEF Kept, Typed, Object, Life!Entities
<1>5. Identified'
  <2>1. \A u \in DOMAIN objects' : Fits(objects[u])'
    <3>1. \A u \in DOMAIN objects \ {t} : Fits(objects[u])
      BY DEF Kept, Identified
    <3>2. \A u \in DOMAIN objects' : Fits(objects'[u])
      BY <3>1, <1>1
    <3>3. QED
      BY <3>2 DEF Fits, Eligible, Status
  <2>2. ASSUME NEW u \in DOMAIN objects \ {t}, objects[u].identity # None
        PROVE  objects[u].incarnation = incarnations[objects[u].identity]
    BY <2>2 DEF Kept, Identified
  <2>3. ASSUME NEW y \in Triples, NEW u \in Tokens
        PROVE  index'[y] = u <=> u \in DOMAIN objects \ {t} /\ objects[u].identity = y
    <3>1. index[y] = u <=> u \in DOMAIN objects /\ objects[u].identity = y
      BY DEF Kept, Identified
    <3>2. index'[y] = IF index[y] = t THEN None ELSE index[y]
      BY <1>1
    <3>3. u # None
      BY ReducerAssumption
    <3>4. QED
      BY <3>1, <3>2, <3>3
  <2>4. QED
    BY <2>1, <2>2, <2>3, <1>1 DEF Identified
<1>6. Limited'
  <2>1. Named \in SUBSET Named' /\ Named' \in SUBSET Tokens
    BY <1>1 DEF Named, Kept, Typed
  <2>2. IsFiniteSet(Named')
    BY <2>1, ReducerAssumption, FS_Subset
  <2>3. Cardinality(Named) <= Cardinality(Named') /\ Cardinality(Named') \in Nat
    BY <2>1, <2>2, FS_Subset, FS_CardinalityType
  <2>4. Cardinality(Named) \in Nat
    BY NamedFits DEF Kept
  <2>5. ASSUME NEW x \in Triples
        PROVE  incarnations[x] <= Cardinality(Named') /\ (index'[x] # None => incarnations[x] # 0)
    <3>1. incarnations[x] \in Nat /\ incarnations[x] <= Cardinality(Named)
      BY DEF Kept, Typed, Limited
    <3>2. index'[x] # None => incarnations[x] # 0
      BY <1>1 DEF Kept, Limited
    <3>3. QED
      BY <3>1, <3>2, <2>3, <2>4
  <2>6. QED
    BY <2>5, <1>1 DEF Limited
<1>7. ASSUME NEW e \in Life!Entities
      PROVE  /\ e.generation = generation => Stands(e)'
             /\ e.generation # generation => view'[e].state \in {"unborn", "ended"}
             /\ e.generation > last => view'[e] = Life!Unborn
  <2>1. e.triple \in Triples /\ e.incarnation \in Int /\ e.generation \in Int
    BY DEF Life!Entities
  <2>2. incarnations[e.triple] \in Nat /\ generation <= last /\ generation \in Int /\ last \in Int
    BY <2>1, ReducerAssumption DEF Kept, Typed
  <2>3. index'[e.triple] = IF index[e.triple] = t THEN None ELSE index[e.triple]
    BY <2>1, <1>1
  <2>4. CASE /\ e.generation = generation /\ index[e.triple] = t
             /\ e.incarnation = incarnations[e.triple]
    <3>1. view'[e].state = "ended" /\ index'[e.triple] = None
      BY <2>3, <2>4, <1>2
    <3>2. Stands(e)'
      BY <3>1, <2>2, <2>4, <1>1 DEF Stands
    <3>3. QED
      BY <3>2, <2>2, <2>4
  <2>5. CASE ~(/\ e.generation = generation /\ index[e.triple] = t
               /\ e.incarnation = incarnations[e.triple])
    <3>1. view'[e] = view[e]
      BY <2>5, <1>2
    <3>2. ASSUME e.generation = generation PROVE Stands(e)'
      <4>1. Stands(e)
        BY <3>2 DEF Kept, Shown
      <4>2. CASE e.incarnation # incarnations[e.triple]
        BY <4>1, <4>2, <3>1, <1>1 DEF Stands, Life!Unborn
      <4>3. CASE e.incarnation = incarnations[e.triple]
        <5>1. index'[e.triple] = index[e.triple] /\ index[e.triple] # t
          BY <4>3, <3>2, <2>3, <2>5
        <5>2. index[e.triple] # None =>
                 objects'[index[e.triple]] = objects[index[e.triple]]
          <6>1. index[e.triple] # None => index[e.triple] \in DOMAIN objects
            BY <2>1 DEF Kept, Typed, Identified
          <6>2. QED
            BY <6>1, <5>1, <1>1
        <5>3. QED
          BY <5>1, <5>2, <4>1, <4>3, <3>1, <2>2, <1>1 DEF Stands, Telling
      <4>4. QED
        BY <4>2, <4>3
    <3>3. QED
      BY <3>1, <3>2 DEF Kept, Shown
  <2>6. QED
    BY <2>4, <2>5
<1>8. Shown'
  <2>1. Life!Entities' = Life!Entities /\ Life!Unborn' = Life!Unborn
    BY DEF Life!Entities, Life!Unborn
  <2>2. QED
    BY <1>1, <1>7, <2>1 DEF Shown
<1>9. QED
  BY <1>2, <1>4, <1>5, <1>6, <1>8 DEF Kept

-----------------------------------------------------------------------------
\* Frames one by one.

\* A discovered object is known by its token alone, and nothing is told of it yet.
LEMMA DiscoverKept ==
    ASSUME Kept, NEW t \in Tokens, Discover(t)
    PROVE  Kept' /\ [Life!Next]_view
<1>1. /\ t \notin DOMAIN objects /\ t \notin removed /\ generation # 0
      /\ UNCHANGED <<generation, last, removed, index, incarnations, view>>
      /\ DOMAIN objects' = DOMAIN objects \cup {t}
      /\ objects'[t] = Discovered
      /\ \A u \in DOMAIN objects : objects'[u] = objects[u]
  BY DEF Discover, Known, Open, Put
<1>2. Discovered \in Object /\ Fits(Discovered) /\ Discovered.identity = None
  <2>1. Discovered \in Object /\ Discovered.identity = None
    BY DEF Discovered, Object, Slot, Absent, Statuses
  <2>2. Discovered.slots["EntityIdentifier"].status = "ABSENT" /\ ~Discovered.eligible
        /\ Discovered.eligible = FALSE /\ Discovered.revision = 0
    BY DEF Discovered, Absent, Names
  <2>3. Eligible(Discovered) = FALSE
    BY <2>2 DEF Eligible, Status
  <2>4. QED
    BY <2>1, <2>2, <2>3 DEF Fits
<1>3. Typed'
  BY <1>1, <1>2 DEF Kept, Typed, Object, Life!Entities
<1>4. Identified'
  <2>1. \A u \in DOMAIN objects' : Fits(objects[u])'
    <3>1. \A u \in DOMAIN objects : Fits(objects[u])
      BY DEF Kept, Identified
    <3>2. \A u \in DOMAIN objects' : Fits(objects'[u])
      BY <3>1, <1>1, <1>2
    <3>3. QED
      BY <3>2 DEF Fits, Eligible, Status
  <2>2. ASSUME NEW u \in DOMAIN objects', objects'[u].identity # None
        PROVE  objects'[u].incarnation = incarnations[objects'[u].identity]
    BY <2>2, <1>1, <1>2 DEF Kept, Identified
  <2>3. ASSUME NEW y \in Triples, NEW u \in Tokens
        PROVE  index[y] = u <=> u \in DOMAIN objects' /\ objects'[u].identity = y
    <3>1. index[y] = u <=> u \in DOMAIN objects /\ objects[u].identity = y
      BY DEF Kept, Identified
    <3>2. y # None
      BY ReducerAssumption
    <3>3. QED
      BY <3>1, <3>2, <1>1, <1>2
  <2>4. QED
    BY <2>1, <2>2, <2>3, <1>1 DEF Identified
<1>5. Named' = Named
  BY <1>1, <1>2 DEF Named
<1>6. Limited'
  BY <1>1, <1>5 DEF Kept, Limited
<1>7. Shown'
  <2>1. Life!Entities' = Life!Entities /\ Life!Unborn' = Life!Unborn
    BY DEF Life!Entities, Life!Unborn
  <2>2. ASSUME NEW e \in Life!Entities, e.generation = generation PROVE Stands(e)'
    <3>1. Stands(e) /\ e.triple \in Triples
      BY <2>2 DEF Kept, Shown, Life!Entities
    <3>2. index[e.triple] # None => objects'[index[e.triple]] = objects[index[e.triple]]
      BY <3>1, <1>1 DEF Kept, Typed, Identified
    <3>3. QED
      BY <3>1, <3>2, <1>1 DEF Stands, Telling, Life!Unborn
  <2>3. QED
    BY <1>1, <2>1, <2>2 DEF Kept, Shown
<1>8. QED
  BY <1>1, <1>3, <1>4, <1>6, <1>7 DEF Kept

\* A frame that leaves the objects and the view alone.
LEMMA QuietKept ==
    ASSUME Kept, UNCHANGED <<generation, last, objects, removed, index, incarnations, view>>
    PROVE  Kept' /\ [Life!Next]_view
<1>1. Typed' /\ Limited'
  BY DEF Kept, Typed, Limited, Named, Object, Life!Entities
<1>2. Identified'
  <2>1. \A u \in DOMAIN objects : Fits(objects[u])'
    <3>1. \A u \in DOMAIN objects : Fits(objects'[u])
      BY DEF Kept, Identified
    <3>2. QED
      BY <3>1 DEF Fits, Eligible, Status
  <2> HIDE DEF Fits
  <2>2. QED
    BY <2>1 DEF Kept, Identified
<1>3. Shown'
  BY DEF Kept, Shown, Stands, Telling, Life!Entities, Life!Unborn
<1>4. QED
  BY <1>1, <1>2, <1>3 DEF Kept

\* One object of a token turns.
LEMMA BecomesKept ==
    ASSUME Kept, NEW t \in DOMAIN objects, NEW n, Turns(objects[t], n), Becomes(t, n),
           UNCHANGED <<generation, last, removed, index, incarnations>>
    PROVE  Kept' /\ [Life!Next]_view
<1>1. /\ DOMAIN objects' = DOMAIN objects
      /\ objects'[t] = n
      /\ \A u \in DOMAIN objects \ {t} : objects'[u] = objects[u]
      /\ view' = Told(objects[t], n)
  BY DEF Becomes, Put
<1>2. ASSUME NEW u \in DOMAIN objects \ {t}
      PROVE  Turns(objects[u], objects'[u])
  <2>1. /\ objects[u] \in Object /\ Fits(objects[u]) /\ objects[u].eligible \in BOOLEAN
    BY DEF Kept, Typed, Identified, Object
  <2>2. QED
    BY <2>1, <1>1 DEF Turns
<1>3. \A u \in DOMAIN objects : Turns(objects[u], objects'[u])
  BY <1>1, <1>2
<1>4. view' = Told(objects[t], objects'[t])
  BY <1>1
<1>5. QED
  BY <1>1, <1>3, <1>4, FrameTurns

\* Two objects that supply one identifier are quarantined both, and the holder's is told of.
LEMMA CollisionKept ==
    ASSUME Kept, NEW t \in Tokens, NEW r \in Reflections, ApplyCollision(t, r)
    PROVE  Kept' /\ [Life!Next]_view
<1> DEFINE x == Triple(r)
           h == index[x]
           n == Evaluated(Quarantined(Applied(t, r)), TRUE)
           held == Quarantined(objects[h])
<1>1. /\ t \in DOMAIN objects /\ Decodes(r) /\ Claims(t, r) /\ h # None
      /\ UNCHANGED <<generation, last, removed, index, incarnations>>
      /\ objects' = [Put(t, n) EXCEPT ![h] = held]
      /\ view' = Told(objects[h], held)
  BY DEF ApplyCollision, Apply, Reflected, Known, Open
<1>2. x \in Triples /\ x # None
  BY <1>1, ReducerAssumption, ClaimTurns DEF Kept, Typed, Object
<1>3. h \in DOMAIN objects /\ h # t
  <2>1. h \in Tokens
    BY <1>1, <1>2 DEF Kept, Typed
  <2>2. h \in DOMAIN objects /\ objects[h].identity = x
    BY <2>1, <1>2 DEF Kept, Identified
  <2>3. QED
    BY <2>2, <1>1, <1>2 DEF Claims
<1>4. Turns(objects[t], n) /\ ~n.eligible /\ n.revision = objects[t].revision
  BY <1>1, ChangeTurns DEF Kept
<1>5. Turns(objects[h], held)
  BY <1>3, QuarantineTurns DEF Kept, Typed, Identified
<1>6. objects[t].eligible = FALSE /\ n.eligible = FALSE
  <2>1. objects[t] \in Object /\ Fits(objects[t]) /\ objects[t].identity = None
    BY <1>1 DEF Kept, Typed, Identified, Claims
  <2>2. objects[t].eligible \in BOOLEAN /\ ~objects[t].eligible
    BY <2>1 DEF Fits, Object
  <2>3. n.eligible \in BOOLEAN
    BY <1>4 DEF Turns, Object
  <2>4. QED
    BY <2>2, <2>3, <1>4
<1> HIDE DEF n, held, h, x
<1>7. /\ DOMAIN objects' = DOMAIN objects
      /\ objects'[h] = held /\ objects'[t] = n
      /\ \A u \in DOMAIN objects \ {t, h} : objects'[u] = objects[u]
  BY <1>1, <1>3 DEF Put
<1>8. ASSUME NEW u \in DOMAIN objects \ {t, h}
      PROVE  Turns(objects[u], objects'[u])
  <2>1. /\ objects[u] \in Object /\ Fits(objects[u]) /\ objects[u].eligible \in BOOLEAN
    BY DEF Kept, Typed, Identified, Object
  <2>2. QED
    BY <2>1, <1>7 DEF Turns
<1>9. \A u \in DOMAIN objects : Turns(objects[u], objects'[u])
  BY <1>4, <1>5, <1>7, <1>8
<1>10. \A u \in DOMAIN objects \ {h} : /\ objects'[u].eligible = objects[u].eligible
                                      /\ objects'[u].revision = objects[u].revision
  BY <1>4, <1>6, <1>7
<1>11. view' = Told(objects[h], objects'[h])
  BY <1>1, <1>7
<1>12. QED
  BY <1>1, <1>3, <1>7, <1>9, <1>10, <1>11, FrameTurns

-----------------------------------------------------------------------------
\* Every frame.

LEMMA ReflectKept ==
    ASSUME Kept, NEW t \in Tokens, NEW r \in Reflections, Reflect(t, r)
    PROVE  Kept' /\ [Life!Next]_view
<1>1. CASE ReflectTooLarge(t, r)
  BY <1>1, QuietKept DEF ReflectTooLarge, Reflected, Open, Unchanged
<1>2. CASE Reject(t, r)
  <2>1. t \in DOMAIN objects
    BY <1>2 DEF Reject, Reflected, Known
  <2>2. Turns(objects[t], Evaluated(Rejected(t, r), FALSE))
    BY <2>1, RejectTurns DEF Kept
  <2>3. /\ Becomes(t, Evaluated(Rejected(t, r), FALSE))
        /\ UNCHANGED <<generation, last, removed, index, incarnations>>
    BY <1>2 DEF Reject, Reflected, Open
  <2>4. QED
    BY <2>1, <2>2, <2>3, BecomesKept
<1>3. CASE ApplyValues(t, r)
  <2>1. t \in DOMAIN objects /\ Decodes(r) /\ ~Claims(t, r) /\ ~Changes(t, r)
    BY <1>3 DEF ApplyValues, Apply, Reflected, Known
  <2>2. Turns(objects[t], Evaluated(Applied(t, r), TRUE))
    BY <2>1, ValuesTurn DEF Kept
  <2>3. /\ Becomes(t, Evaluated(Applied(t, r), TRUE))
        /\ UNCHANGED <<generation, last, removed, index, incarnations>>
    BY <1>3 DEF ApplyValues, Apply, Reflected, Open
  <2>4. QED
    BY <2>1, <2>2, <2>3, BecomesKept
<1>4. CASE ApplyChange(t, r)
  <2>1. t \in DOMAIN objects /\ Decodes(r)
    BY <1>4 DEF ApplyChange, Apply, Reflected, Known
  <2>2. Turns(objects[t], Evaluated(Quarantined(Applied(t, r)), TRUE))
    BY <2>1, ChangeTurns DEF Kept
  <2>3. /\ Becomes(t, Evaluated(Quarantined(Applied(t, r)), TRUE))
        /\ UNCHANGED <<generation, last, removed, index, incarnations>>
    BY <1>4 DEF ApplyChange, Apply, Reflected, Open
  <2>4. QED
    BY <2>1, <2>2, <2>3, BecomesKept
<1>5. CASE ApplyClaim(t, r)
  BY <1>5, ClaimKept DEF ApplyClaim, Apply, Reflected
<1>6. CASE ApplyCollision(t, r)
  BY <1>6, CollisionKept
<1>7. QED
  BY <1>1, <1>2, <1>3, <1>4, <1>5, <1>6 DEF Reflect

LEMMA RetractableKept ==
    ASSUME Kept, NEW t \in Tokens, Retractable(t)
    PROVE  Kept' /\ [Life!Next]_view
<1>1. /\ t \in DOMAIN objects /\ Becomes(t, Quarantined(objects[t]))
      /\ UNCHANGED <<generation, last, removed, index, incarnations>>
  BY DEF Retractable, Known, Open
<1>2. Turns(objects[t], Quarantined(objects[t]))
  BY <1>1, QuarantineTurns DEF Kept, Typed, Identified
<1>3. QED
  BY <1>1, <1>2, BecomesKept

LEMMA NextKept ==
    ASSUME Kept, [Next]_vars
    PROVE  Kept' /\ [Life!Next]_view
<1>1. CASE GenerationStart
  BY <1>1, GenerationStartKept
<1>2. CASE GenerationEnd
  BY <1>2, GenerationEndKept
<1>3. ASSUME NEW t \in Tokens, Discover(t)
      PROVE  Kept' /\ [Life!Next]_view
  BY <1>3, DiscoverKept
<1>4. ASSUME NEW t \in Tokens, DiscoverAgain(t) \/ DiscoverBeyondLimit(t) \/ Unknown(t)
      PROVE  Kept' /\ [Life!Next]_view
  BY <1>4, QuietKept DEF DiscoverAgain, DiscoverBeyondLimit, Unknown, Open, Unchanged
<1>5. ASSUME NEW t \in Tokens, Remove(t)
      PROVE  Kept' /\ [Life!Next]_view
  BY <1>5, RemoveKept
<1>6. ASSUME NEW t \in Tokens, Retractable(t)
      PROVE  Kept' /\ [Life!Next]_view
  BY <1>6, RetractableKept
<1>7. ASSUME NEW t \in Tokens, NEW r \in Reflections, Reflect(t, r)
      PROVE  Kept' /\ [Life!Next]_view
  BY <1>7, ReflectKept
<1>8. ASSUME NEW r \in Reflections, ReflectTooMany(r)
      PROVE  Kept' /\ [Life!Next]_view
  BY <1>8, QuietKept DEF ReflectTooMany, Open, Unchanged
<1>9. CASE UNCHANGED vars
  BY <1>9, QuietKept DEF vars
<1>10. QED
  BY <1>1, <1>2, <1>3, <1>4, <1>5, <1>6, <1>7, <1>8, <1>9 DEF Next

LEMMA InitKept ==
    ASSUME Init
    PROVE  Kept
<1>1. /\ generation = 0 /\ last = 0 /\ DOMAIN objects = {} /\ removed = {}
      /\ index = [x \in Triples |-> None] /\ incarnations = [x \in Triples |-> 0]
      /\ view = [e \in Life!Entities |-> Life!Unborn]
  BY DEF Init, NoObjects, Life!Init
<1>2. Life!Unborn \in Views /\ Life!Unborn.state = "unborn"
  BY DEF Life!Unborn, Views
<1>3. Typed
  BY <1>1, <1>2, ReducerAssumption DEF Typed
<1>4. Identified
  BY <1>1, ReducerAssumption DEF Identified
<1>5. Limited
  <2>1. Cardinality(Named) = 0
    BY <1>1, FS_EmptySet DEF Named
  <2>2. QED
    BY <2>1, <1>1 DEF Limited
<1>6. \A e \in Life!Entities : e.generation # 0
  BY ReducerAssumption DEF Life!Entities
<1>7. Shown
  BY <1>1, <1>2, <1>6 DEF Shown
<1>8. QED
  BY <1>3, <1>4, <1>5, <1>7 DEF Kept

LEMMA KeptAlways == Spec => []Kept
<1>1. Init => Kept
  BY InitKept
<1>2. Kept /\ [Next]_vars => Kept'
  BY NextKept
<1>3. QED
  BY <1>1, <1>2, PTL DEF Spec

-----------------------------------------------------------------------------
\* What the consumer takes for live is what is eligible in the state, entity by entity and at the
\* same revision (ViewIsEligible): after any frames, of any objects, identifiers and generations
\* (_evaluate, _identify, _remove).
THEOREM LiveIsEligible == Spec => []ViewIsEligible
<1>1. ASSUME Kept PROVE ViewIsEligible
  <2>1. ASSUME NEW t \in DOMAIN objects
        PROVE  /\ objects[t].eligible = Eligible(objects[t])
               /\ objects[t].eligible => objects[t].identity # None
    <3>1. objects[t] \in Object /\ Fits(objects[t])
      BY <1>1 DEF Kept, Typed, Identified
    <3>2. objects[t].eligible => objects[t].identity # None
      BY <3>1, EligibleIsNamed
    <3>3. QED
      BY <3>1, <3>2 DEF Fits
  <2>2. ASSUME NEW e \in Life!Entities, NEW t \in DOMAIN objects,
               objects[t].eligible, EntityOf(objects[t]) = e
        PROVE  view[e].state = "live"
    <3>1. view[e] = Telling(objects[t])
      BY <2>1, <2>2, <1>1, ObjectShown
    <3>2. QED
      BY <3>1, <2>2 DEF Telling
  <2>3. ASSUME NEW e \in Life!Entities, view[e].state = "live"
        PROVE  \E t \in DOMAIN objects : /\ objects[t].eligible /\ EntityOf(objects[t]) = e
                                         /\ objects[t].revision = view[e].revision
    <3> DEFINE x == e.triple
               t == index[x]
    <3>1. x \in Triples /\ x # None /\ e.incarnation \in Nat /\ incarnations[x] \in Nat
      BY <1>1, ReducerAssumption DEF Life!Entities, Kept, Typed
    <3>2. e.generation = generation /\ Stands(e)
      BY <1>1, <2>3 DEF Kept, Shown
    <3>3. e.incarnation = incarnations[x] /\ t # None
      BY <2>3, <3>1, <3>2 DEF Stands, Life!Unborn
    <3>4. view[e] = Telling(objects[t])
      BY <3>2, <3>3 DEF Stands
    <3>5. t \in DOMAIN objects /\ objects[t].identity = x
      BY <1>1, <3>1, <3>3 DEF Kept, Typed, Identified
    <3>6. objects[t].incarnation = incarnations[x]
      BY <1>1, <3>1, <3>5 DEF Kept, Identified
    <3>7. objects[t].eligible /\ objects[t].revision = view[e].revision
      BY <2>3, <3>4 DEF Telling
    <3>8. EntityOf(objects[t]) = e
      <4>1. e = [generation |-> e.generation, triple |-> e.triple, incarnation |-> e.incarnation]
        BY DEF Life!Entities
      <4>2. QED
        BY <4>1, <3>2, <3>3, <3>5, <3>6 DEF EntityOf
    <3>9. QED
      BY <3>5, <3>7, <3>8
  <2>4. QED
    BY <2>1, <2>2, <2>3 DEF ViewIsEligible
<1>2. QED
  BY <1>1, KeptAlways, PTL

\* The records of any capture implement the abstract life of the entities (EntityLife): each frame
\* is one of its steps or none.
THEOREM RecordsTellLives == Spec => LifeSpec
<1>1. Init => Life!Init
  BY DEF Init
<1>2. Kept /\ [Next]_vars => [Life!Next]_view
  BY NextKept
<1>3. QED
  BY <1>1, <1>2, KeptAlways, PTL DEF Spec, LifeSpec, Life!Spec

-----------------------------------------------------------------------------
\* The books: cached bytes and tokens.

Cached == UNION {BytesOf(t, objects[t].slots) : t \in DOMAIN objects}

Booked ==
    /\ cacheBytes = Cardinality(Cached) /\ cacheBytes <= MaxBytes
    /\ terminal \in BOOLEAN
    /\ seen \in SUBSET Tokens /\ DOMAIN objects \cup removed \in SUBSET seen
    /\ tokensBefore \in Nat /\ tokensBefore + Cardinality(seen) <= MaxTokens

\* What has a number of bytes by attribute.
Weighs(v) == DOMAIN v \in SUBSET Names /\ \A n \in DOMAIN v : v[n].bytes \in Nat

Places == (Tokens \X Names) \X Nat

LEMMA BytesAre ==
    ASSUME NEW t \in Tokens, NEW v, Weighs(v)
    PROVE  BytesOf(t, v) = {z \in Places : /\ z[1][1] = t /\ z[1][2] \in DOMAIN v
                                           /\ z[2] \in 1 .. v[z[1][2]].bytes}
<1> DEFINE B == {z \in Places : /\ z[1][1] = t /\ z[1][2] \in DOMAIN v
                                /\ z[2] \in 1 .. v[z[1][2]].bytes}
<1>1. ASSUME NEW z \in BytesOf(t, v) PROVE z \in B
  <2>1. PICK n \in DOMAIN v : z \in {<<t, n>>} \X (1 .. v[n].bytes)
    BY DEF BytesOf
  <2>2. n \in Names /\ v[n].bytes \in Nat
    BY DEF Weighs
  <2>3. z[1] = <<t, n>> /\ z[2] \in 1 .. v[n].bytes /\ z = <<z[1], z[2]>>
    BY <2>1
  <2>4. z[1][1] = t /\ z[1][2] = n /\ z[1] \in Tokens \X Names /\ z[2] \in Nat
    BY <2>2, <2>3
  <2>5. z \in Places
    BY <2>3, <2>4 DEF Places
  <2>6. QED
    BY <2>3, <2>4, <2>5
<1>2. ASSUME NEW z \in B PROVE z \in BytesOf(t, v)
  <2>1. /\ z = <<z[1], z[2]>> /\ z[1] = <<z[1][1], z[1][2]>>
        /\ z[1][1] = t /\ z[1][2] \in DOMAIN v /\ z[2] \in 1 .. v[z[1][2]].bytes
    BY DEF Places
  <2>2. z \in {<<t, z[1][2]>>} \X (1 .. v[z[1][2]].bytes)
    BY <2>1
  <2>3. QED
    BY <2>1, <2>2 DEF BytesOf
<1>3. QED
  BY <1>1, <1>2

\* The bytes of an object are finitely many.
LEMMA BytesFinite ==
    ASSUME NEW t \in Tokens, NEW v, Weighs(v)
    PROVE  IsFiniteSet(BytesOf(t, v)) /\ Cardinality(BytesOf(t, v)) \in Nat
<1> DEFINE f == [n \in DOMAIN v |-> {<<t, n>>} \X (1 .. v[n].bytes)]
           T == {f[n] : n \in DOMAIN v}
<1>1. IsFiniteSet(DOMAIN v)
  <2>1. IsFiniteSet(Names)
    <3> DEFINE first == {"EntityIdentifier"}
               second == first \cup {"EntityType"}
               third == second \cup {"ForceIdentifier"}
               fourth == third \cup {"Spatial"}
    <3>1. IsFiniteSet(first)
      BY FS_Singleton
    <3> HIDE DEF first
    <3>2. IsFiniteSet(second)
      BY <3>1, FS_AddElement
    <3> HIDE DEF second
    <3>3. IsFiniteSet(third)
      BY <3>2, FS_AddElement
    <3> HIDE DEF third
    <3>4. IsFiniteSet(fourth)
      BY <3>3, FS_AddElement
    <3>5. Names = fourth
      BY DEF Names, first, second, third
    <3>6. QED
      BY <3>4, <3>5
  <2>2. QED
    BY <2>1, FS_Subset DEF Weighs
<1>2. f \in Surjection(DOMAIN v, T)
  BY DEF Surjection
<1>3. IsFiniteSet(T)
  BY <1>1, <1>2, FS_Surjection
<1>4. ASSUME NEW n \in DOMAIN v PROVE IsFiniteSet({<<t, n>>} \X (1 .. v[n].bytes))
  <2>1. v[n].bytes \in Int
    BY DEF Weighs
  <2>2. IsFiniteSet(1 .. v[n].bytes)
    BY <2>1, FS_Interval
  <2>3. IsFiniteSet({<<t, n>>})
    BY FS_Singleton
  <2>4. QED
    BY <2>2, <2>3, FS_Product
<1>5. \A S \in T : IsFiniteSet(S)
  BY <1>4
<1>6. BytesOf(t, v) = UNION T
  BY DEF BytesOf
<1>7. QED
  BY <1>3, <1>5, <1>6, FS_UNION, FS_CardinalityType

\* The slots of an object weigh.
LEMMA SlotsWeigh ==
    ASSUME Typed, NEW t \in DOMAIN objects
    PROVE  /\ t \in Tokens /\ DOMAIN objects[t].slots = Names /\ Weighs(objects[t].slots)
           /\ \A D \in SUBSET Names : Weighs(Restrict(objects[t].slots, D))
<1>1. objects[t].slots \in [Names -> Slot] /\ t \in Tokens
  BY DEF Typed, Object
<1>2. QED
  BY <1>1 DEF Weighs, Slot, Restrict

PlacesOf(u) == {z \in Places : /\ z[1][1] = u /\ z[1][2] \in Names
                               /\ z[2] \in 1 .. objects[u].slots[z[1][2]].bytes}

LEMMA ObjectBytes ==
    ASSUME Typed, NEW u \in DOMAIN objects
    PROVE  /\ BytesOf(u, objects[u].slots) = PlacesOf(u)
           /\ IsFiniteSet(BytesOf(u, objects[u].slots))
           /\ Cardinality(BytesOf(u, objects[u].slots)) \in Nat
<1> DEFINE v == objects[u].slots
<1>1. u \in Tokens /\ DOMAIN v = Names /\ Weighs(v)
  BY SlotsWeigh
<1> HIDE DEF v
<1>2. BytesOf(u, v) = {z \in Places : /\ z[1][1] = u /\ z[1][2] \in Names
                                      /\ z[2] \in 1 .. v[z[1][2]].bytes}
  BY <1>1, BytesAre
<1>3. IsFiniteSet(BytesOf(u, v)) /\ Cardinality(BytesOf(u, v)) \in Nat
  BY <1>1, BytesFinite
<1>4. QED
  BY <1>2, <1>3 DEF v, PlacesOf

LEMMA CachedAre ==
    ASSUME Typed
    PROVE  /\ Cached = {z \in Places : /\ z[1][1] \in DOMAIN objects
                                       /\ z[2] \in 1 .. objects[z[1][1]].slots[z[1][2]].bytes}
           /\ IsFiniteSet(Cached) /\ Cardinality(Cached) \in Nat
<1> DEFINE f == [u \in DOMAIN objects |-> BytesOf(u, objects[u].slots)]
           T == {f[u] : u \in DOMAIN objects}
<1>1. \A u \in DOMAIN objects : BytesOf(u, objects[u].slots) = PlacesOf(u)
  BY ObjectBytes
<1>2. \A z \in Places : z[1][2] \in Names
  BY DEF Places
<1>3. Cached = {z \in Places : /\ z[1][1] \in DOMAIN objects
                               /\ z[2] \in 1 .. objects[z[1][1]].slots[z[1][2]].bytes}
  BY <1>1, <1>2 DEF Cached, PlacesOf
<1>4. IsFiniteSet(T)
  <2>1. f \in Surjection(DOMAIN objects, T)
    BY DEF Surjection
  <2>2. IsFiniteSet(DOMAIN objects)
    BY ReducerAssumption, FS_Subset DEF Typed
  <2>3. QED
    BY <2>1, <2>2, FS_Surjection
<1>5. \A S \in T : IsFiniteSet(S)
  BY ObjectBytes
<1>6. Cached = UNION T
  BY DEF Cached
<1>7. IsFiniteSet(Cached)
  <2> HIDE DEF T
  <2>1. QED
    BY <1>4, <1>5, <1>6, FS_UNION
<1>8. QED
  BY <1>3, <1>7, FS_CardinalityType

\* One object's values are replaced: the new bytes come and the old ones go.
LEMMA SlotsChange ==
    ASSUME Typed, Typed', DOMAIN objects' = DOMAIN objects,
           NEW t \in DOMAIN objects, NEW v, Weighs(v),
           \A u \in DOMAIN objects \ {t} : objects'[u].slots = objects[u].slots,
           \A n \in Names : objects'[t].slots[n].bytes =
                               IF n \in DOMAIN v THEN v[n].bytes ELSE objects[t].slots[n].bytes
    PROVE  Cardinality(Cached') = Cardinality(Cached) + Cardinality(BytesOf(t, v))
                                  - Cardinality(BytesOf(t, Restrict(objects[t].slots, DOMAIN v)))
<1> DEFINE New  == BytesOf(t, v)
           rest == Restrict(objects[t].slots, DOMAIN v)
           Old  == BytesOf(t, rest)
           Left == Cached \ Old
<1>1. /\ Cached = {z \in Places : /\ z[1][1] \in DOMAIN objects
                                  /\ z[2] \in 1 .. objects[z[1][1]].slots[z[1][2]].bytes}
      /\ IsFiniteSet(Cached) /\ Cardinality(Cached) \in Nat
  BY CachedAre
<1>2. Cached' = {z \in Places : /\ z[1][1] \in DOMAIN objects
                                /\ z[2] \in 1 .. objects'[z[1][1]].slots[z[1][2]].bytes}
  <2>1. \A u \in DOMAIN objects :
           /\ u \in Tokens /\ objects'[u].slots \in [Names -> Slot]
           /\ Weighs(objects'[u].slots) /\ DOMAIN objects'[u].slots = Names
    BY DEF Typed, Object, Slot, Weighs
  <2>2. \A u \in DOMAIN objects :
           BytesOf(u, objects'[u].slots) =
              {z \in Places : /\ z[1][1] = u /\ z[1][2] \in Names
                              /\ z[2] \in 1 .. objects'[u].slots[z[1][2]].bytes}
    BY <2>1, BytesAre
  <2>3. \A z \in Places : z[1][2] \in Names
    BY DEF Places
  <2>4. Cached' = UNION {BytesOf(u, objects'[u].slots) : u \in DOMAIN objects}
    BY DEF Cached, BytesOf
  <2>5. QED
    BY <2>2, <2>3, <2>4
<1>3. t \in Tokens /\ DOMAIN v \in SUBSET Names /\ Weighs(rest) /\ DOMAIN rest = DOMAIN v
      /\ \A n \in DOMAIN v : rest[n] = objects[t].slots[n]
  BY SlotsWeigh DEF Weighs, Restrict
<1>4. /\ New = {z \in Places : /\ z[1][1] = t /\ z[1][2] \in DOMAIN v
                               /\ z[2] \in 1 .. v[z[1][2]].bytes}
      /\ IsFiniteSet(New) /\ Cardinality(New) \in Nat
  BY <1>3, BytesAre, BytesFinite
<1>5. /\ Old = {z \in Places : /\ z[1][1] = t /\ z[1][2] \in DOMAIN v
                               /\ z[2] \in 1 .. objects[t].slots[z[1][2]].bytes}
      /\ IsFiniteSet(Old) /\ Cardinality(Old) \in Nat
  <2>1. Old = {z \in Places : /\ z[1][1] = t /\ z[1][2] \in DOMAIN v
                              /\ z[2] \in 1 .. rest[z[1][2]].bytes}
    BY <1>3, BytesAre
  <2>2. IsFiniteSet(Old) /\ Cardinality(Old) \in Nat
    BY <1>3, BytesFinite
  <2> HIDE DEF rest, Old
  <2>3. QED
    BY <1>3, <2>1, <2>2
<1> HIDE DEF New, Old, rest
<1>6. Old \in SUBSET Cached
  BY <1>1, <1>5
<1>7. \A z \in Places : z[1][2] \in Names
  BY DEF Places
<1>8. Cached' = Left \cup New
  <2>1. ASSUME NEW z \in Places
        PROVE  z \in Cached' <=> (z \in Cached /\ z \notin Old) \/ z \in New
    <3>1. CASE z[1][1] # t
      BY <3>1, <1>1, <1>2, <1>4, <1>5
    <3>2. CASE z[1][1] = t /\ z[1][2] \in DOMAIN v
      BY <3>2, <1>1, <1>2, <1>4, <1>5, <1>7
    <3>3. CASE z[1][1] = t /\ z[1][2] \notin DOMAIN v
      BY <3>3, <1>1, <1>2, <1>4, <1>5, <1>7
    <3>4. QED
      BY <3>1, <3>2, <3>3
  <2>2. Cached' \in SUBSET Places /\ Cached \in SUBSET Places /\ New \in SUBSET Places
    BY <1>1, <1>2, <1>4
  <2>3. QED
    BY <2>1, <2>2
<1>9. Left \cap New = {}
  <2>1. \A z \in Places : z \in Cached /\ z \in New => z \in Old
    BY <1>1, <1>4, <1>5
  <2>2. QED
    BY <2>1, <1>4
<1>10. /\ IsFiniteSet(Left) /\ Cardinality(Left) \in Nat
       /\ Cardinality(Left) = Cardinality(Cached) - Cardinality(Old)
  <2>1. Cached \cap Old = Old
    BY <1>6
  <2>2. IsFiniteSet(Left)
    BY <1>1, FS_Difference
  <2>3. Cardinality(Left) = Cardinality(Cached) - Cardinality(Cached \cap Old)
    BY <1>1, FS_Difference
  <2>4. Cardinality(Left) \in Nat
    BY <2>2, FS_CardinalityType
  <2>5. QED
    BY <2>1, <2>2, <2>3, <2>4
<1> HIDE DEF Left
<1>11. Cardinality(Left \cup New) = Cardinality(Left) + Cardinality(New)
  <2>1. Cardinality(Left \cup New)
           = Cardinality(Left) + Cardinality(New) - Cardinality(Left \cap New)
    BY <1>4, <1>10, FS_Union
  <2>2. Cardinality(Left \cap New) = 0
    BY <1>9, FS_EmptySet
  <2>3. QED
    BY <2>1, <2>2, <1>4, <1>10
<1>12. Cardinality(Cached') = Cardinality(Cached) + Cardinality(New) - Cardinality(Old)
  <2>1. Cardinality(Cached') = Cardinality(Left \cup New)
    BY <1>8
  <2>2. Cardinality(Cached') = Cardinality(Left) + Cardinality(New)
    BY <2>1, <1>11
  <2>3. Cardinality(Cached) \in Nat /\ Cardinality(New) \in Nat /\ Cardinality(Old) \in Nat
    BY <1>1, <1>4, <1>5
  <2>4. Cardinality(Left) = Cardinality(Cached) - Cardinality(Old)
    BY <1>10
  <2> DEFINE after == Cardinality(Cached')
             before == Cardinality(Cached)
             new == Cardinality(New)
             old == Cardinality(Old)
             left == Cardinality(Left)
  <2> HIDE DEF after, before, new, old, left
  <2>5. after = left + new /\ left = before - old
        /\ before \in Nat /\ new \in Nat /\ old \in Nat
    BY <2>2, <2>3, <2>4 DEF after, before, new, old, left
  <2>6. after = before + new - old
    BY <2>5
  <2>7. QED
    BY <2>6 DEF after, before, new, old
<1>13. QED
  BY <1>12 DEF New, Old, rest

\* A frame that leaves the values of every object alone.
LEMMA SlotsSame ==
    ASSUME DOMAIN objects' = DOMAIN objects,
           \A u \in DOMAIN objects : objects'[u].slots = objects[u].slots
    PROVE  Cached' = Cached
BY DEF Cached, BytesOf

\* A reflection that the limit admits replaces the values it supplies.
LEMMA SupplyBooked ==
    ASSUME Typed, Typed', Booked, NEW t \in DOMAIN objects, NEW r \in Reflections,
           BytesAfter(t, r) <= MaxBytes, cacheBytes' = BytesAfter(t, r),
           DOMAIN objects' = DOMAIN objects,
           \A u \in DOMAIN objects \ {t} : objects'[u].slots = objects[u].slots,
           \A n \in Names : objects'[t].slots[n].bytes =
                               IF n \in DOMAIN r THEN r[n].bytes ELSE objects[t].slots[n].bytes,
           UNCHANGED <<removed, seen, tokensBefore, terminal>>
    PROVE  Booked'
<1> DEFINE v == Restrict(r, Supplied(r))
           after == Cardinality(Cached')
<1>1. Weighs(v) /\ DOMAIN v = Supplied(r) /\ \A n \in DOMAIN v : v[n] = r[n]
  <2>1. \A n \in DOMAIN r : r[n].bytes \in Nat
    BY ReducerAssumption
  <2>2. QED
    BY <2>1 DEF Weighs, Supplied, Restrict
<1> HIDE DEF v
<1>2. \A n \in Names : objects'[t].slots[n].bytes =
                          IF n \in DOMAIN v THEN v[n].bytes ELSE objects[t].slots[n].bytes
  BY <1>1 DEF Supplied
<1>3. Cardinality(Cached') = Cardinality(Cached) + Cardinality(BytesOf(t, v))
                             - Cardinality(BytesOf(t, Restrict(objects[t].slots, DOMAIN v)))
  BY <1>1, <1>2, SlotsChange
<1>4. Cardinality(Cached') = BytesAfter(t, r)
  BY <1>1, <1>3 DEF BytesAfter, Booked, v
<1>5. QED
  BY <1>4 DEF Booked

\* The values that a reflection supplies, whether it is applied or rejected.
LEMMA SuppliedBytes ==
    ASSUME Typed, NEW t \in DOMAIN objects, NEW r \in Reflections
    PROVE  \A n \in Names :
              LET bytes == IF n \in DOMAIN r THEN r[n].bytes ELSE objects[t].slots[n].bytes
              IN  Rejected(t, r).slots[n].bytes = bytes /\ Applied(t, r).slots[n].bytes = bytes
<1>1. objects[t] \in Object
  BY DEF Typed
<1>2. QED
  BY <1>1 DEF Rejected, Applied, Object

LEMMA SlotsStay ==
    ASSUME NEW o, "slots" \in DOMAIN o, NEW supplied \in BOOLEAN
    PROVE  /\ Evaluated(o, supplied).slots = o.slots /\ Quarantined(o).slots = o.slots
           /\ "slots" \in DOMAIN Quarantined(o)
BY DEF Evaluated, Quarantined

LEMMA HaveSlots ==
    ASSUME Typed, NEW t \in DOMAIN objects, NEW r
    PROVE  /\ "slots" \in DOMAIN objects[t]
           /\ "slots" \in DOMAIN Rejected(t, r) /\ "slots" \in DOMAIN Applied(t, r)
BY DEF Typed, Object, Rejected, Applied

LEMMA ReflectBooked ==
    ASSUME Kept, Kept', Booked, NEW t \in Tokens, NEW r \in Reflections, Reflect(t, r)
    PROVE  Booked'
<1>1. Typed /\ Typed' /\ Identified
  BY DEF Kept
<1>2. CASE ReflectTooLarge(t, r)
  <2>1. Cached' = Cached
    BY <1>2 DEF ReflectTooLarge, Unchanged, Cached, BytesOf
  <2>2. QED
    BY <1>2, <2>1 DEF ReflectTooLarge, Unchanged, Stops, Reflected, Open, Booked
<1>3. ASSUME t \in DOMAIN objects, NEW n, Becomes(t, n),
             \A m \in Names : n.slots[m].bytes =
                                 IF m \in DOMAIN r THEN r[m].bytes ELSE objects[t].slots[m].bytes,
             BytesAfter(t, r) <= MaxBytes, cacheBytes' = BytesAfter(t, r),
             UNCHANGED <<removed, seen, tokensBefore, terminal>>
      PROVE  Booked'
  <2>1. /\ DOMAIN objects' = DOMAIN objects /\ objects'[t] = n
        /\ \A u \in DOMAIN objects \ {t} : objects'[u] = objects[u]
    BY <1>3 DEF Becomes, Put
  <2>2. QED
    BY <1>1, <1>3, <2>1, SupplyBooked
<1>4. CASE Reject(t, r)
  <2> DEFINE n == Evaluated(Rejected(t, r), FALSE)
  <2>1. /\ t \in DOMAIN objects /\ Becomes(t, n)
        /\ BytesAfter(t, r) <= MaxBytes /\ cacheBytes' = BytesAfter(t, r)
        /\ UNCHANGED <<removed, seen, tokensBefore, terminal>>
    BY <1>4 DEF Reject, Reflected, Known, Open
  <2>2. n.slots = Rejected(t, r).slots
    BY <1>1, <2>1, HaveSlots, SlotsStay
  <2> HIDE DEF n
  <2>3. QED
    BY <1>1, <1>3, <2>1, <2>2, SuppliedBytes
<1>5. CASE ApplyValues(t, r)
  <2> DEFINE n == Evaluated(Applied(t, r), TRUE)
  <2>1. /\ t \in DOMAIN objects /\ Becomes(t, n)
        /\ BytesAfter(t, r) <= MaxBytes /\ cacheBytes' = BytesAfter(t, r)
        /\ UNCHANGED <<removed, seen, tokensBefore, terminal>>
    BY <1>5 DEF ApplyValues, Apply, Reflected, Known, Open
  <2>2. n.slots = Applied(t, r).slots
    BY <1>1, <2>1, HaveSlots, SlotsStay
  <2> HIDE DEF n
  <2>3. QED
    BY <1>1, <1>3, <2>1, <2>2, SuppliedBytes
<1>6. CASE ApplyChange(t, r)
  <2> DEFINE n == Evaluated(Quarantined(Applied(t, r)), TRUE)
  <2>1. /\ t \in DOMAIN objects /\ Becomes(t, n)
        /\ BytesAfter(t, r) <= MaxBytes /\ cacheBytes' = BytesAfter(t, r)
        /\ UNCHANGED <<removed, seen, tokensBefore, terminal>>
    BY <1>6 DEF ApplyChange, Apply, Reflected, Known, Open
  <2>2. n.slots = Applied(t, r).slots
    BY <1>1, <2>1, HaveSlots, SlotsStay
  <2> HIDE DEF n
  <2>3. QED
    BY <1>1, <1>3, <2>1, <2>2, SuppliedBytes
<1>7. CASE ApplyClaim(t, r)
  <2> DEFINE c == [Applied(t, r) EXCEPT !.identity = Triple(r),
                                        !.incarnation = NextIncarnation(Triple(r))]
             n == Evaluated(c, TRUE)
  <2>1. /\ t \in DOMAIN objects /\ Becomes(t, n)
        /\ BytesAfter(t, r) <= MaxBytes /\ cacheBytes' = BytesAfter(t, r)
        /\ UNCHANGED <<removed, seen, tokensBefore, terminal>>
    BY <1>7 DEF ApplyClaim, Apply, Reflected, Known, Open
  <2>2. c.slots = Applied(t, r).slots /\ "slots" \in DOMAIN c
    BY <1>1, <2>1, HaveSlots
  <2>3. n.slots = c.slots
    BY <2>2, SlotsStay
  <2> HIDE DEF n, c
  <2>4. QED
    BY <1>1, <1>3, <2>1, <2>2, <2>3, SuppliedBytes
<1>8. CASE ApplyCollision(t, r)
  <2> DEFINE n == Evaluated(Quarantined(Applied(t, r)), TRUE)
             h == index[Triple(r)]
             held == Quarantined(objects[h])
  <2>1. /\ t \in DOMAIN objects /\ Claims(t, r) /\ Decodes(r) /\ h # None
        /\ objects' = [Put(t, n) EXCEPT ![h] = held]
        /\ BytesAfter(t, r) <= MaxBytes /\ cacheBytes' = BytesAfter(t, r)
        /\ UNCHANGED <<removed, seen, tokensBefore, terminal>>
    BY <1>8 DEF ApplyCollision, Apply, Reflected, Known, Open
  <2>2. n.slots = Applied(t, r).slots
    BY <1>1, <2>1, HaveSlots, SlotsStay
  <2>3. h \in DOMAIN objects /\ h # t
    <3>1. Triple(r) \in Triples /\ Triple(r) # None
      BY <2>1, ReducerAssumption, ClaimTurns DEF Kept, Typed, Object
    <3>2. h \in Tokens
      BY <2>1, <3>1, <1>1 DEF Typed
    <3>3. h \in DOMAIN objects /\ objects[h].identity = Triple(r)
      BY <3>1, <3>2, <1>1 DEF Identified
    <3>4. QED
      BY <3>1, <3>3, <2>1 DEF Claims
  <2>4. held.slots = objects[h].slots
    BY <1>1, <2>3, HaveSlots, SlotsStay
  <2> HIDE DEF n, h, held
  <2>5. /\ DOMAIN objects' = DOMAIN objects
        /\ objects'[h] = held /\ objects'[t] = n
        /\ \A u \in DOMAIN objects \ {t, h} : objects'[u] = objects[u]
    BY <2>1, <2>3 DEF Put
  <2>6. \A u \in DOMAIN objects \ {t} : objects'[u].slots = objects[u].slots
    BY <2>4, <2>5
  <2>7. \A m \in Names : objects'[t].slots[m].bytes =
                            IF m \in DOMAIN r THEN r[m].bytes ELSE objects[t].slots[m].bytes
    BY <1>1, <2>1, <2>2, <2>5, SuppliedBytes
  <2>8. QED
    BY <1>1, <2>1, <2>5, <2>6, <2>7, SupplyBooked
<1>9. QED
  BY <1>2, <1>4, <1>5, <1>6, <1>7, <1>8 DEF Reflect

\* A token more is seen.
LEMMA TokenSeen ==
    ASSUME seen \in SUBSET Tokens, tokensBefore \in Nat,
           tokensBefore + Cardinality(seen) <= MaxTokens,
           NEW t \in Tokens, Admitted(t)
    PROVE  /\ seen \cup {t} \in SUBSET Tokens
           /\ tokensBefore + Cardinality(seen \cup {t}) <= MaxTokens
<1>1. IsFiniteSet(seen)
  BY ReducerAssumption, FS_Subset
<1>2. Cardinality(seen) \in Nat
  BY <1>1, FS_CardinalityType
<1>3. Cardinality(seen \cup {t}) = IF t \in seen THEN Cardinality(seen) ELSE Cardinality(seen) + 1
  BY <1>1, FS_AddElement
<1>4. QED
  BY <1>2, <1>3 DEF Admitted

LEMMA ClearedBooked ==
    ASSUME Booked, Cleared
    PROVE  Booked'
<1>1. IsFiniteSet(seen)
  BY ReducerAssumption, FS_Subset DEF Booked
<1>2. Cardinality(seen) \in Nat
  BY <1>1, FS_CardinalityType
<1>3. /\ tokensBefore' = tokensBefore + Cardinality(seen)
      /\ DOMAIN objects' = {} /\ removed' = {} /\ seen' = {}
      /\ cacheBytes' = 0 /\ terminal' = FALSE
  BY DEF Cleared, NoObjects
<1>4. Cached' = {}
  BY <1>3 DEF Cached
<1>5. Cardinality(Cached') = 0 /\ Cardinality(seen') = 0
  BY <1>3, <1>4, FS_EmptySet
<1>6. tokensBefore' \in Nat /\ tokensBefore' + Cardinality(seen') <= MaxTokens
  BY <1>2, <1>3, <1>5 DEF Booked
<1>7. MaxBytes \in Nat
  BY ReducerAssumption
<1>8. cacheBytes' = Cardinality(Cached') /\ cacheBytes' <= MaxBytes
  BY <1>3, <1>5, <1>7
<1>9. QED
  BY <1>3, <1>6, <1>8 DEF Booked

LEMMA DiscoverBooked ==
    ASSUME Typed, Booked, NEW t \in Tokens, Discover(t)
    PROVE  Booked'
<1>1. /\ t \notin DOMAIN objects /\ Admitted(t) /\ seen' = seen \cup {t}
      /\ UNCHANGED <<removed, cacheBytes, terminal, tokensBefore>>
      /\ DOMAIN objects' = DOMAIN objects \cup {t}
      /\ objects'[t] = Discovered
      /\ \A u \in DOMAIN objects : objects'[u] = objects[u]
  BY DEF Discover, Known, Open, Put
<1>2. BytesOf(t, Discovered.slots) = {}
  <2>1. \A n \in DOMAIN Discovered.slots : Discovered.slots[n].bytes = 0
    BY DEF Discovered, Absent
  <2>2. \A n \in DOMAIN Discovered.slots :
           {<<t, n>>} \X (1 .. Discovered.slots[n].bytes) = {}
    BY <2>1
  <2>3. QED
    BY <2>2 DEF BytesOf
<1>3. Cached' = Cached
  <2>1. Cached' = UNION {BytesOf(u, objects'[u].slots) : u \in DOMAIN objects \cup {t}}
    BY <1>1 DEF Cached, BytesOf
  <2>2. \A u \in DOMAIN objects : BytesOf(u, objects'[u].slots) = BytesOf(u, objects[u].slots)
    BY <1>1
  <2>3. BytesOf(t, objects'[t].slots) = {}
    BY <1>1, <1>2
  <2>4. QED
    BY <2>1, <2>2, <2>3 DEF Cached
<1>4. seen' \in SUBSET Tokens /\ tokensBefore + Cardinality(seen') <= MaxTokens
  BY <1>1, TokenSeen DEF Booked
<1>5. QED
  BY <1>1, <1>3, <1>4 DEF Booked

LEMMA UnknownBooked ==
    ASSUME Booked, NEW t \in Tokens, Unknown(t)
    PROVE  Booked'
<1>1. Cached' = Cached
  BY DEF Unknown, Cached, BytesOf
<1>2. /\ UNCHANGED <<objects, removed, cacheBytes, tokensBefore>>
      /\ \/ Admitted(t) /\ seen' = seen \cup {t} /\ terminal' = terminal
         \/ terminal' = TRUE /\ seen' = seen
  BY DEF Unknown, Open, Stops
<1>3. seen' \in SUBSET Tokens /\ tokensBefore + Cardinality(seen') <= MaxTokens
  BY <1>2, TokenSeen DEF Booked
<1>4. seen \in SUBSET seen' /\ terminal' \in BOOLEAN
  BY <1>2 DEF Booked
<1>5. QED
  BY <1>1, <1>2, <1>3, <1>4 DEF Booked

LEMMA RemoveBooked ==
    ASSUME Typed, Booked, NEW t \in Tokens, Remove(t)
    PROVE  Booked'
<1> DEFINE B == BytesOf(t, objects[t].slots)
<1>1. /\ t \in DOMAIN objects /\ UNCHANGED <<seen, terminal, tokensBefore>>
      /\ cacheBytes' = cacheBytes - Cardinality(B)
      /\ removed' = removed \cup {t}
      /\ DOMAIN objects' = DOMAIN objects \ {t}
      /\ \A u \in DOMAIN objects \ {t} : objects'[u] = objects[u]
  BY DEF Remove, Known, Open
<1>2. /\ B = PlacesOf(t)
      /\ IsFiniteSet(B) /\ Cardinality(B) \in Nat
  <2>1. /\ BytesOf(t, objects[t].slots) = PlacesOf(t)
        /\ IsFiniteSet(BytesOf(t, objects[t].slots))
        /\ Cardinality(BytesOf(t, objects[t].slots)) \in Nat
    BY <1>1, ObjectBytes, Zenon
  <2>2. QED
    BY <2>1
<1> HIDE DEF B
<1>3. \A u \in DOMAIN objects : BytesOf(u, objects[u].slots) = PlacesOf(u)
  BY ObjectBytes, Zenon
<1>4. Cached' = Cached \ B
  <2>1. Cached' = UNION {BytesOf(u, objects'[u].slots) : u \in DOMAIN objects \ {t}}
    BY <1>1 DEF Cached, BytesOf
  <2>2. \A u \in DOMAIN objects \ {t} :
           BytesOf(u, objects'[u].slots) = BytesOf(u, objects[u].slots)
    BY <1>1
  <2>3. Cached' = UNION {BytesOf(u, objects[u].slots) : u \in DOMAIN objects \ {t}}
    BY <2>1, <2>2
  <2>4. Cached' = {z \in Places : /\ z[1][1] \in DOMAIN objects \ {t} /\ z[1][2] \in Names
                                  /\ z[2] \in 1 .. objects[z[1][1]].slots[z[1][2]].bytes}
    BY <2>3, <1>3 DEF PlacesOf
  <2>5. Cached = {z \in Places : /\ z[1][1] \in DOMAIN objects
                                 /\ z[2] \in 1 .. objects[z[1][1]].slots[z[1][2]].bytes}
    BY CachedAre
  <2>6. \A z \in Places : z[1][2] \in Names
    BY DEF Places
  <2>7. QED
    BY <2>4, <2>5, <2>6, <1>1, <1>2 DEF PlacesOf
<1>5. B \in SUBSET Cached
  BY <1>1 DEF Cached, B
<1>6. IsFiniteSet(Cached) /\ Cardinality(Cached) \in Nat
  BY CachedAre
<1>7. Cardinality(Cached') = Cardinality(Cached) - Cardinality(B)
  <2>1. Cardinality(Cached \ B) = Cardinality(Cached) - Cardinality(Cached \cap B)
    BY <1>6, FS_Difference
  <2>2. Cached \cap B = B
    BY <1>5
  <2>3. QED
    BY <2>1, <2>2, <1>4
<1>8. cacheBytes' = Cardinality(Cached')
  BY <1>1, <1>7 DEF Booked
<1>9. cacheBytes' <= MaxBytes
  <2>1. cacheBytes \in Nat /\ cacheBytes <= MaxBytes /\ MaxBytes \in Nat
    BY <1>6, ReducerAssumption DEF Booked
  <2>2. QED
    BY <2>1, <1>1, <1>2
<1>10. QED
  BY <1>1, <1>8, <1>9 DEF Booked

LEMMA RetractableBooked ==
    ASSUME Typed, Booked, NEW t \in Tokens, Retractable(t)
    PROVE  Booked'
<1> DEFINE n == Quarantined(objects[t])
<1>1. /\ t \in DOMAIN objects /\ Becomes(t, n)
      /\ UNCHANGED <<removed, seen, cacheBytes, terminal, tokensBefore>>
  BY DEF Retractable, Known, Open
<1>2. n.slots = objects[t].slots
  BY <1>1, HaveSlots, SlotsStay
<1> HIDE DEF n
<1>3. DOMAIN objects' = DOMAIN objects /\ \A u \in DOMAIN objects : objects'[u].slots = objects[u].slots
  BY <1>1, <1>2 DEF Becomes, Put
<1>4. Cached' = Cached
  BY <1>3, SlotsSame
<1>5. QED
  BY <1>1, <1>3, <1>4 DEF Booked

LEMMA NextBooked ==
    ASSUME Kept, Booked, [Next]_vars
    PROVE  Booked'
<1>1. Kept' /\ Typed
  BY NextKept DEF Kept
<1>2. CASE GenerationStart \/ GenerationEnd
  BY <1>2, ClearedBooked DEF GenerationStart, GenerationEnd
<1>3. ASSUME UNCHANGED <<objects, removed, seen, cacheBytes, tokensBefore>>, terminal' \in BOOLEAN
      PROVE  Booked'
  <2>1. Cached' = Cached
    BY <1>3 DEF Cached, BytesOf
  <2>2. QED
    BY <2>1, <1>3 DEF Booked
<1>4. ASSUME NEW t \in Tokens, Discover(t) PROVE Booked'
  BY <1>1, <1>4, DiscoverBooked
<1>5. ASSUME NEW t \in Tokens, DiscoverAgain(t) \/ DiscoverBeyondLimit(t) PROVE Booked'
  BY <1>3, <1>5 DEF DiscoverAgain, DiscoverBeyondLimit, Open, Unchanged, Stops
<1>6. ASSUME NEW t \in Tokens, Unknown(t) PROVE Booked'
  BY <1>6, UnknownBooked
<1>7. ASSUME NEW t \in Tokens, Remove(t) PROVE Booked'
  BY <1>1, <1>7, RemoveBooked
<1>8. ASSUME NEW t \in Tokens, Retractable(t) PROVE Booked'
  BY <1>1, <1>8, RetractableBooked
<1>9. ASSUME NEW t \in Tokens, NEW r \in Reflections, Reflect(t, r) PROVE Booked'
  BY <1>1, <1>9, ReflectBooked
<1>10. ASSUME NEW r \in Reflections, ReflectTooMany(r) PROVE Booked'
  BY <1>3, <1>10 DEF ReflectTooMany, Open, Unchanged, Stops
<1>11. CASE UNCHANGED vars
  BY <1>3, <1>11 DEF vars, Booked
<1>12. QED
  BY <1>2, <1>4, <1>5, <1>6, <1>7, <1>8, <1>9, <1>10, <1>11 DEF Next

LEMMA BookedAlways == Spec => []Booked
<1>1. ASSUME Init PROVE Booked
  <2>1. /\ DOMAIN objects = {} /\ removed = {} /\ seen = {} /\ cacheBytes = 0
        /\ terminal = FALSE /\ tokensBefore = 0
    BY <1>1 DEF Init, NoObjects
  <2>2. Cached = {}
    BY <2>1 DEF Cached
  <2>3. Cardinality(Cached) = 0 /\ Cardinality(seen) = 0
    BY <2>1, <2>2, FS_EmptySet
  <2>4. MaxBytes \in Nat /\ MaxTokens \in Nat
    BY ReducerAssumption
  <2>5. cacheBytes = Cardinality(Cached) /\ cacheBytes <= MaxBytes
    BY <2>1, <2>3, <2>4
  <2>6. tokensBefore \in Nat /\ tokensBefore + Cardinality(seen) <= MaxTokens
    BY <2>1, <2>3, <2>4
  <2>7. QED
    BY <2>1, <2>5, <2>6 DEF Booked
<1>2. Kept /\ Booked /\ [Next]_vars => Booked'
  BY NextBooked
<1>3. QED
  BY <1>1, <1>2, KeptAlways, PTL DEF Spec

-----------------------------------------------------------------------------
\* Type correctness of Reducer (TypeOK): the cached bytes and the tokens stay within their limits.
THEOREM ReducerTypeCorrect == Spec => []TypeOK
<1>1. ASSUME Kept, Booked PROVE TypeOK
  <2>1. Cardinality(Cached) \in Nat /\ Cardinality(seen) \in Nat
    <3>1. IsFiniteSet(seen)
      BY <1>1, ReducerAssumption, FS_Subset DEF Booked
    <3>2. QED
      BY <1>1, <3>1, CachedAre, FS_CardinalityType DEF Kept
  <2>2. cacheBytes \in 0 .. MaxBytes /\ tokensBefore \in 0 .. MaxTokens
    BY <1>1, <2>1, ReducerAssumption DEF Booked
  <2>3. generation \in 0 .. MaxGenerations
    BY <1>1, ReducerAssumption DEF Kept, Typed
  <2>4. view \in [Life!Entities -> [state: {"unborn", "live", "withdrawn", "ended"}, revision: Nat]]
    BY <1>1 DEF Kept, Typed, Views
  <2>5. QED
    BY <1>1, <2>2, <2>3, <2>4 DEF TypeOK, Kept, Typed, Booked
<1>2. QED
  BY <1>1, KeptAlways, BookedAlways, PTL

\* The state's books agree after any frames (BooksBalance): the index names the object of each
\* identity, the cached bytes are those of the objects that remain, an ACTIVE object's identifier
\* is its identity, and every token counts once (_identify, _remove, _clear_generation).
THEOREM BooksAlwaysBalance == Spec => []BooksBalance
<1>1. ASSUME Kept, Booked PROVE BooksBalance
  <2>1. \A x \in Triples, t \in Tokens : index[x] = t <=> Known(t) /\ objects[t].identity = x
    BY <1>1 DEF Kept, Identified, Known
  <2>2. cacheBytes = Cardinality(UNION {BytesOf(t, objects[t].slots) : t \in DOMAIN objects})
    BY <1>1 DEF Booked, Cached
  <2>3. \A t \in DOMAIN objects :
           LET slot == objects[t].slots["EntityIdentifier"]
           IN  objects[t].lifecycle = "ACTIVE" /\ slot.status = "VALID" /\ slot.value # Null
                 => objects[t].identity = slot.value
    BY <1>1 DEF Kept, Identified, Fits
  <2>4. DOMAIN objects \cup removed \subseteq seen /\ tokensBefore + Cardinality(seen) <= MaxTokens
    BY <1>1 DEF Booked
  <2>5. QED
    BY <2>1, <2>2, <2>3, <2>4 DEF BooksBalance
<1>2. QED
  BY <1>1, KeptAlways, BookedAlways, PTL

=============================================================================
