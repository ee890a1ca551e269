------------------------------- MODULE EntityLife -------------------------------
(***************************************************************************)
(* What a consumer of a capture's output records may rely on, whatever the  *)
(* frames hold: an entity is upserted with consecutive revisions, withdrawn *)
(* only while it is live, back only with a new revision, and nothing comes  *)
(* after its end.  Of an entity identifier at most one entity is live, each *)
(* a later incarnation of the one before it, and none outlives its          *)
(* generation.                                                             *)
(***************************************************************************)
EXTENDS Naturals

CONSTANTS Generations, Triples, Incarnations

VARIABLE view   \* of each entity: what the records say of it last

Entities == [generation: Generations, triple: Triples, incarnation: Incarnations]

Unborn == [state |-> "unborn", revision |-> 0]

Init == view = [e \in Entities |-> Unborn]

Ended(e) == view[e].state = "ended"

\* The entities that are over before e begins.
Before(e) ==
    {d \in Entities : /\ d.generation = e.generation /\ d.triple = e.triple
                      /\ d.incarnation < e.incarnation}

Upsert(e) ==
    /\ ~Ended(e)
    /\ \A d \in Before(e) : Ended(d)
    /\ \A d \in Entities : view[d].state \in {"live", "withdrawn"} => d.generation = e.generation
    /\ view' = [view EXCEPT ![e] = [state |-> "live", revision |-> @.revision + 1]]

Withdraw(e) ==
    /\ view[e].state = "live"
    /\ view' = [view EXCEPT ![e].state = "withdrawn"]

\* An object is removed, or the generation ends.
End(E) ==
    /\ \A e \in E : ~Ended(e)
    /\ view' = [e \in Entities |-> IF e \in E THEN [view[e] EXCEPT !.state = "ended"] ELSE view[e]]

Next ==
    \/ \E e \in Entities : Upsert(e) \/ Withdraw(e)
    \/ \E E \in SUBSET Entities : End(E)

Spec == Init /\ [][Next]_view

=============================================================================
