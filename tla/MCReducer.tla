------------------------------- MODULE MCReducer -------------------------------
(* Model checking of Reducer: reflections that make an object eligible, deny its identity, spoil  *)
(* each kind of attribute, and fail in each way.  Tokens are interchangeable, and so are triples. *)
EXTENDS Reducer, TLC

Sent(value) == [value |-> value, bytes |-> 1]
Long        == [value |-> Malformed, bytes |-> 2]

Only(n, v) == [m \in {n} |-> v]

Whole(x) == Only("EntityIdentifier", Sent(x)) @@ [n \in {"EntityType", "Spatial"} |-> Sent(Plain)]

MCReflections ==
    {Whole(x) : x \in Triples} \cup
    {Only("EntityIdentifier", Sent(Null)), Only("EntityIdentifier", Long),
     Only("Spatial", Sent(Unprojectable)), Only("ForceIdentifier", Long),
     Only("Unsubscribed", Sent(Plain)),
     Only("EntityIdentifier", Sent(Null)) @@ [n \in Names |-> Sent(Plain)]}

Interchangeable == {f @@ g : f \in Permutations(Tokens), g \in Permutations(Triples)}

=============================================================================
