--------------------------- MODULE MCEffectApplier ---------------------------
(***************************************************************************)
(* An instance of EffectApplier for TLC: two entities that carry an        *)
(* attribute, a location and a relationship, two relationship predicates   *)
(* sharing a family, and batches that collide on the same facts.           *)
(***************************************************************************)
EXTENDS EffectApplier, TLC

Facts == {"health", "location", "carries", "knows"}
Families == [p \in Facts |-> CASE p = "health" -> "attributes"
                               [] p = "location" -> "location"
                               [] OTHER -> "relationships"]
Relations == {"carries", "knows"}

Put(e, p, o) == [target |-> e, predicate |-> p, op |-> "put", object |-> o]
Drop(e, p, o) == [target |-> e, predicate |-> p, op |-> "drop", object |-> o]

(* Nothing that names the entity "hall" as a carrier is admissible.        *)
KnownKinds == {n \in Intents : n.target # "hall" /\ (n.op = "drop" => n.predicate \in Relations)}

SmallBatches == {
  << >>,
  << Put("ada", "location", "b"), Put("bob", "carries", "a") >>,
  << Put("ada", "location", "a"), Drop("ada", "carries", "a"), Put("bob", "knows", "a") >>,
  << Put("bob", "carries", "b"), Drop("ada", "knows", "b"), Put("ada", "location", "b"),
     Drop("bob", "carries", "a") >>,
  << Put("ada", "health", "a"), Put("hall", "location", "b") >>,
  << Put("ada", "carries", "b"), Drop("ada", "carries", "b") >>,
  << Put("ada", "location", "a"), Put("ada", "location", "b") >> }

Imported == [e \in Entities |-> [p \in Predicates |->
               IF p \in Relations THEN {"a"} ELSE IF p = "location" THEN {"a"} ELSE {"b"}]]

TurnSymmetry == Permutations(Turns)
=============================================================================
