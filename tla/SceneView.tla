----------------------------- MODULE SceneView -----------------------------
(***************************************************************************)
(* The scene a persona is shown (internal/scene): the turn, its scene, the *)
(* scene's location, whoever the incoming-edge index says is there, and    *)
(* what those refer to, at most cap entities in all.  A graph maps the     *)
(* entities it holds to their triples <<predicate, object>>; the index is  *)
(* a set of edges <<from, predicate, to>> that may trail the graph.        *)
(***************************************************************************)
EXTENDS Naturals, FiniteSets, FiniteSetsExt

(* A name that is not given: the empty string of the code.                 *)
Unset == "none"

(* Predicates whose object is an entity, of a turn and of the world; the   *)
(* ones of a turn are not references to the vocabulary.                    *)
IsEntityReference(p) ==
  p \in {"scene.location", "player.character", "world.location", "relation.knows",
         "case.culprit", "case.method", "case.motive", "case.suspect", "case.evidence",
         "evidence.target", "belief.holder", "belief.evidence", "knowledge.holder",
         "knowledge.evidence", "revelation.holder", "revelation.evidence", "bond.player", "bond.character"}
IsRelationship(p) == IsEntityReference(p) \/ p \in {"turn.scene", "turn.player"}
registered(p) ==
  \/ IsRelationship(p)
  \/ p \in {"entity.kind", "entity.name", "turn.phase", "turn.companion-ref", "case.phase",
            "evidence.truth", "belief.stance", "revelation.turn", "bond.hint"}
IsSceneMembership(p) == p = "world.location"

(* project: the predicates of the engine's vocabulary and no other.        *)
project(g, e) == {x \in g[e] : registered(x[1])}
Objects(triples, p) == {x[2] : x \in {y \in triples : y[1] = p}}
Targets(triples) == {x[2] : x \in {y \in triples : IsRelationship(y[1])}}
Single(S) == Cardinality(S) = 1
TheOne(S) == CHOOSE x \in S : TRUE

memberIDs(index, location) ==
  {x[1] : x \in {y \in index : y[3] = location /\ IsSceneMembership(y[2])}} \ {location}

(* Mutant of neighbourIDsOf: what the members refer to is left out.        *)
neighbourIDsOfFixed(g, fixed, members) ==
  (UNION {Targets(project(g, e)) : e \in fixed}) \ (fixed \cup members)

(* What the entities shown refer to and is not among them; a member the    *)
(* graph does not hold is looked for once more when something names it.    *)
neighbourIDsOf(g, fixed, members) ==
  (UNION {Targets(project(g, e)) : e \in fixed \cup members}) \ (fixed \cup members)

(* hydrate: the ones the graph holds; the others are exclusions.           *)
hydrate(g, ids) == ids \cap DOMAIN g
missing(g, ids) == ids \ DOMAIN g

(* The acting character: a player who is not shown, or is bound to no or   *)
(* to several characters, leaves a doubt; a character who is bound and not *)
(* there is an error.                                                      *)
actorOf(g, turn, shown, members) ==
  LET player == TheOne(Objects(project(g, turn), "turn.player"))
      bound == UNION {Objects(project(g, e), "player.character") : e \in {player} \cap shown}
      doubt == CASE player \notin shown              -> "player-absent"
                 [] player \in shown /\ bound = {}   -> "binding-absent"
                 [] Cardinality(bound) > 1           -> "binding-ambiguous"
                 [] Single(bound)                    -> IF bound \subseteq members THEN Unset ELSE "absent"
  IN [player |-> player, doubt |-> doubt, character |-> IF Single(bound) THEN TheOne(bound) ELSE Unset]
Verified(actor) == actor.doubt = Unset

(* measure, but for the bytes.                                             *)
measure(g, es) ==
  [entities |-> Cardinality(es), triples |-> MapThenSumSet(LAMBDA e : Cardinality(project(g, e)), es)]

Refuse == [ok |-> FALSE]
readSolid(g, es) == Single(es) /\ es \subseteq DOMAIN g

(* checkCap counts the identities asked for, before they are read.         *)
fixedEntities == 3
checkCap(cap, asked, around) == fixedEntities + Cardinality(asked) + Cardinality(around) <= cap

Assemble(g, index, turn, cap) ==
  LET scenes == Objects(project(g, turn), "turn.scene")
      scene == TheOne(scenes)
      locations == Objects(project(g, scene), "scene.location")
      location == TheOne(locations)
      fixed == {turn, scene, location}
      asked == memberIDs(index, location)
      members == hydrate(g, asked)
      around == neighbourIDsOf(g, fixed, members)
      neighbours == hydrate(g, around)
      shown == fixed \cup members \cup neighbours
      actor == actorOf(g, turn, shown, members)
  IN IF /\ readSolid(g, {turn})
        /\ readSolid(g, scenes)
        /\ readSolid(g, locations)
        /\ Objects(project(g, location), "entity.kind") = {"location"}
        /\ checkCap(cap, asked, {}) /\ checkCap(cap, asked, around)
        /\ Single(Objects(project(g, turn), "turn.player"))
        /\ actor.doubt # "absent"
     THEN [ok |-> TRUE, turn |-> turn, scene |-> scene, location |-> location, members |-> members,
           neighbours |-> neighbours, excluded |-> missing(g, asked) \cup missing(g, around),
           actor |-> actor, size |-> measure(g, shown)]
     ELSE Refuse

-----------------------------------------------------------------------------
(* A view is all there is to see and no more: what its turn, scene,        *)
(* location and members refer to is shown or named as missing; what is     *)
(* shown is one of them or referred to by one; a verified actor is there;  *)
(* and the cap holds.                                                      *)
ViewIsWhole(g, view, cap) ==
  LET fixed == {view.turn, view.scene, view.location}
      inner == fixed \cup view.members
      shown == inner \cup view.neighbours
  IN /\ \A e \in inner : \A x \in g[e] :
          registered(x[1]) /\ IsRelationship(x[1]) => x[2] \in shown \cup view.excluded
     /\ \A e \in view.neighbours : \E f \in inner : \E x \in g[f] : registered(x[1]) /\ x[2] = e
     /\ Verified(view.actor) => view.actor.character \in view.members /\ view.actor.player \in shown
     /\ Cardinality(shown) <= cap
     /\ view.excluded \cap DOMAIN g = {}
=============================================================================
