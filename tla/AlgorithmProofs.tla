-------------------------- MODULE AlgorithmProofs --------------------------
(***************************************************************************)
(* The algorithms of MCAlgorithms on every input, not only the enumerated  *)
(* ones.                                                                   *)
(***************************************************************************)
EXTENDS MCAlgorithms, FiniteSetTheorems, TLAPS

-----------------------------------------------------------------------------
(* Rule packs.                                                             *)

(* A condition of eq or ne compares with one value.                        *)
SingleValues(d) == \A c \in d.conditions : c.op \in {"eq", "ne"} => \E v : c.value = {v}

(* rulepack.checkDefinition: a rule the pack may hold, matching a turn in  *)
(* one of the phases, starts a stage only if it may follow that phase, and *)
(* on the strength of the phase alone only where no stage owes a record.   *)
THEOREM AcceptedRulesFireInOrder ==
  ASSUME NEW d, NEW turn, SingleValues(d), P!checkDefinition(d)
  PROVE  P!FiresInOrder(d, turn)
<1> SUFFICES ASSUME P!Matches(d, turn)
             PROVE  \A s \in P!subjectsOf(d.onEnter \cup d.onRecovery) : \A target \in P!PhaseForSubject(s) :
                      /\ P!PhaseFollows(turn.fields["phase"], target)
                      /\ \/ turn.fields["phase"] = "accepted"
                         \/ turn.moved
                         \/ P!StageArtifacts(turn.fields["phase"]) \cap DOMAIN turn.fields # {}
  BY DEF P!FiresInOrder
<1>1. /\ d.logic = "and" /\ P!phaseGates(d) # {} /\ P!checkArtifactGate(d) /\ P!checkPhaseEdges(d)
      /\ \A c \in d.conditions : P!checkCondition(c)
  BY DEF P!checkDefinition
<1>2. \A c \in d.conditions : P!Holds(c, turn)
  BY <1>1 DEF P!Matches
<1>3. PICK c \in d.conditions : c.field = "phase" /\ c.op \in {"eq", "transition"}
  BY <1>1 DEF P!phaseGates
<1> DEFINE gate == [phase |-> CHOOSE p \in c.value : TRUE, op |-> c.op]
<1>4. gate \in P!phaseGates(d)
  BY <1>3 DEF P!phaseGates
<1>5. turn.fields["phase"] \in c.value /\ (c.op = "transition" => turn.moved)
  BY <1>2, <1>3 DEF P!Holds
<1>6. gate.phase = turn.fields["phase"]
  <2>1. PICK v : c.value = {v}
    BY <1>1, <1>3 DEF SingleValues, P!checkCondition
  <2> QED BY <1>5, <2>1
<1> HIDE DEF gate
<1>7. ASSUME NEW a \in d.onEnter \cup d.onRecovery, NEW target \in P!PhaseForSubject(a.subject)
      PROVE  P!PhaseFollows(turn.fields["phase"], target)
  BY <1>1, <1>4, <1>6 DEF P!checkPhaseEdges
<1>8. \/ turn.fields["phase"] = "accepted"
      \/ turn.moved
      \/ P!StageArtifacts(turn.fields["phase"]) \cap DOMAIN turn.fields # {}
  <2>1. CASE gate.op = "transition"
    BY <1>5, <2>1 DEF gate
  <2>2. CASE gate.phase = "accepted"
    BY <1>6, <2>2
  <2>3. CASE P!gatedOnArtifact(d, P!StageArtifacts(gate.phase))
    BY <1>2, <1>6, <2>3 DEF P!gatedOnArtifact, P!Holds
  <2> QED BY <1>1, <1>4, <2>1, <2>2, <2>3 DEF P!checkArtifactGate
<1> QED BY <1>7, <1>8 DEF P!subjectsOf

(* rulepack.Check, on the rules of the run: none that the pack may hold    *)
(* starts a stage out of turn or ahead of a record, in any state a stage   *)
(* leaves its turn in.                                                     *)
THEOREM RulesAreInOrder == Spec => []RulesFireInOrder
<1> DEFINE Inputs == input.about = "rule" => input \in Rules
<1>1. ASSUME Inputs PROVE RulesFireInOrder
  <2> SUFFICES ASSUME input.about = "rule", P!Check([id \in {"it"} |-> input]), NEW turn \in TurnStates
               PROVE  P!FiresInOrder(input, turn)
    BY DEF RulesFireInOrder
  <2>1. P!checkDefinition(input)
    BY DEF P!Check
  <2>2. input.conditions \subseteq Conditions
    BY <1>1 DEF Rules
  <2>3. ASSUME NEW c \in Conditions PROVE c.op \in {"eq", "ne"} => \E v : c.value = {v}
    <3>1. \A f, o, v, from : Cond(f, o, v, from).op = o /\ Cond(f, o, v, from).value = v
      BY DEF Cond
    <3> HIDE DEF Cond
    <3>2. CASE c \in {Cond("phase", "eq", {p}, {}) : p \in {"accepted", "adjudicating", "resolving", "applying", "complete"}}
      BY <3>1, <3>2
    <3>3. CASE c = [Cond("effects.batch", "ne", {"none"}, {}) EXCEPT !.required = TRUE]
      BY <3>3 DEF Cond
    <3>4. CASE c \in {Cond("phase", "ne", {"adjudicating"}, {}), Cond("phase", "eq", {"$"}, {}),
                      Cond("verdict.ref", "ne", {"none"}, {}), Cond("verdict.scalars", "eq", {"roll"}, {}),
                      Cond("player", "ne", {"none"}, {})}
      <4>1. \/ c.value = {"adjudicating"} \/ c.value = {"$"} \/ c.value = {"none"} \/ c.value = {"roll"}
        BY <3>4 DEF Cond
      <4> QED BY <4>1, Zenon
    <3>5. CASE c \in {Cond("phase", "transition", {"complete"}, {"narrating"}),
                      Cond("phase", "transition", {"adjudicating"}, {"accepted"}),
                      Cond("roll.band", "in", P!RollBands, {}), Cond("roll.band", "in", {"full"}, {}),
                      Cond("effects.batch", "exists", {"none"}, {})}
      <4>1. c.op \in {"transition", "in", "exists"}
        BY <3>1, <3>5
      <4> QED BY <4>1
    <3> QED BY <3>2, <3>3, <3>4, <3>5, Zenon DEF Conditions
  <2> QED BY <2>1, <2>2, <2>3, AcceptedRulesFireInOrder DEF SingleValues
<1>2. Init => Inputs
  BY DEF Init
<1>3. Inputs /\ [Next]_vars => Inputs'
  BY DEF Next, vars, PickScene, PickRule, PickPackage, PickWorldRule, Scenes, Packages, WorldRules
<1> QED BY <1>1, <1>2, <1>3, PTL DEF Spec

-----------------------------------------------------------------------------
(* The rules of a world package.                                           *)

(* world.checkRuleScope: whatever the names it substitutes stand for, an   *)
(* accepted rule writes about its own entity, never a predicate the engine *)
(* owns, and points at nothing it was not given.                           *)
THEOREM AcceptedRulesStayInScope ==
  ASSUME NEW r, NEW b, W!checkRuleScope(r),
         {"$entity.id", "$related.id"} \subseteq DOMAIN b, DOMAIN b \cap {W!Unset, "text"} = {}
  PROVE  W!StaysInScope(r, b)
<1> SUFFICES ASSUME NEW a \in r.actions, NEW w \in W!Writes(a, b)
             PROVE  /\ w.subject = b["$entity.id"]
                    /\ w.predicate \notin W!EngineOwned \cup {W!Template}
                    /\ a.type # "remove-triple" =>
                         w.object \in {W!Unset, "text", b["$entity.id"]} \cup {x \in {b["$related.id"]} : r.related}
  BY DEF W!StaysInScope
<1>1. W!checkActionScope(a, r.related) /\ a.type \in W!GraphActions
  BY DEF W!checkRuleScope, W!Writes
<1>2. /\ W!checkReservedPredicate(a.predicate) /\ a.subject \in {W!Unset, "$entity.id"}
      /\ W!checkObject(a, r.related)
  BY <1>1 DEF W!checkActionScope, W!checkGraphActionScope, W!GraphActions
<1>3. /\ w.subject = IF a.subject = W!Unset THEN b["$entity.id"] ELSE W!Substitute(a.subject, b)
      /\ w.predicate = a.predicate
      /\ w.object = W!Substitute(a.object, b)
  BY <1>1 DEF W!Writes
<1>4. w.subject = b["$entity.id"]
  BY <1>2, <1>3 DEF W!Substitute
<1>5. w.predicate \notin W!EngineOwned \cup {W!Template}
  BY <1>2, <1>3 DEF W!checkReservedPredicate, W!reservedDomainFor, W!enginePredicateNamespaces, W!EngineOwned
<1>6. ASSUME a.type # "remove-triple"
      PROVE  w.object \in {W!Unset, "text", b["$entity.id"]} \cup {x \in {b["$related.id"]} : r.related}
  <2>1. \/ a.object = W!Unset \/ a.object = "text" \/ a.object = "$entity.id"
        \/ a.object = "$related.id" /\ r.related
    BY <1>2, <1>6 DEF W!checkObject
  <2> QED BY <1>3, <2>1 DEF W!Substitute
<1> QED BY <1>4, <1>5, <1>6

(* world.checkRuleScope, on the rules of the run: none that is accepted    *)
(* writes what the engine owns, or about an entity not its own.            *)
THEOREM RulesAreInScope == Spec => []RulesStayInScope
<1>1. RulesStayInScope
  <2> SUFFICES ASSUME W!checkRuleScope(input), NEW b \in Bindings
               PROVE  W!StaysInScope(input, b)
    BY DEF RulesStayInScope
  <2>1. {"$entity.id", "$related.id"} \subseteq DOMAIN b /\ DOMAIN b \cap {W!Unset, "text"} = {}
    BY DEF Bindings, W!Unset
  <2> QED BY <2>1, AcceptedRulesStayInScope
<1> QED BY <1>1, PTL

-----------------------------------------------------------------------------
(* The scene of a turn.                                                    *)

(* A graph and an index that name finitely many things.                    *)
Finite(g, index) ==
  \E names : /\ IsFiniteSet(names)
             /\ \A x \in index : x[1] \in names
             /\ \A e \in DOMAIN g : \A x \in g[e] : x[2] \in names

LEMMA TheOnly ==
  ASSUME NEW S, Single(S)
  PROVE  TheOne(S) \in S
<1>1. S # {}
  BY FS_EmptySet DEF Single
<1> QED BY <1>1 DEF TheOne

LEMMA ObjectsAreNamed ==
  ASSUME NEW g, NEW names, \A e \in DOMAIN g : \A x \in g[e] : x[2] \in names, NEW e \in DOMAIN g
  PROVE  /\ \A p : Objects(project(g, e), p) \subseteq names
         /\ Targets(project(g, e)) \subseteq names
  BY DEF Objects, Targets, project

LEMMA AtMostThree ==
  ASSUME NEW a, NEW b, NEW c
  PROVE  IsFiniteSet({a, b, c}) /\ Cardinality({a, b, c}) <= 3
<1>1. IsFiniteSet({a}) /\ Cardinality({a}) = 1
  BY FS_Singleton
<1>2. IsFiniteSet({a} \cup {b}) /\ Cardinality({a} \cup {b}) \in {1, 2}
  BY <1>1, FS_AddElement
<1>3. IsFiniteSet(({a} \cup {b}) \cup {c}) /\ Cardinality(({a} \cup {b}) \cup {c}) \in {1, 2, 3}
  BY <1>2, FS_AddElement
<1>4. ({a} \cup {b}) \cup {c} = {a, b, c}
  OBVIOUS
<1> QED BY <1>3, <1>4

(* A union is no larger than its parts together.                           *)
LEMMA UnionIsBounded ==
  ASSUME NEW S, NEW T, IsFiniteSet(S), IsFiniteSet(T)
  PROVE  IsFiniteSet(S \cup T) /\ Cardinality(S \cup T) <= Cardinality(S) + Cardinality(T)
<1>1. IsFiniteSet(S \cap T)
  BY FS_Intersection
<1>2. Cardinality(S) \in Nat /\ Cardinality(T) \in Nat /\ Cardinality(S \cap T) \in Nat
  BY <1>1, FS_CardinalityType
<1>3. Cardinality(S \cup T) = Cardinality(S) + Cardinality(T) - Cardinality(S \cap T)
  BY FS_Union
<1>4. IsFiniteSet(S \cup T)
  BY FS_Union
<1> QED BY <1>2, <1>3, <1>4

(* bindActor: only a character bound to the turn's player and among the    *)
(* members is taken for the actor without a doubt.                         *)
LEMMA VerifiedIsThere ==
  ASSUME NEW g, NEW turn \in DOMAIN g, NEW shown, NEW members, shown \subseteq DOMAIN g,
         NEW names, IsFiniteSet(names), \A e \in DOMAIN g : \A x \in g[e] : x[2] \in names,
         Verified(actorOf(g, turn, shown, members))
  PROVE  LET actor == actorOf(g, turn, shown, members)
         IN actor.character \in members /\ actor.player \in shown
<1> DEFINE player == TheOne(Objects(project(g, turn), "turn.player"))
           bound == UNION {Objects(project(g, e), "player.character") : e \in {player} \cap shown}
           actor == actorOf(g, turn, shown, members)
<1>1. bound \subseteq names
  BY ObjectsAreNamed
<1>2. IsFiniteSet(bound) /\ Cardinality(bound) \in Nat
  BY <1>1, FS_Subset, FS_CardinalityType
<1>3. player \notin shown => bound = {}
  OBVIOUS
<1> DEFINE doubt == CASE player \notin shown              -> "player-absent"
                      [] player \in shown /\ bound = {}   -> "binding-absent"
                      [] Cardinality(bound) > 1           -> "binding-ambiguous"
                      [] Single(bound)                    -> IF bound \subseteq members THEN Unset ELSE "absent"
           named == IF Single(bound) THEN TheOne(bound) ELSE Unset
<1>4. actor = [player |-> player, doubt |-> doubt, character |-> named]
  BY Zenon DEF actorOf
<1> HIDE DEF player, bound, actor, doubt, named
<1>5. actor.player = player /\ actor.character = named /\ actor.doubt = doubt
  BY <1>4
<1>6. doubt = "none"
  BY <1>5 DEF actor, Verified, Unset
<1>7. Cardinality({}) = 0 /\ (Cardinality(bound) = 0 => bound = {})
  BY <1>2, FS_EmptySet
<1>8. player \in shown
  BY <1>3, <1>6, <1>7 DEF doubt, Single
<1>9. Single(bound) /\ bound \subseteq members
  <2>1. bound # {}
    BY <1>6, <1>7, <1>8 DEF doubt, Single
  <2>2. Cardinality(bound) <= 1
    BY <1>2, <1>6, <1>8, <2>1 DEF doubt, Single
  <2>3. Single(bound)
    BY <1>2, <1>7, <2>1, <2>2 DEF Single
  <2> QED BY <1>6, <1>8, <2>1, <2>2, <2>3 DEF doubt, Single
<1>10. named \in members
  BY <1>9, TheOnly DEF named
<1> QED BY <1>5, <1>8, <1>10 DEF actor

(* Assemble, as it goes through when it is not refused.                    *)
Assembled(g, index, turn, cap, v) ==
  LET fixed == {v.turn, v.scene, v.location}
      asked == memberIDs(index, v.location)
      around == neighbourIDsOf(g, fixed, v.members)
  IN /\ v.turn = turn /\ fixed \subseteq DOMAIN g
     /\ v.scene \in Objects(project(g, turn), "turn.scene")
     /\ v.members = hydrate(g, asked) /\ v.neighbours = hydrate(g, around)
     /\ v.excluded = missing(g, asked) \cup missing(g, around)
     /\ checkCap(cap, asked, around)
     /\ v.actor = actorOf(g, turn, fixed \cup v.members \cup v.neighbours, v.members)

LEMMA AssembledView ==
  ASSUME NEW g, NEW index, NEW turn, NEW cap, NEW v, v = Assemble(g, index, turn, cap), v.ok
  PROVE  Assembled(g, index, turn, cap, v)
<1> DEFINE scenes == Objects(project(g, turn), "turn.scene")
           scene == TheOne(scenes)
           locations == Objects(project(g, scene), "scene.location")
           location == TheOne(locations)
           fixed == {turn, scene, location}
           asked == memberIDs(index, location)
           members == hydrate(g, asked)
           around == neighbourIDsOf(g, fixed, members)
           neighbours == hydrate(g, around)
           shown == fixed \cup members \cup neighbours
           actor == actorOf(g, turn, shown, members)
           passes == /\ readSolid(g, {turn})
                     /\ readSolid(g, scenes)
                     /\ readSolid(g, locations)
                     /\ Objects(project(g, location), "entity.kind") = {"location"}
                     /\ checkCap(cap, asked, {}) /\ checkCap(cap, asked, around)
                     /\ Single(Objects(project(g, turn), "turn.player"))
                     /\ actor.doubt # "absent"
           view == [ok |-> TRUE, turn |-> turn, scene |-> scene, location |-> location, members |-> members,
                    neighbours |-> neighbours, excluded |-> missing(g, asked) \cup missing(g, around),
                    actor |-> actor, size |-> measure(g, shown)]
<1>1. v = IF passes THEN view ELSE Refuse
  BY Zenon DEF Assemble
<1> HIDE DEF passes, view
<1>2. passes /\ v = view
  <2>1. ~Refuse.ok
    BY DEF Refuse
  <2> QED BY <1>1, <2>1
<1>3. /\ readSolid(g, {turn}) /\ readSolid(g, scenes) /\ readSolid(g, locations) /\ checkCap(cap, asked, around)
  BY <1>2 DEF passes
<1>4. scene \in scenes /\ location \in locations
  BY <1>3, TheOnly DEF readSolid
<1>5. fixed \subseteq DOMAIN g
  BY <1>3, <1>4 DEF readSolid
<1> HIDE DEF scenes, scene, locations, location, fixed, asked, members, around, neighbours, shown, actor
<1>6. /\ v.turn = turn /\ v.scene = scene /\ v.location = location /\ v.members = members
      /\ v.neighbours = neighbours /\ v.excluded = missing(g, asked) \cup missing(g, around) /\ v.actor = actor
  BY <1>2 DEF view
<1>7. v.scene \in Objects(project(g, turn), "turn.scene")
  BY <1>4, <1>6 DEF scenes
<1> QED BY <1>3, <1>5, <1>6, <1>7 DEF Assembled, fixed, asked, members, around, neighbours, shown, actor

(* scene.Assembler.Assemble: on any finite graph, with an index that may   *)
(* trail it anyhow, a view shows what it refers to or names it as missing, *)
(* shows nothing else, keeps the cap, and has its actor among its members. *)
THEOREM AssembledViewsAreWhole ==
  ASSUME NEW g, NEW index, NEW turn, NEW cap \in Nat, Finite(g, index), Assemble(g, index, turn, cap).ok
  PROVE  ViewIsWhole(g, Assemble(g, index, turn, cap), cap)
<1> SUFFICES ASSUME NEW v, v = Assemble(g, index, turn, cap), v.ok PROVE ViewIsWhole(g, v, cap)
  OBVIOUS
<1> DEFINE fixed == {v.turn, v.scene, v.location}
           inner == fixed \cup v.members
           shown == inner \cup v.neighbours
           asked == memberIDs(index, v.location)
           around == neighbourIDsOf(g, fixed, v.members)
<1>1. /\ v.turn = turn /\ fixed \subseteq DOMAIN g
      /\ v.members = hydrate(g, asked) /\ v.neighbours = hydrate(g, around)
      /\ v.excluded = missing(g, asked) \cup missing(g, around)
      /\ checkCap(cap, asked, around)
      /\ v.actor = actorOf(g, turn, fixed \cup v.members \cup v.neighbours, v.members)
  <2>1. Assembled(g, index, turn, cap, v)
    BY AssembledView
  <2> QED BY <2>1 DEF Assembled
<1>2. PICK names : /\ IsFiniteSet(names)
                   /\ \A x \in index : x[1] \in names
                   /\ \A e \in DOMAIN g : \A x \in g[e] : x[2] \in names
  BY DEF Finite
<1>3. inner \subseteq DOMAIN g /\ shown \subseteq DOMAIN g
  BY <1>1 DEF hydrate
<1>4. around = (UNION {Targets(project(g, e)) : e \in inner}) \ inner
  BY DEF neighbourIDsOf
<1>5. \A e \in inner : \A x \in g[e] : registered(x[1]) /\ IsRelationship(x[1]) => x[2] \in shown \cup v.excluded
  <2> SUFFICES ASSUME NEW e \in inner, NEW x \in g[e], registered(x[1]), IsRelationship(x[1])
               PROVE  x[2] \in shown \cup v.excluded
    OBVIOUS
  <2>1. x[2] \in Targets(project(g, e))
    BY DEF Targets, project
  <2>2. x[2] \in inner \cup around
    BY <1>4, <2>1
  <2> QED BY <1>1, <2>2 DEF hydrate, missing
<1>6. \A e \in v.neighbours : \E f \in inner : \E x \in g[f] : registered(x[1]) /\ x[2] = e
  <2> SUFFICES ASSUME NEW e \in v.neighbours PROVE \E f \in inner : \E x \in g[f] : registered(x[1]) /\ x[2] = e
    OBVIOUS
  <2>1. e \in around
    BY <1>1 DEF hydrate
  <2>2. PICK f \in inner : e \in Targets(project(g, f))
    BY <1>4, <2>1
  <2> QED BY <2>2 DEF Targets, project
<1>7. Verified(v.actor) => v.actor.character \in v.members /\ v.actor.player \in shown
  <2>1. v.actor = actorOf(g, turn, shown, v.members) /\ turn \in DOMAIN g
    BY <1>1
  <2> HIDE DEF shown
  <2> QED BY <1>2, <1>3, <2>1, VerifiedIsThere
<1>8. Cardinality(shown) <= cap
  <2>1. asked \subseteq names /\ around \subseteq names
    <3>1. asked \subseteq names
      BY <1>2 DEF memberIDs
    <3>2. around \subseteq names
      <4> SUFFICES ASSUME NEW y \in around PROVE y \in names
        OBVIOUS
      <4> HIDE DEF inner, around
      <4>1. PICK e \in inner : y \in Targets(project(g, e))
        BY <1>4
      <4> QED BY <1>2, <1>3, <4>1, ObjectsAreNamed
    <3> QED BY <3>1, <3>2
  <2>2. IsFiniteSet(asked) /\ IsFiniteSet(around)
    BY <1>2, <2>1, FS_Subset
  <2>3. IsFiniteSet(fixed) /\ Cardinality(fixed) <= 3
    BY AtMostThree
  <2> DEFINE all == (fixed \cup asked) \cup around
  <2>4. /\ IsFiniteSet(fixed \cup asked)
        /\ Cardinality(fixed \cup asked) <= Cardinality(fixed) + Cardinality(asked)
    BY <2>2, <2>3, UnionIsBounded
  <2>5. IsFiniteSet(all) /\ Cardinality(all) <= Cardinality(fixed \cup asked) + Cardinality(around)
    BY <2>2, <2>4, UnionIsBounded
  <2>6. shown \subseteq all
    BY <1>1 DEF hydrate
  <2> HIDE DEF all, shown, fixed, asked, around
  <2>7. IsFiniteSet(shown) /\ Cardinality(shown) <= Cardinality(all)
    BY <2>5, <2>6, FS_Subset
  <2>8. /\ Cardinality(shown) \in Nat /\ Cardinality(all) \in Nat /\ Cardinality(fixed) \in Nat
        /\ Cardinality(asked) \in Nat /\ Cardinality(around) \in Nat /\ Cardinality(fixed \cup asked) \in Nat
    BY <2>2, <2>3, <2>4, <2>5, <2>7, FS_CardinalityType
  <2>9. 3 + Cardinality(asked) + Cardinality(around) <= cap
    BY <1>1 DEF checkCap, fixedEntities, asked, around, fixed
  <2> QED BY <2>3, <2>4, <2>5, <2>7, <2>8, <2>9
<1>9. v.excluded \cap DOMAIN g = {}
  BY <1>1 DEF missing
<1> QED BY <1>5, <1>6, <1>7, <1>8, <1>9 DEF ViewIsWhole

-----------------------------------------------------------------------------
(* What an audience is told.                                               *)

(* finalize keeps every entity, once, and only facts about entities shown. *)
Parts(p) == {p.turn, p.scene, p.members, p.neighbours}
Inside(f, h) == DOMAIN f \subseteq DOMAIN h /\ \A e \in DOMAIN f : f[e] \subseteq h[e]
LEMMA FinalizedIsClosed ==
  ASSUME NEW p, NEW r, r = finalize(p)
  PROVE  /\ Entities(r) = Entities(p)
         /\ DOMAIN r.members \cap DOMAIN r.neighbours = {}
         /\ \A f \in Parts(r) : \A e \in DOMAIN f : \A x \in f[e] : IsEntityReference(x[1]) => x[2] \in Entities(r)
         /\ Inside(r.members, p.members)
         /\ Inside(r.neighbours, p.neighbours)
<1> DEFINE fixed == DOMAIN p.turn \cup DOMAIN p.scene
           m1 == Drop(p.members, fixed)
           n1 == Drop(p.neighbours, fixed \cup DOMAIN p.members)
           ids == fixed \cup DOMAIN m1 \cup DOMAIN n1
<1>1. DOMAIN m1 = DOMAIN p.members \ fixed /\ DOMAIN n1 = DOMAIN p.neighbours \ (fixed \cup DOMAIN p.members)
  BY DEF Drop
<1>2. (\A e \in DOMAIN m1 : m1[e] = p.members[e]) /\ (\A e \in DOMAIN n1 : n1[e] = p.neighbours[e])
  BY DEF Drop
<1>3. r = [turn |-> Prune(p.turn, ids), scene |-> Prune(p.scene, ids),
           members |-> Prune(m1, ids), neighbours |-> Prune(n1, ids)]
  BY Zenon DEF finalize
<1> HIDE DEF m1, n1, ids
<1>4. \A f : /\ DOMAIN Prune(f, ids) = DOMAIN f
             /\ \A e \in DOMAIN f : Prune(f, ids)[e] \subseteq f[e]
             /\ \A e \in DOMAIN f : \A x \in Prune(f, ids)[e] : IsEntityReference(x[1]) => x[2] \in ids
  BY DEF Prune, pruneDangling
<1>5. /\ r.turn = Prune(p.turn, ids) /\ r.scene = Prune(p.scene, ids)
      /\ r.members = Prune(m1, ids) /\ r.neighbours = Prune(n1, ids)
  BY <1>3
<1>6. Entities(r) = ids
  BY <1>4, <1>5 DEF Entities, ids
<1>7. Entities(p) = ids
  BY <1>1 DEF Entities, ids
<1>8. DOMAIN r.members \cap DOMAIN r.neighbours = {}
  BY <1>1, <1>4, <1>5
<1>9. \A f \in Parts(r) : \A e \in DOMAIN f : \A x \in f[e] : IsEntityReference(x[1]) => x[2] \in Entities(r)
  BY <1>4, <1>5, <1>6 DEF Parts
<1>10. Inside(r.members, p.members)
  BY <1>1, <1>2, <1>4, <1>5 DEF Inside
<1>11. Inside(r.neighbours, p.neighbours)
  BY <1>1, <1>2, <1>4, <1>5 DEF Inside
<1> QED BY <1>6, <1>7, <1>8, <1>9, <1>10, <1>11

(* A projection is refused, or it is the verifier's, or it is what was     *)
(* gathered, finalized.                                                    *)
Viewed(w, a) == Assemble(w.graph, w.index, a.turn, w.cap)
Shown(w, a) == finalize(Gathered(w, a, Viewed(w, a)))
LEMMA ProjectionByCases ==
  ASSUME NEW w, NEW a, NEW p, p = Project(w, a), p.ok
  PROVE  \/ /\ a.purpose = "verifier" /\ caseSound(w) /\ solutionSound(w)
            /\ p = [ok |-> TRUE, actor |-> Unset, solution |-> solutionParts(w),
                    turn |-> <<>>, scene |-> <<>>, members |-> <<>>, neighbours |-> <<>>]
         \/ /\ a.purpose \notin {"verifier", "operator"} /\ validateAudience(w, a)
            /\ Viewed(w, a).ok /\ Verified(Viewed(w, a).actor)
            /\ \E members : Sound(w, a, Viewed(w, a), members)
            /\ Cardinality(Entities(Shown(w, a))) <= w.maxEntities
            /\ p = [ok |-> TRUE, actor |-> authorizedActor(a, Viewed(w, a)),
                    solution |-> IF a.purpose = "denouement" THEN solutionParts(w) ELSE {},
                    turn |-> Shown(w, a).turn, scene |-> Shown(w, a).scene,
                    members |-> Shown(w, a).members, neighbours |-> Shown(w, a).neighbours]
<1> DEFINE view == Viewed(w, a)
           full == Shown(w, a)
           base == publicProjection(w, view, a.purpose)
           yes == [ok |-> TRUE, actor |-> authorizedActor(a, view),
                   solution |-> IF a.purpose = "denouement" THEN solutionParts(w) ELSE {},
                   turn |-> full.turn, scene |-> full.scene, members |-> full.members, neighbours |-> full.neighbours]
           whole == [ok |-> TRUE, actor |-> Unset, solution |-> solutionParts(w),
                     turn |-> <<>>, scene |-> <<>>, members |-> <<>>, neighbours |-> <<>>]
           goes == /\ view.ok /\ Verified(view.actor)
                   /\ Sound(w, a, view, DOMAIN base.members)
                   /\ enforceProjectionBounds(w, full, Entities(base))
           asks == a.purpose = "operator" \/ ~validateAudience(w, a)
           checks == a.purpose = "verifier" /\ validateAudience(w, a)
<1>1. p = CASE asks -> Refuse
            [] checks -> IF caseSound(w) /\ solutionSound(w) THEN whole ELSE Refuse
            [] OTHER -> IF goes THEN yes ELSE Refuse
  BY Zenon DEF Project, Viewed, Shown
<1>2. ~Refuse.ok
  BY DEF Refuse
<1> HIDE DEF yes, whole, goes
<1>3. ~asks
  BY <1>1, <1>2
<1>4. CASE checks
  <2>1. p = IF caseSound(w) /\ solutionSound(w) THEN whole ELSE Refuse
    BY <1>1, <1>3, <1>4
  <2>2. caseSound(w) /\ solutionSound(w) /\ p = whole
    BY <1>2, <2>1
  <2> QED BY <1>4, <2>2 DEF whole
<1>5. CASE ~checks
  <2>1. p = IF goes THEN yes ELSE Refuse
    BY <1>1, <1>3, <1>5
  <2>2. goes /\ p = yes
    BY <1>2, <2>1
  <2>3. Cardinality(Entities(full)) <= w.maxEntities
    BY <2>2, Zenon DEF goes, enforceProjectionBounds
  <2>4. view.ok /\ Verified(view.actor) /\ \E members : Sound(w, a, view, members)
    BY <2>2, Zenon DEF goes
  <2>5. a.purpose \notin {"verifier", "operator"} /\ validateAudience(w, a)
    BY <1>3, <1>5
  <2> QED BY <2>2, <2>3, <2>4, <2>5, Zenon DEF yes
<1> QED BY <1>4, <1>5

(* Every projection handed out names each entity once, refers to none it   *)
(* does not show and keeps its bound, whatever the graph holds             *)
(* (projection.go, finalize and enforceProjectionBounds).                  *)
THEOREM ProjectionsAreClosed ==
  ASSUME NEW w, NEW a, w.maxEntities \in Nat, Project(w, a).ok
  PROVE  IsClosed(w, Project(w, a))
<1> DEFINE p == Project(w, a)
           full == Shown(w, a)
<1> HIDE DEF p, full
<1>1. CASE /\ p.turn = <<>> /\ p.scene = <<>> /\ p.members = <<>> /\ p.neighbours = <<>>
  <2>1. DOMAIN p.turn = {} /\ DOMAIN p.scene = {} /\ DOMAIN p.members = {} /\ DOMAIN p.neighbours = {}
    BY <1>1
  <2>2. Entities(p) = {}
    BY <2>1 DEF Entities
  <2>3. Cardinality(Entities(p)) <= w.maxEntities
    BY <2>2, FS_EmptySet
  <2> QED BY <2>1, <2>3 DEF IsClosed, p
<1>2. CASE /\ Cardinality(Entities(full)) <= w.maxEntities
           /\ p.turn = full.turn /\ p.scene = full.scene /\ p.members = full.members /\ p.neighbours = full.neighbours
  <2>1. Entities(p) = Entities(full)
    BY <1>2 DEF Entities
  <2>2. /\ DOMAIN full.members \cap DOMAIN full.neighbours = {}
        /\ \A f \in Parts(full) : \A e \in DOMAIN f : \A x \in f[e] : IsEntityReference(x[1]) => x[2] \in Entities(full)
    BY FinalizedIsClosed DEF full, Shown
  <2>3. \A f \in {p.turn, p.scene, p.members, p.neighbours} : \A e \in DOMAIN f : \A x \in f[e] :
           IsEntityReference(x[1]) => x[2] \in Entities(p)
    BY <1>2, <2>1, <2>2, Zenon DEF Parts
  <2> QED BY <1>2, <2>1, <2>2, <2>3 DEF IsClosed, p
<1> QED BY <1>1, <1>2, ProjectionByCases DEF p, full

(* Facts are pairs, and neither the turn, nor its scene, nor the bond it   *)
(* is asked with is a piece of evidence.                                   *)
Facts(g) == \A e \in DOMAIN g : \A x \in g[e] : x = <<x[1], x[2]>>
NoEvidence(w, a) ==
  LET evidence(e) == KindOf(w, e) = {"evidence"}
  IN ~evidence(a.turn) /\ ~evidence(Viewed(w, a).scene) /\ (a.purpose = "companion" => ~evidence(a.bond))

LEMMA ObjectsAreFacts ==
  ASSUME NEW g, Facts(g), NEW e \in DOMAIN g, NEW q, NEW v
  PROVE  v \in Objects(g[e], q) <=> <<q, v>> \in g[e]
<1>1. ASSUME v \in Objects(g[e], q) PROVE <<q, v>> \in g[e]
  <2>1. PICK x \in g[e] : x[1] = q /\ x[2] = v
    BY <1>1 DEF Objects
  <2>2. x = <<x[1], x[2]>>
    BY DEF Facts
  <2> QED BY <2>1, <2>2
<1>2. ASSUME <<q, v>> \in g[e] PROVE v \in Objects(g[e], q)
  BY <1>2 DEF Objects
<1> QED BY <1>1, <1>2

(* What projectKnowledge and projectRevelations find in the records is     *)
(* what the records say, the stale answers of the index notwithstanding.   *)
LEMMA KnownIsRecorded ==
  ASSUME NEW w, Facts(w.graph), NEW actor, knowledgeSound(w, actor), NEW e
  PROVE  e \in knownEvidence(w, actor) <=>
           \E k \in DOMAIN w.graph :
             {<<"entity.kind", "knowledge">>, <<"knowledge.holder", actor>>, <<"knowledge.evidence", e>>} \subseteq w.graph[k]
<1> DEFINE records == hydrateExtra(w, queryIDs(w, "knowledge.holder", actor))
<1>1. \A k \in records : k \in DOMAIN w.graph
  BY DEF hydrateExtra
<1>2. ASSUME e \in knownEvidence(w, actor)
      PROVE  \E k \in DOMAIN w.graph :
               {<<"entity.kind", "knowledge">>, <<"knowledge.holder", actor>>, <<"knowledge.evidence", e>>} \subseteq w.graph[k]
  <2>1. PICK k \in records : e \in Objects(w.graph[k], "knowledge.evidence")
    BY <1>2 DEF knownEvidence
  <2>2. "knowledge" \in Objects(w.graph[k], "entity.kind") /\ actor \in Objects(w.graph[k], "knowledge.holder")
    BY DEF knowledgeSound, requireEntityKind, KindOf
  <2>3. <<"entity.kind", "knowledge">> \in w.graph[k] /\ <<"knowledge.holder", actor>> \in w.graph[k]
    BY <1>1, <2>2, ObjectsAreFacts
  <2>4. <<"knowledge.evidence", e>> \in w.graph[k]
    BY <1>1, <2>1, ObjectsAreFacts
  <2> QED BY <1>1, <2>3, <2>4
<1>3. ASSUME NEW k \in DOMAIN w.graph, <<"knowledge.holder", actor>> \in w.graph[k], <<"knowledge.evidence", e>> \in w.graph[k]
      PROVE  e \in knownEvidence(w, actor)
  <2>1. k \in records
    BY <1>3 DEF hydrateExtra, queryIDs
  <2>2. e \in Objects(w.graph[k], "knowledge.evidence")
    BY <1>3, ObjectsAreFacts
  <2> QED BY <2>1, <2>2 DEF knownEvidence
<1> QED BY <1>2, <1>3

LEMMA RevealedIsRecorded ==
  ASSUME NEW w, Facts(w.graph), NEW actor, NEW turn, revelationsSound(w, turn), NEW e
  PROVE  e \in revealedEvidence(w, actor, turn) <=>
           \E r \in DOMAIN w.graph :
             {<<"revelation.turn", turn>>, <<"revelation.holder", actor>>, <<"revelation.evidence", e>>} \subseteq w.graph[r]
<1> DEFINE records == hydrateExtra(w, queryIDs(w, "revelation.turn", turn))
<1>1. \A r \in records : r \in DOMAIN w.graph
  BY DEF hydrateExtra
<1>2. ASSUME e \in revealedEvidence(w, actor, turn)
      PROVE  \E r \in DOMAIN w.graph :
               {<<"revelation.turn", turn>>, <<"revelation.holder", actor>>, <<"revelation.evidence", e>>} \subseteq w.graph[r]
  <2>1. PICK r \in records : <<"revelation.holder", actor>> \in w.graph[r] /\ e \in Objects(w.graph[r], "revelation.evidence")
    BY <1>2 DEF revealedEvidence
  <2>2. turn \in Objects(w.graph[r], "revelation.turn")
    BY DEF revelationsSound
  <2>3. <<"revelation.turn", turn>> \in w.graph[r] /\ <<"revelation.evidence", e>> \in w.graph[r]
    BY <1>1, <2>1, <2>2, ObjectsAreFacts
  <2> QED BY <1>1, <2>1, <2>3
<1>3. ASSUME NEW r \in DOMAIN w.graph, <<"revelation.turn", turn>> \in w.graph[r],
             <<"revelation.holder", actor>> \in w.graph[r], <<"revelation.evidence", e>> \in w.graph[r]
      PROVE  e \in revealedEvidence(w, actor, turn)
  <2>1. r \in records
    BY <1>3 DEF hydrateExtra, queryIDs
  <2>2. e \in Objects(w.graph[r], "revelation.evidence")
    BY <1>3, ObjectsAreFacts
  <2> QED BY <1>3, <2>1, <2>2 DEF revealedEvidence
<1> QED BY <1>2, <1>3

(* Of the audiences that are told evidence, each is told what its actor    *)
(* may learn of.                                                           *)
LEMMA ToldIsLearned ==
  ASSUME NEW w, Facts(w.graph), NEW a, NEW view, NEW members, Sound(w, a, view, members),
         a.purpose \in Ordinary \cup {"denouement"}
  PROVE  {e \in hydrateExtra(w, Tells(w, a, view)) : KindOf(w, e) = {"evidence"}} = MayLearn(w, a, authorizedActor(a, view))
<1> DEFINE actor == authorizedActor(a, view)
           known(e) == \E k \in DOMAIN w.graph :
             {<<"entity.kind", "knowledge">>, <<"knowledge.holder", actor>>, <<"knowledge.evidence", e>>} \subseteq w.graph[k]
           revealed(e) == \E r \in DOMAIN w.graph :
             {<<"revelation.turn", a.turn>>, <<"revelation.holder", actor>>, <<"revelation.evidence", e>>} \subseteq w.graph[r]
           shows == a.purpose \in {"player", "narrator", "denouement"}
           cites == a.purpose \in {"narrator", "denouement"}
<1> HIDE DEF actor
<1>1. \A e : e \in knownEvidence(w, actor) <=> known(e)
  <2>1. knowledgeSound(w, actor)
    BY DEF Sound, Ordinary, actor
  <2> QED BY <2>1, KnownIsRecorded
<1>2. shows => \A e : e \in revealedEvidence(w, actor, a.turn) <=> revealed(e)
  <2>1. shows => revelationsSound(w, a.turn)
    BY DEF Sound, actor
  <2> QED BY <2>1, RevealedIsRecorded
<1>3. \A e : e \in Tells(w, a, view) <=>
        \/ e \in knownEvidence(w, actor)
        \/ shows /\ e \in revealedEvidence(w, actor, a.turn)
        \/ cites /\ w.resolver /\ e \in w.cited
  BY DEF Tells, Ordinary, narrationEvidence, actor
<1>4. \A e : e \in MayLearn(w, a, actor) <=>
        /\ e \in DOMAIN w.graph /\ KindOf(w, e) = {"evidence"}
        /\ known(e) \/ (shows /\ revealed(e)) \/ (cites /\ w.resolver /\ e \in w.cited)
  BY Zenon DEF MayLearn
<1> HIDE DEF known, revealed, shows, cites
<1>5. \A e : e \in hydrateExtra(w, Tells(w, a, view)) <=> e \in DOMAIN w.graph /\ e \in Tells(w, a, view)
  BY DEF hydrateExtra
<1>6. \A e : (e \in hydrateExtra(w, Tells(w, a, view)) /\ KindOf(w, e) = {"evidence"}) <=> e \in MayLearn(w, a, actor)
  BY <1>1, <1>2, <1>3, <1>4, <1>5, Zenon
<1> QED BY <1>6 DEF actor

(* What is gathered for an audience other than the casekeeper: which       *)
(* entities it names, and predicates open to all of them.                  *)
Open == publicWorldPredicates \cup evidencePredicates \cup bondPredicates
OpenFacts(f) == \A e \in DOMAIN f : \A x \in f[e] : x[1] \in Open
Gathers(w, a, view, p) ==
  /\ \A e \in Entities(p) :
       \/ e \in {view.turn, view.scene} \/ publicEntityKind(w, e)
       \/ e \in hydrateExtra(w, Tells(w, a, view)) \/ (a.purpose = "companion" /\ e = a.bond)
  /\ hydrateExtra(w, Tells(w, a, view)) \subseteq Entities(p)
  /\ OpenFacts(p.members) /\ OpenFacts(p.neighbours)
LEMMA GatheredForTheOrdinary ==
  ASSUME NEW w, NEW a, NEW view, a.purpose # "casekeeper"
  PROVE  Gathers(w, a, view, Gathered(w, a, view))
<1> DEFINE base == publicProjection(w, view, a.purpose)
           told == projectTriples(w, hydrateExtra(w, Tells(w, a, view)), evidencePredicates)
           bond == projectTriples(w, {e \in {a.bond} : a.purpose = "companion"}, bondPredicates)
           state == projectTriples(w, IF a.purpose = "casekeeper" THEN casekeeperState(w, a.targets) ELSE {}, casekeeperPredicates)
           p == Gathered(w, a, view)
           public(es) == {e \in es : publicEntityKind(w, e)}
           turnPredicates == IF a.purpose \in {"narrator", "denouement"} THEN narrationTurnPredicates ELSE publicTurnPredicates
<1>1. p = [base EXCEPT !.neighbours = Over(state, Over(told, Over(bond, @)))]
  BY Zenon DEF Gathered
<1>2. base = [turn |-> projectTriples(w, {view.turn}, turnPredicates),
              scene |-> projectTriples(w, {view.scene}, publicWorldPredicates),
              members |-> projectTriples(w, public(view.members), publicWorldPredicates),
              neighbours |-> projectTriples(w, public(view.neighbours), publicWorldPredicates)]
  BY Zenon DEF publicProjection
<1>3. \A es, allowed : /\ DOMAIN projectTriples(w, es, allowed) = es
                       /\ \A e \in es : \A x \in projectTriples(w, es, allowed)[e] : x[1] \in allowed
  BY DEF projectTriples
<1>4. /\ DOMAIN told = hydrateExtra(w, Tells(w, a, view)) /\ DOMAIN bond = {e \in {a.bond} : a.purpose = "companion"}
      /\ DOMAIN state = {}
  BY <1>3
<1>5. OpenFacts(told) /\ OpenFacts(bond) /\ OpenFacts(state)
  <2>1. OpenFacts(told)
    BY <1>3, <1>4 DEF OpenFacts, Open
  <2>2. OpenFacts(bond)
    BY <1>3, <1>4 DEF OpenFacts, Open
  <2> HIDE DEF state
  <2>3. OpenFacts(state)
    BY <1>4 DEF OpenFacts
  <2> QED BY <2>1, <2>2, <2>3
<1> DEFINE bm == projectTriples(w, public(view.members), publicWorldPredicates)
           bn == projectTriples(w, public(view.neighbours), publicWorldPredicates)
           bt == projectTriples(w, {view.turn}, turnPredicates)
           bs == projectTriples(w, {view.scene}, publicWorldPredicates)
<1>6. /\ DOMAIN bt = {view.turn} /\ DOMAIN bs = {view.scene}
      /\ DOMAIN bm = public(view.members) /\ DOMAIN bn = public(view.neighbours)
      /\ OpenFacts(bm) /\ OpenFacts(bn)
  BY <1>3 DEF OpenFacts, Open
<1> HIDE DEF bm, bn, bt, bs, told, bond, state
<1>7. base.neighbours = bn
  BY <1>2 DEF bn
<1> DEFINE nb == Over(state, Over(told, Over(bond, bn)))
<1> HIDE DEF nb
<1>8. p.turn = bt /\ p.scene = bs /\ p.members = bm /\ p.neighbours = nb
  <2>1. base = [turn |-> bt, scene |-> bs, members |-> bm, neighbours |-> bn]
    BY <1>2 DEF bt, bs, bm, bn
  <2> HIDE DEF base, p
  <2>2. p = [base EXCEPT !.neighbours = nb]
    BY <1>1, <1>7 DEF nb
  <2> QED BY <2>1, <2>2
<1>9. \A f, h : OpenFacts(f) /\ OpenFacts(h) => OpenFacts(Over(f, h))
  BY DEF OpenFacts, Over
<1>10. \A f, h : DOMAIN Over(f, h) = DOMAIN f \cup DOMAIN h
  BY DEF Over
<1>11. OpenFacts(nb)
  BY <1>5, <1>6, <1>9 DEF nb
<1>12. DOMAIN nb = DOMAIN told \cup DOMAIN bond \cup DOMAIN bn
  <2>1. DOMAIN Over(bond, bn) = DOMAIN bond \cup DOMAIN bn
    BY <1>10
  <2>2. DOMAIN Over(told, Over(bond, bn)) = DOMAIN told \cup DOMAIN Over(bond, bn)
    BY <1>10
  <2>3. DOMAIN nb = DOMAIN state \cup DOMAIN Over(told, Over(bond, bn))
    BY <1>10 DEF nb
  <2>4. DOMAIN state = {}
    BY <1>4
  <2> QED BY <2>1, <2>2, <2>3, <2>4
<1>13. Entities(p) = {view.turn, view.scene} \cup public(view.members) \cup DOMAIN nb
  BY <1>6, <1>8 DEF Entities
<1> HIDE DEF p
<1>14. hydrateExtra(w, Tells(w, a, view)) \subseteq Entities(p)
  BY <1>4, <1>12, <1>13
<1>15. \A e \in Entities(p) :
         \/ e \in {view.turn, view.scene} \/ publicEntityKind(w, e)
         \/ e \in hydrateExtra(w, Tells(w, a, view)) \/ (a.purpose = "companion" /\ e = a.bond)
  BY <1>4, <1>6, <1>12, <1>13
<1>16. OpenFacts(p.members) /\ OpenFacts(p.neighbours)
  BY <1>6, <1>8, <1>11
<1> QED BY <1>14, <1>15, <1>16 DEF Gathers, p

(* epistemic.Projector.Project: whatever the graph and its index hold, an  *)
(* audience is told exactly the evidence its actor knows, was shown or     *)
(* hears cited, nothing private of it, and the solution goes to the        *)
(* verifier and to an authorized denouement alone.                         *)
THEOREM ProjectionsTellWhatIsAuthorized ==
  ASSUME NEW w, NEW a, Facts(w.graph), NoEvidence(w, a), Project(w, a).ok
  PROVE  TellsWhatIsAuthorized(w, a, Project(w, a))
<1> DEFINE p == Project(w, a)
           view == Viewed(w, a)
           full == Shown(w, a)
           raw == Gathered(w, a, view)
           told == hydrateExtra(w, Tells(w, a, view))
<1> HIDE DEF p, view, full, raw, told
<1>1. CASE a.purpose = "verifier"
  BY <1>1 DEF TellsWhatIsAuthorized, Ordinary, p
<1>2. CASE a.purpose # "verifier"
  <2>1. /\ validateAudience(w, a) /\ view.ok
        /\ p = [ok |-> TRUE, actor |-> authorizedActor(a, view),
                solution |-> IF a.purpose = "denouement" THEN solutionParts(w) ELSE {},
                turn |-> full.turn, scene |-> full.scene, members |-> full.members, neighbours |-> full.neighbours]
    BY <1>2, ProjectionByCases, Zenon DEF p, view, full
  <2>2. PICK members : Sound(w, a, view, members)
    BY <1>2, ProjectionByCases, Zenon DEF p, view, full
  <2>3. /\ p.actor = authorizedActor(a, view) /\ p.turn = full.turn /\ p.scene = full.scene
        /\ p.members = full.members /\ p.neighbours = full.neighbours
        /\ p.solution = IF a.purpose = "denouement" THEN solutionParts(w) ELSE {}
    BY <2>1
  <2>4. Entities(p) = Entities(raw) /\ Inside(p.members, raw.members) /\ Inside(p.neighbours, raw.neighbours)
    <3>1. Entities(full) = Entities(raw) /\ Inside(full.members, raw.members) /\ Inside(full.neighbours, raw.neighbours)
      BY FinalizedIsClosed DEF full, raw, Shown, view
    <3>2. Entities(p) = Entities(full)
      BY <2>3 DEF Entities
    <3> QED BY <2>3, <3>1, <3>2
  <2>5. view.turn = a.turn
    <3>1. Assembled(w.graph, w.index, a.turn, w.cap, view)
      BY <2>1, AssembledView DEF view, Viewed
    <3> QED BY <3>1 DEF Assembled
  <2>6. ASSUME a.purpose \in Ordinary \cup {"denouement"}
        PROVE  /\ {e \in Entities(p) : KindOf(w, e) = {"evidence"}} = MayLearn(w, a, p.actor)
               /\ \A f \in {p.members, p.neighbours} : \A e \in DOMAIN f : \A x \in f[e] :
                    x[1] \notin casekeeperPredicates \ evidencePredicates
    <3>1. Gathers(w, a, view, raw)
      BY <2>6, GatheredForTheOrdinary DEF raw, Ordinary
    <3>2. {e \in told : KindOf(w, e) = {"evidence"}} = MayLearn(w, a, p.actor)
      BY <2>2, <2>3, <2>6, ToldIsLearned, Zenon DEF told
    <3>3. \A e : publicEntityKind(w, e) => KindOf(w, e) # {"evidence"}
      BY DEF publicEntityKind
    <3>4. KindOf(w, view.turn) # {"evidence"} /\ KindOf(w, view.scene) # {"evidence"}
          /\ (a.purpose = "companion" => KindOf(w, a.bond) # {"evidence"})
      BY <2>5, Zenon DEF NoEvidence, view
    <3>5. {e \in Entities(p) : KindOf(w, e) = {"evidence"}} = {e \in told : KindOf(w, e) = {"evidence"}}
      BY <2>4, <3>1, <3>3, <3>4 DEF Gathers, told
    <3>6. \A q \in Open : q \notin casekeeperPredicates \ evidencePredicates
      BY DEF Open, casekeeperPredicates, evidencePredicates, publicWorldPredicates, bondPredicates
    <3>7. OpenFacts(p.members) /\ OpenFacts(p.neighbours)
      BY <2>4, <3>1 DEF Gathers, OpenFacts, Inside
    <3> QED BY <3>2, <3>5, <3>6, <3>7 DEF OpenFacts
  <2>7. ASSUME p.solution # {}
        PROVE  a.purpose = "denouement" /\ w.authorized /\ <<"case.phase", "denouement">> \in w.graph[w.case]
    <3>1. a.purpose = "denouement"
      BY <2>3, <2>7
    <3>2. authorizeDenouement(w)
      BY <2>2, <3>1 DEF Sound
    <3>3. w.case \in DOMAIN w.graph /\ "denouement" \in Objects(w.graph[w.case], "case.phase") /\ w.authorized
      BY <3>2 DEF authorizeDenouement, caseSound
    <3> QED BY <3>1, <3>3, ObjectsAreFacts
  <2> QED BY <2>6, <2>7, Zenon DEF TellsWhatIsAuthorized, p
<1> QED BY <1>1, <1>2

-----------------------------------------------------------------------------
(* The scenes of the run are such worlds.                                  *)

(* What the facts of those scenes say, and whom they speak of.             *)
Values1 == {"ball", "ann", "narrating"} \cup {"ref", "hall", "scene"} \cup {"text", "location", "player"}
Values2 == {"anne", "character", "butler"} \cup {"motive", "watson", "cellar"} \cup {"item", "evidence", "clue"}
Values3 == {"knowledge", "gone", "revelation"} \cup {"turn", "belief", "denies"} \cup {"companion-bond", "nudge", "case"}
Values4 == {"poison", "denouement", "accusation"} \cup {"known", "heard", "shown"} \cup {"held", "bond", "ghost"}
Vocabulary == Values1 \cup Values2 \cup Values3 \cup Values4
LEMMA VocabularyIsFinite == IsFiniteSet(Vocabulary)
<1>1. \A S, T : IsFiniteSet(S) /\ IsFiniteSet(T) => IsFiniteSet(S \cup T)
  BY FS_Union
<1>2. \A x, y, z : IsFiniteSet({x, y, z})
  BY AtMostThree
<1>3. IsFiniteSet(Values1)
  BY <1>1, <1>2 DEF Values1
<1>4. IsFiniteSet(Values2)
  BY <1>1, <1>2 DEF Values2
<1>5. IsFiniteSet(Values3)
  BY <1>1, <1>2 DEF Values3
<1>6. IsFiniteSet(Values4)
  BY <1>1, <1>2 DEF Values4
<1> QED BY <1>1, <1>3, <1>4, <1>5, <1>6 DEF Vocabulary

Says(S) == \A x \in S : x = <<x[1], x[2]>> /\ x[2] \in Vocabulary
LEMMA ScenesHoldFacts ==
  ASSUME NEW i \in Scenes
  PROVE  /\ DOMAIN GraphOf(i) \subseteq Vocabulary
         /\ \A e \in DOMAIN GraphOf(i) : Says(GraphOf(i)[e])
<1> DEFINE g == GraphOf(i)
<1>1. /\ i.clueInHall \in BOOLEAN /\ i.holder \in {"anne", "watson"} /\ i.learns \in {"clue", "motive", "gone"}
      /\ i.shownTo \in {"anne", "watson"} /\ i.solved \in BOOLEAN
  BY DEF Scenes
<1>2. \A q : \A v \in Vocabulary : Says({<<q, v>>})
  BY DEF Says
<1>3. \A S, T : Says(S) /\ Says(T) => Says(S \cup T)
  BY DEF Says
<1>4. \A k \in Vocabulary : Says(Kind(k))
  <2>1. "text" \in Vocabulary
    BY DEF Vocabulary, Values1
  <2> QED BY <2>1 DEF Says, Kind
<1>5. DOMAIN g = {"turn", "ball", "hall", "ann", "anne", "watson", "butler", "poison", "clue", "motive",
                  "known", "heard", "shown", "held", "bond", "case"}
  BY DEF GraphOf
<1> DEFINE V == Vocabulary
<1>6. /\ {"ball", "ann", "narrating", "ref", "hall", "scene", "text", "location", "player"} \subseteq V
      /\ {"anne", "character", "butler", "motive", "watson", "cellar", "item", "evidence", "clue"} \subseteq V
      /\ {"knowledge", "gone", "revelation", "turn", "belief", "denies", "companion-bond", "nudge", "case"} \subseteq V
      /\ {"poison", "denouement", "accusation", "known", "heard", "shown", "held", "bond", "ghost"} \subseteq V
  BY DEF Vocabulary, Values1, Values2, Values3, Values4
<1> HIDE DEF V
<1>7. Says(g["turn"])
  BY <1>6 DEF GraphOf, Says, V
<1>8. Says(g["ball"]) /\ Says(g["hall"]) /\ Says(g["ann"])
  BY <1>4, <1>6 DEF GraphOf, Says, V
<1>9. Says(g["anne"]) /\ Says(g["watson"]) /\ Says(g["butler"]) /\ Says(g["poison"])
  BY <1>4, <1>6 DEF GraphOf, Says, V
<1>10. Says(g["clue"]) /\ Says(g["motive"])
  BY <1>1, <1>4, <1>6 DEF GraphOf, Says, V
<1>11. Says(g["known"]) /\ Says(g["heard"]) /\ Says(g["shown"])
  BY <1>1, <1>4, <1>6 DEF GraphOf, Says, V
<1>12. Says(g["held"]) /\ Says(g["bond"])
  BY <1>4, <1>6 DEF GraphOf, Says, V
<1>13. Says(g["case"])
  BY <1>1, <1>4, <1>6 DEF GraphOf, Says, V
<1> HIDE DEF g
<1>14. \A e \in DOMAIN g : Says(g[e])
  BY <1>5, <1>7, <1>8, <1>9, <1>10, <1>11, <1>12, <1>13
<1>15. DOMAIN g \subseteq V
  BY <1>5, <1>6
<1> QED BY <1>14, <1>15 DEF V, g

LEMMA ScenesAreFinite ==
  ASSUME NEW i \in Scenes
  PROVE  /\ Facts(WorldOf(i).graph) /\ Finite(WorldOf(i).graph, WorldOf(i).index)
         /\ WorldOf(i).graph = GraphOf(i) /\ WorldOf(i).cap \in Nat /\ WorldOf(i).maxEntities \in Nat
<1> DEFINE w == WorldOf(i)
           g == GraphOf(i)
<1>1. w.graph = g /\ w.cap \in Nat /\ w.maxEntities \in Nat
  BY DEF WorldOf
<1>2. w.index = {x \in Here(g, "hall") : x[1] = "anne" => i.present} \cup {x \in {<<"ghost", "world.location", "hall">>} : i.ghost}
  BY DEF WorldOf
<1>3. DOMAIN g \subseteq Vocabulary /\ \A e \in DOMAIN g : Says(g[e])
  BY ScenesHoldFacts
<1> HIDE DEF w, g
<1>4. \A x \in w.index : x[1] \in Vocabulary
  <2>1. \A x \in Here(g, "hall") : x[1] \in DOMAIN g
    BY DEF Here
  <2>2. "ghost" \in Vocabulary
    BY DEF Vocabulary, Values4
  <2> QED BY <1>2, <1>3, <2>1, <2>2
<1>5. \A e \in DOMAIN g : \A x \in g[e] : x = <<x[1], x[2]>> /\ x[2] \in Vocabulary
  BY <1>3 DEF Says
<1>6. Facts(w.graph)
  BY <1>1, <1>5 DEF Facts
<1>7. Finite(w.graph, w.index)
  BY <1>1, <1>4, <1>5, VocabularyIsFinite DEF Finite
<1> QED BY <1>1, <1>6, <1>7 DEF w, g

LEMMA ScenesAreNoEvidence ==
  ASSUME NEW i \in Scenes, Project(WorldOf(i), AudienceOf(i)).ok, i.purpose # "verifier"
  PROVE  NoEvidence(WorldOf(i), AudienceOf(i))
<1> DEFINE w == WorldOf(i)
           a == AudienceOf(i)
           g == GraphOf(i)
           view == Viewed(w, a)
<1>1. w.graph = g /\ Facts(g)
  BY ScenesAreFinite
<1>2. a.turn = "turn" /\ a.bond = "bond" /\ a.purpose = i.purpose
  BY DEF AudienceOf
<1>3. {"turn", "ball", "bond"} \subseteq DOMAIN g
  BY DEF GraphOf
<1>4. g["turn"] = {<<"turn.scene", "ball">>, <<"turn.player", "ann">>, <<"turn.phase", "narrating">>, <<"turn.companion-ref", "ref">>}
  BY DEF GraphOf
<1>5. <<"entity.kind", "scene">> \in g["ball"] /\ <<"entity.kind", "companion-bond">> \in g["bond"]
  BY DEF GraphOf, Kind
<1>6. view.ok
  <2> HIDE DEF w, a
  <2> QED BY <1>2, ProjectionByCases DEF view, w, a
<1> HIDE DEF w, a, g, view
<1>7. view.scene \in Objects(project(g, "turn"), "turn.scene")
  <2>1. Assembled(w.graph, w.index, a.turn, w.cap, view)
    BY <1>6, AssembledView DEF view, Viewed
  <2> QED BY <1>1, <1>2, <2>1 DEF Assembled
<1>8. view.scene = "ball"
  BY <1>4, <1>7 DEF Objects, project
<1>9. "evidence" \notin KindOf(w, "turn")
  BY <1>1, <1>4 DEF KindOf, Objects
<1>10. "scene" \in KindOf(w, "ball") /\ "companion-bond" \in KindOf(w, "bond")
  BY <1>1, <1>3, <1>5, ObjectsAreFacts DEF KindOf
<1>11. KindOf(w, "turn") # {"evidence"} /\ KindOf(w, "ball") # {"evidence"} /\ KindOf(w, "bond") # {"evidence"}
  BY <1>9, <1>10
<1> QED BY <1>2, <1>8, <1>11 DEF NoEvidence, w, a, view

(* The input of the run is of the kind it says.                            *)
InScenes == input.about = "scene" => input \in Scenes
LEMMA InputsAreScenes == Spec => []InScenes
<1>1. Init => InScenes
  BY DEF Init, InScenes
<1>2. InScenes /\ [Next]_vars => InScenes'
  BY DEF InScenes, Next, vars, PickScene, PickRule, PickPackage, PickWorldRule, Rules, Packages, WorldRules
<1> QED BY <1>1, <1>2, PTL DEF Spec

(* scene.Assembler.Assemble, on the scenes of the run: every view that is  *)
(* handed out is whole, ghosts of the index and a tight cap included.      *)
THEOREM ViewsOfTheRun == Spec => []ViewsAreWhole
<1>1. ASSUME InScenes PROVE ViewsAreWhole
  <2> SUFFICES ASSUME input \in Scenes, Assemble(WorldOf(input).graph, WorldOf(input).index, "turn", WorldOf(input).cap).ok
               PROVE  ViewIsWhole(WorldOf(input).graph,
                                  Assemble(WorldOf(input).graph, WorldOf(input).index, "turn", WorldOf(input).cap), WorldOf(input).cap)
    BY <1>1, Zenon DEF InScenes, ViewsAreWhole
  <2> QED BY ScenesAreFinite, AssembledViewsAreWhole
<1> QED BY <1>1, InputsAreScenes, PTL

(* epistemic.Projector.Project, on the scenes of the run: every audience   *)
(* is told what it may be told, and nothing it is shown dangles.           *)
THEOREM ProjectionsOfTheRun == Spec => []ProjectionsAreAuthorized
<1>1. ASSUME InScenes PROVE ProjectionsAreAuthorized
  <2> DEFINE w == WorldOf(input)
             a == AudienceOf(input)
  <2> SUFFICES ASSUME input \in Scenes, Project(w, a).ok
               PROVE  TellsWhatIsAuthorized(w, a, Project(w, a)) /\ IsClosed(w, Project(w, a))
    BY <1>1, Zenon DEF InScenes, ProjectionsAreAuthorized
  <2>1. Facts(w.graph) /\ w.maxEntities \in Nat
    BY ScenesAreFinite
  <2>2. IsClosed(w, Project(w, a))
    BY <2>1, ProjectionsAreClosed
  <2>3. CASE input.purpose # "verifier"
    BY <2>1, <2>2, <2>3, ScenesAreNoEvidence, ProjectionsTellWhatIsAuthorized
  <2>4. CASE input.purpose = "verifier"
    <3>1. a.purpose = "verifier"
      BY <2>4 DEF AudienceOf
    <3> QED BY <2>2, <3>1 DEF TellsWhatIsAuthorized, Ordinary
  <2> QED BY <2>2, <2>3, <2>4
<1> QED BY <1>1, InputsAreScenes, PTL

-----------------------------------------------------------------------------
(* Accepted packages.  A timeline is sorted, whatever its length, which    *)
(* takes an induction: the library's theorems on induction have an         *)
(* operator for a parameter, so it is stated here with a set.              *)

LEMMA LessThan ==
  ASSUME NEW x \in Nat, NEW y \in Nat, x < y
  PROVE  <<x, y>> \in OpToRel(<, Nat)
  BY DEF OpToRel

(* Every set of naturals but the empty one has a least.                    *)
LEMMA LeastNumber ==
  ASSUME NEW T, T \subseteq Nat, T # {}
  PROVE  \E n \in T : \A m \in T : n <= m
<1>1. PICK n \in T : \A m \in T : ~(<<m, n>> \in OpToRel(<, Nat))
  BY WFMin, NatLessThanWellFounded
<1>2. \A m \in T : ~(m < n)
  BY <1>1, LessThan
<1> QED BY <1>2

LEMMA ByInduction ==
  ASSUME NEW S, 0 \in S, \A n \in Nat : n \in S => n + 1 \in S
  PROVE  Nat \subseteq S
<1> SUFFICES ASSUME Nat \ S # {} PROVE FALSE
  OBVIOUS
<1>1. PICK n \in Nat \ S : \A m \in Nat \ S : n <= m
  BY LeastNumber
<1>2. n # 0 /\ n - 1 \in Nat /\ n = (n - 1) + 1
  BY <1>1
<1>3. n - 1 \in S
  BY <1>1, <1>2
<1> QED BY <1>1, <1>2, <1>3

(* A finite set of events can be put in the order of their numbers.        *)
Enumerates(s, S, k) == s \in [1 .. k -> S] /\ {s[i] : i \in DOMAIN s} = S
Ascends(s, f) == \A i, j \in DOMAIN s : i < j => f[s[i]] <= f[s[j]]

LEMMA InsertedInOrder ==
  ASSUME NEW S, NEW e, NEW k \in Nat, NEW f \in [S \cup {e} -> Int], NEW s, Enumerates(s, S, k), Ascends(s, f)
  PROVE  \E t : Enumerates(t, S \cup {e}, k + 1) /\ Ascends(t, f)
<1> DEFINE above == {i \in 1 .. k + 1 : i = k + 1 \/ f[s[i]] > f[e]}
<1>1. PICK m \in above : \A i \in above : m <= i
  <2>1. k + 1 \in above /\ above \subseteq Nat
    OBVIOUS
  <2> QED BY <2>1, LeastNumber
<1> DEFINE t == [i \in 1 .. k + 1 |-> IF i < m THEN s[i] ELSE IF i = m THEN e ELSE s[i - 1]]
<1>2. s \in [1 .. k -> S] /\ {s[i] : i \in 1 .. k} = S
  BY DEF Enumerates
<1>3. m \in 1 .. k + 1
  BY <1>1
<1>4. t \in [1 .. k + 1 -> S \cup {e}]
  BY <1>2, <1>3
<1>5. {t[i] : i \in 1 .. k + 1} = S \cup {e}
  <2>1. ASSUME NEW x \in S PROVE \E i \in 1 .. k + 1 : t[i] = x
    <3>1. PICK j \in 1 .. k : s[j] = x
      BY <1>2
    <3>2. CASE j < m
      BY <3>1, <3>2
    <3>3. CASE ~(j < m)
      <4>1. j + 1 \in 1 .. k + 1 /\ ~(j + 1 < m) /\ j + 1 # m /\ (j + 1) - 1 = j
        BY <1>3, <3>1, <3>3
      <4> QED BY <3>1, <4>1
    <3> QED BY <3>2, <3>3
  <2>2. t[m] = e
    BY <1>3
  <2> HIDE DEF t
  <2> QED BY <1>3, <1>4, <2>1, <2>2
<1>6. ASSUME NEW i \in 1 .. k + 1, NEW j \in 1 .. k + 1, i < j PROVE f[t[i]] <= f[t[j]]
  <2>1. \A n \in 1 .. k : n < m => f[s[n]] <= f[e]
    BY <1>1, <1>2, <1>3
  <2>2. \A n \in 1 .. k : m <= n => f[e] <= f[s[n]]
    <3>1. CASE m = k + 1
      BY <3>1
    <3>2. CASE m \in 1 .. k
      <4>1. f[s[m]] > f[e]
        BY <1>1, <3>2
      <4>2. \A n \in 1 .. k : m < n => f[s[m]] <= f[s[n]]
        BY <1>2, <3>2 DEF Ascends
      <4>3. \A n \in 1 .. k : f[s[n]] \in Int
        BY <1>2
      <4> QED BY <3>2, <4>1, <4>2, <4>3
    <3> QED BY <1>3, <3>1, <3>2
  <2>3. \A a, b \in 1 .. k : a < b => f[s[a]] <= f[s[b]]
    BY <1>2 DEF Ascends
  <2>4. f[e] \in Int
    OBVIOUS
  <2>5. CASE j < m
    <3>1. t[i] = s[i] /\ t[j] = s[j] /\ i \in 1 .. k /\ j \in 1 .. k
      BY <1>3, <1>6, <2>5
    <3> QED BY <1>6, <2>3, <3>1
  <2>6. CASE j = m
    <3>1. t[i] = s[i] /\ t[j] = e /\ i \in 1 .. k /\ i < m
      BY <1>3, <1>6, <2>6
    <3> QED BY <2>1, <3>1
  <2>7. CASE j > m
    <3>1. t[j] = s[j - 1] /\ j - 1 \in 1 .. k
      BY <1>3, <2>7
    <3>2. CASE i < m
      <4>1. t[i] = s[i] /\ i \in 1 .. k /\ i < j - 1
        BY <1>3, <2>7, <3>2
      <4> QED BY <2>3, <3>1, <4>1
    <3>3. CASE i = m
      <4>1. t[i] = e /\ m <= j - 1
        BY <1>3, <2>7, <3>3
      <4> QED BY <2>2, <3>1, <4>1
    <3>4. CASE i > m
      <4>1. t[i] = s[i - 1] /\ i - 1 \in 1 .. k /\ i - 1 < j - 1
        BY <1>3, <1>6, <3>4
      <4> QED BY <2>3, <3>1, <4>1
    <3> QED BY <1>3, <3>2, <3>3, <3>4
  <2> QED BY <1>3, <2>5, <2>6, <2>7
<1>7. DOMAIN t = 1 .. k + 1
  OBVIOUS
<1> HIDE DEF t
<1>8. Enumerates(t, S \cup {e}, k + 1)
  BY <1>4, <1>5, <1>7 DEF Enumerates
<1>9. Ascends(t, f)
  BY <1>6, <1>7 DEF Ascends
<1> QED BY <1>8, <1>9

LEMMA SetsCanBeSorted ==
  ASSUME NEW U, NEW f \in [U -> Int], IsFiniteSet(U)
  PROVE  \E s : Enumerates(s, U, Cardinality(U)) /\ Ascends(s, f)
<1> DEFINE good == {k \in Nat : \A S \in SUBSET U : Cardinality(S) = k => \E s : Enumerates(s, S, k) /\ Ascends(s, f)}
<1>1. 0 \in good
  <2> SUFFICES ASSUME NEW S \in SUBSET U, Cardinality(S) = 0
               PROVE  \E s : Enumerates(s, S, 0) /\ Ascends(s, f)
    OBVIOUS
  <2>1. S = {}
    BY FS_Subset, FS_EmptySet
  <2> DEFINE s == [i \in 1 .. 0 |-> i]
  <2>2. s \in [1 .. 0 -> {}] /\ DOMAIN s = {}
    OBVIOUS
  <2> HIDE DEF s
  <2>3. Enumerates(s, S, 0) /\ Ascends(s, f)
    BY <2>1, <2>2 DEF Enumerates, Ascends
  <2> QED BY <2>3
<1>2. ASSUME NEW k \in Nat, k \in good PROVE k + 1 \in good
  <2> SUFFICES ASSUME NEW S \in SUBSET U, Cardinality(S) = k + 1
               PROVE  \E s : Enumerates(s, S, k + 1) /\ Ascends(s, f)
    OBVIOUS
  <2>1. IsFiniteSet(S) /\ S # {}
    BY FS_Subset, FS_EmptySet
  <2>2. PICK e \in S : TRUE
    BY <2>1
  <2>3. S \ {e} \in SUBSET U /\ Cardinality(S \ {e}) = k
    <3>1. Cardinality(S \ {e}) = Cardinality(S) - 1
      BY <2>1, <2>2, FS_RemoveElement
    <3> QED BY <3>1
  <2>4. PICK s : Enumerates(s, S \ {e}, k) /\ Ascends(s, f)
    BY <1>2, <2>3
  <2> DEFINE h == [x \in S |-> f[x]]
  <2>5. h \in [(S \ {e}) \cup {e} -> Int] /\ (S \ {e}) \cup {e} = S
    BY <2>2
  <2>6. \A x \in S : h[x] = f[x]
    OBVIOUS
  <2> HIDE DEF h
  <2>7. Ascends(s, h)
    <3>1. s \in [1 .. k -> S \ {e}]
      BY <2>4 DEF Enumerates
    <3>2. \A i \in DOMAIN s : h[s[i]] = f[s[i]]
      BY <2>6, <3>1
    <3> QED BY <2>4, <3>2 DEF Ascends
  <2>8. PICK t : Enumerates(t, (S \ {e}) \cup {e}, k + 1) /\ Ascends(t, h)
    BY <2>4, <2>5, <2>7, InsertedInOrder
  <2>9. Enumerates(t, S, k + 1)
    BY <2>5, <2>8
  <2>10. Ascends(t, f)
    BY <2>6, <2>8, <2>9 DEF Ascends, Enumerates
  <2> QED BY <2>9, <2>10
<1> HIDE DEF good
<1>3. Nat \subseteq good
  BY <1>1, <1>2, ByInduction
<1>4. Cardinality(U) \in good
  BY <1>3, FS_CardinalityType
<1> QED BY <1>4 DEF good

(* A package as the loader parses it: an entity has a finite sequence of   *)
(* facts, an integer is one, and the kind is no fact of an author's.       *)
IsPackage(pkg) ==
  \A id \in DOMAIN pkg :
    /\ \E n \in Nat : DOMAIN pkg[id].facts = 1 .. n
    /\ \A i \in DOMAIN pkg[id].facts :
         /\ pkg[id].facts[i].type = "int" => pkg[id].facts[i].v \in Int
         /\ pkg[id].facts[i].p # "entity.kind"

LEMMA ValuesAreFinite ==
  ASSUME NEW pkg, IsPackage(pkg), NEW id \in DOMAIN pkg, NEW p
  PROVE  IsFiniteSet(W!Values(pkg[id], p))
<1> DEFINE e == pkg[id]
           S == W!factsFor(e, p)
           T == W!Values(e, p)
           f == [i \in S |-> e.facts[i].v]
<1>1. PICK n \in Nat : DOMAIN e.facts = 1 .. n
  BY DEF IsPackage
<1>2. IsFiniteSet(S)
  <2>1. S \in SUBSET (1 .. n)
    BY <1>1 DEF W!factsFor
  <2>2. IsFiniteSet(1 .. n)
    BY FS_Interval
  <2> QED BY <2>1, <2>2, FS_Subset
<1>3. T = {e.facts[i].v : i \in S}
  BY DEF W!Values
<1> HIDE DEF e, S, T
<1>4. f \in Surjection(S, T)
  <2>1. f \in [S -> T] /\ \A t \in T : \E i \in S : f[i] = t
    BY <1>3
  <2> QED BY <2>1 DEF Surjection
<1>5. IsFiniteSet(T)
  BY <1>2, <1>4, FS_Surjection
<1> QED BY <1>5 DEF T, e

(* Counting is the same in each module.                                    *)
LEMMA CountedAlike == \A S : W!Cardinality(S) = Cardinality(S)
  BY Zenon DEF Cardinality, W!Cardinality

(* A field with exactly one value.                                         *)
LEMMA ExactlyOneValue ==
  ASSUME NEW e, NEW p, NEW type, W!exactlyOne(e, p, type)
  PROVE  /\ W!Values(e, p) = {W!The(e, p)}
         /\ \A i \in W!factsFor(e, p) : e.facts[i].type = type /\ e.facts[i].v = W!The(e, p)
<1>1. PICK i \in DOMAIN e.facts : W!factsFor(e, p) = {i} /\ e.facts[i].type = type
  BY DEF W!exactlyOne
<1>2. W!Values(e, p) = {e.facts[i].v}
  BY <1>1 DEF W!Values
<1>3. W!The(e, p) = e.facts[i].v
  BY <1>2 DEF W!The
<1> QED BY <1>1, <1>2, <1>3

(* validateMysteryTimeline: sorted, counting from one, is an order without *)
(* gap or tie, however many the events.                                    *)
LEMMA TimelineIsAnOrder ==
  ASSUME NEW pkg, IsPackage(pkg), NEW events, events \subseteq DOMAIN pkg, IsFiniteSet(events),
         W!validateMysteryTimeline(pkg, events)
  PROVE  W!IsAnOrder(pkg, events)
<1> DEFINE n == W!Cardinality(events)
           order(e) == W!The(pkg[e], "timeline.order")
           Good(s) == /\ {s[i] : i \in DOMAIN s} = events
                      /\ \A i, j \in DOMAIN s : i < j => order(s[i]) <= order(s[j])
           sorted == CHOOSE s \in [1 .. n -> events] : Good(s)
           place == [e \in events |-> order(e)]
<1>1. \A e \in events : W!exactlyOneInt(pkg[e], "timeline.order")
  BY Zenon DEF W!validateMysteryTimeline
<1>2. \A i \in DOMAIN sorted : order(sorted[i]) = i
  BY Zenon DEF W!validateMysteryTimeline
<1>3. \A e \in events : W!Values(pkg[e], "timeline.order") = {order(e)}
  BY <1>1, ExactlyOneValue DEF W!exactlyOneInt
<1>4. \A e \in events : order(e) \in Int
  <2> SUFFICES ASSUME NEW e \in events PROVE order(e) \in Int
    OBVIOUS
  <2>1. PICK i \in DOMAIN pkg[e].facts : W!factsFor(pkg[e], "timeline.order") = {i} /\ pkg[e].facts[i].type = "int"
    BY <1>1 DEF W!exactlyOneInt, W!exactlyOne
  <2>2. pkg[e].facts[i].v = order(e)
    BY <1>1, <2>1, ExactlyOneValue DEF W!exactlyOneInt
  <2>3. pkg[e].facts[i].v \in Int
    BY <2>1 DEF IsPackage
  <2> QED BY <2>2, <2>3
<1> HIDE DEF order
<1>5. place \in [events -> Int] /\ \A e \in events : place[e] = order(e)
  BY <1>4
<1> HIDE DEF place
<1>6. \E s \in [1 .. n -> events] : Good(s)
  <2>1. PICK s : Enumerates(s, events, n) /\ Ascends(s, place)
    BY <1>5, SetsCanBeSorted, CountedAlike
  <2>2. s \in [1 .. n -> events]
    BY <2>1 DEF Enumerates
  <2>3. Good(s)
    BY <1>5, <2>1, <2>2 DEF Enumerates, Ascends
  <2> QED BY <2>2, <2>3
<1> HIDE DEF Good
<1>7. sorted \in [1 .. n -> events] /\ Good(sorted)
  BY <1>6
<1> HIDE DEF sorted
<1>8. {sorted[i] : i \in 1 .. n} = events
  BY <1>7 DEF Good
<1>9. \A e \in events : \E i \in 1 .. n : sorted[i] = e /\ place[e] = i
  BY <1>2, <1>5, <1>7, <1>8
<1>10. place \in [events -> 1 .. n]
  BY <1>5, <1>9
<1>11. \A e, f \in events : e # f => place[e] # place[f]
  BY <1>9
<1>12. \A e \in events : W!Values(pkg[e], "timeline.order") = {place[e]}
  BY <1>3, <1>5
<1> QED BY <1>10, <1>11, <1>12 DEF W!IsAnOrder

(* The campaign has room: its entities and what they refer to are few.     *)
Small(pkg, names) ==
  /\ IsFiniteSet(names) /\ Cardinality(names) <= 30
  /\ DOMAIN pkg \cup {"ann", "turn"} \subseteq names
  /\ \A id \in DOMAIN pkg : \A p : IsRelationship(p) => W!Values(pkg[id], p) \subseteq names

(* It begins with the player's character standing where its first scene    *)
(* is laid, as a campaign's instance says.                                 *)
Begins(pkg) ==
  /\ {"ball", "anne", "case"} \subseteq DOMAIN pkg /\ {"ann", "turn"} \cap DOMAIN pkg = {}
  /\ pkg["ball"].kind = "scene" /\ pkg["anne"].kind = "character" /\ pkg["case"].kind = "case"
  /\ W!Values(pkg["anne"], "world.location") = W!Values(pkg["ball"], "scene.location")

(* What a package says of an entity is what the campaign's graph holds.    *)
LEMMA TriplesOfFacts ==
  ASSUME NEW pkg, IsPackage(pkg), NEW id \in DOMAIN pkg
  PROVE  /\ Objects(Triples(pkg[id]), "entity.kind") = {pkg[id].kind}
         /\ \A p : p # "entity.kind" => Objects(Triples(pkg[id]), p) \subseteq W!Values(pkg[id], p)
         /\ \A p : /\ p # "entity.kind"
                   /\ \A i \in W!factsFor(pkg[id], p) : pkg[id].facts[i].type # "int"
                   => Objects(Triples(pkg[id]), p) = W!Values(pkg[id], p)
<1> DEFINE e == pkg[id]
           ks == {n \in DOMAIN e.facts : e.facts[n].type # "int"}
           authored == {<<e.facts[k].p, e.facts[k].v>> : k \in ks}
<1>1. Triples(e) = {<<"entity.kind", e.kind>>} \cup authored
  BY DEF Triples
<1>2. \A i \in DOMAIN e.facts : e.facts[i].p # "entity.kind"
  BY DEF IsPackage
<1> HIDE DEF e
<1>3. \A p, v : v \in Objects(Triples(e), p) <=> \E y \in Triples(e) : y[1] = p /\ v = y[2]
  BY DEF Objects
<1> HIDE DEF authored
<1>4. Objects(Triples(e), "entity.kind") = {e.kind}
  <2>1. \A y \in authored : y[1] # "entity.kind"
    BY <1>2 DEF authored
  <2>2. \A y \in Triples(e) : y[1] = "entity.kind" => y[2] = e.kind
    BY <1>1, <2>1
  <2>3. \E y \in Triples(e) : y[1] = "entity.kind" /\ y[2] = e.kind
    <3>1. <<"entity.kind", e.kind>> \in Triples(e)
      BY <1>1
    <3> WITNESS <<"entity.kind", e.kind>> \in Triples(e)
    <3> QED OBVIOUS
  <2> QED BY <1>3, <2>2, <2>3
<1>5. ASSUME NEW p, p # "entity.kind"
      PROVE  Objects(Triples(e), p) = {e.facts[k].v : k \in {n \in W!factsFor(e, p) : e.facts[n].type # "int"}}
  <2>1. \A y \in Triples(e) : y[1] = p => \E k \in ks : y[2] = e.facts[k].v /\ e.facts[k].p = p
    BY <1>1, <1>5 DEF authored
  <2>2. \A k \in ks : e.facts[k].p = p => \E y \in Triples(e) : y[1] = p /\ e.facts[k].v = y[2]
    <3> SUFFICES ASSUME NEW k \in ks, e.facts[k].p = p PROVE \E y \in Triples(e) : y[1] = p /\ e.facts[k].v = y[2]
      OBVIOUS
    <3>1. <<e.facts[k].p, e.facts[k].v>> \in Triples(e)
      BY <1>1 DEF authored
    <3> WITNESS <<e.facts[k].p, e.facts[k].v>> \in Triples(e)
    <3> QED OBVIOUS
  <2>3. \A v : v \in Objects(Triples(e), p) <=> \E k \in ks : v = e.facts[k].v /\ e.facts[k].p = p
    BY <1>3, <2>1, <2>2
  <2> QED BY <2>3 DEF W!factsFor
<1>6. \A p : p # "entity.kind" => Objects(Triples(e), p) \subseteq W!Values(e, p)
  BY <1>5 DEF W!Values
<1>7. \A p : /\ p # "entity.kind"
             /\ \A i \in W!factsFor(e, p) : e.facts[i].type # "int"
             => Objects(Triples(e), p) = W!Values(e, p)
  BY <1>5 DEF W!Values
<1> QED BY <1>4, <1>6, <1>7 DEF e

(* The graph a campaign starts with.                                       *)
Believers(pkg) == UNION {W!Values(pkg[b], "belief.holder") : b \in W!OfKind(pkg, "belief")}
Told(pkg, x) == {b \in W!OfKind(pkg, "belief") : x \in W!Values(pkg[b], "belief.holder")}
StartsAs(pkg, w) ==
  /\ DOMAIN w.graph = DOMAIN pkg \cup {"ann", "turn"}
  /\ w.graph["ann"] = {<<"entity.kind", "player">>, <<"player.character", "anne">>}
  /\ w.graph["turn"] = {<<"turn.scene", "ball">>, <<"turn.player", "ann">>}
  /\ \A id \in DOMAIN pkg : w.graph[id] = Triples(pkg[id])
  /\ w.index = UNION {Here(w.graph, place) : place \in W!OfKind(pkg, "location")}
  /\ DOMAIN w.beliefs = Believers(pkg) /\ \A x \in Believers(pkg) : w.beliefs[x] = Told(pkg, x)
  /\ w.case = "case" /\ w.cap = 64 /\ w.maxSupplemental = 32 /\ w.maxEntities = 96
LEMMA CampaignStarts ==
  ASSUME NEW pkg, {"ann", "turn"} \cap DOMAIN pkg = {}
  PROVE  StartsAs(pkg, Campaign(pkg))
<1> DEFINE g == [id \in DOMAIN pkg \cup {"ann", "turn"} |->
                   CASE id = "ann"  -> {<<"entity.kind", "player">>, <<"player.character", "anne">>}
                     [] id = "turn" -> {<<"turn.scene", "ball">>, <<"turn.player", "ann">>}
                     [] OTHER       -> Triples(pkg[id])]
           index == UNION {Here(g, place) : place \in W!OfKind(pkg, "location")}
           beliefs == [x \in Believers(pkg) |-> Told(pkg, x)]
           w == Campaign(pkg)
<1>1. w = [graph |-> g, index |-> index, stale |-> {}, case |-> "case", beliefs |-> beliefs, resolver |-> TRUE,
           cited |-> {}, authorized |-> FALSE, bonded |-> FALSE, cap |-> 64, maxSupplemental |-> 32, maxEntities |-> 96]
  BY Zenon DEF Campaign, Believers, Told
<1> HIDE DEF g, index, beliefs, w
<1>2. /\ w.graph = g /\ w.index = index /\ w.beliefs = beliefs
      /\ w.case = "case" /\ w.cap = 64 /\ w.maxSupplemental = 32 /\ w.maxEntities = 96
  BY <1>1
<1>3. /\ DOMAIN g = DOMAIN pkg \cup {"ann", "turn"}
      /\ g["ann"] = {<<"entity.kind", "player">>, <<"player.character", "anne">>}
      /\ g["turn"] = {<<"turn.scene", "ball">>, <<"turn.player", "ann">>}
      /\ \A id \in DOMAIN pkg : g[id] = Triples(pkg[id])
  <2> HIDE DEF Triples
  <2>1. DOMAIN g = DOMAIN pkg \cup {"ann", "turn"}
    BY DEF g
  <2>2. g["ann"] = {<<"entity.kind", "player">>, <<"player.character", "anne">>}
    BY DEF g
  <2>3. g["turn"] = {<<"turn.scene", "ball">>, <<"turn.player", "ann">>}
    BY DEF g
  <2>4. \A id \in DOMAIN pkg : id # "ann" /\ id # "turn"
    OBVIOUS
  <2>5. \A id \in DOMAIN pkg : g[id] = Triples(pkg[id])
    BY <2>4 DEF g
  <2> QED BY <2>1, <2>2, <2>3, <2>5
<1>4. DOMAIN beliefs = Believers(pkg) /\ \A x \in Believers(pkg) : beliefs[x] = Told(pkg, x)
  BY DEF beliefs
<1> QED BY <1>2, <1>3, <1>4 DEF StartsAs, index, w

LEMMA NamedInCampaign ==
  ASSUME NEW pkg, NEW w, NEW names, IsPackage(pkg), Begins(pkg), Small(pkg, names), StartsAs(pkg, w)
  PROVE  /\ DOMAIN w.graph \subseteq names
         /\ \A e \in DOMAIN w.graph : Targets(project(w.graph, e)) \subseteq names
         /\ \A x \in w.index : x[1] \in names
<1> DEFINE g == w.graph
<1>1. DOMAIN g \subseteq names
  BY DEF Small, StartsAs
<1>2. ASSUME NEW e \in DOMAIN g PROVE Targets(project(g, e)) \subseteq names
  <2> SUFFICES ASSUME NEW x \in g[e], IsRelationship(x[1]) PROVE x[2] \in names
    BY DEF Targets, project
  <2>1. CASE e = "ann"
    <3>1. x = <<"entity.kind", "player">> \/ x = <<"player.character", "anne">>
      BY <2>1 DEF StartsAs
    <3>2. x[2] = "anne"
      BY <3>1 DEF IsRelationship, IsEntityReference
    <3> QED BY <3>2 DEF Begins, Small
  <2>2. CASE e = "turn"
    <3>1. x[2] \in {"ball", "ann"}
      BY <2>2 DEF StartsAs
    <3> QED BY <3>1 DEF Begins, Small
  <2>3. CASE e \in DOMAIN pkg
    <3>1. x \in Triples(pkg[e])
      BY <2>3 DEF StartsAs
    <3>2. x[2] \in Objects(Triples(pkg[e]), x[1])
      BY <3>1 DEF Objects
    <3>3. x[1] # "entity.kind"
      BY DEF IsRelationship, IsEntityReference
    <3>4. x[2] \in W!Values(pkg[e], x[1])
      BY <2>3, <3>2, <3>3, TriplesOfFacts
    <3> QED BY <2>3, <3>4 DEF Small
  <2> QED BY <2>1, <2>2, <2>3 DEF StartsAs
<1>3. ASSUME NEW x \in w.index PROVE x[1] \in names
  <2>1. PICK place : x \in Here(g, place)
    BY DEF StartsAs
  <2>2. x[1] \in DOMAIN g
    BY <2>1 DEF Here
  <2> QED BY <1>1, <2>2
<1> QED BY <1>1, <1>2, <1>3

(* What is asked of the graph of a campaign, of an entity of its package.  *)
LEMMA AskedOfCampaign ==
  ASSUME NEW pkg, NEW w, IsPackage(pkg), StartsAs(pkg, w), NEW id \in DOMAIN pkg, NEW p, p # "entity.kind",
         \A i \in W!factsFor(pkg[id], p) : pkg[id].facts[i].type # "int"
  PROVE  /\ Objects(w.graph[id], p) = W!Values(pkg[id], p)
         /\ registered(p) => Objects(project(w.graph, id), p) = W!Values(pkg[id], p)
<1>1. w.graph[id] = Triples(pkg[id])
  BY DEF StartsAs
<1>2. Objects(w.graph[id], p) = W!Values(pkg[id], p)
  BY <1>1, TriplesOfFacts
<1>3. registered(p) => Objects(project(w.graph, id), p) = Objects(w.graph[id], p)
  BY DEF Objects, project
<1> QED BY <1>2, <1>3

LEMMA KindInCampaign ==
  ASSUME NEW pkg, NEW w, IsPackage(pkg), StartsAs(pkg, w), NEW id \in DOMAIN pkg
  PROVE  /\ Objects(w.graph[id], "entity.kind") = {pkg[id].kind}
         /\ Objects(project(w.graph, id), "entity.kind") = {pkg[id].kind}
<1>1. w.graph[id] = Triples(pkg[id])
  BY DEF StartsAs
<1>2. Objects(w.graph[id], "entity.kind") = {pkg[id].kind}
  BY <1>1, TriplesOfFacts
<1>3. registered("entity.kind")
  BY DEF registered
<1>4. Objects(project(w.graph, id), "entity.kind") = Objects(w.graph[id], "entity.kind")
  BY <1>3 DEF Objects, project
<1> QED BY <1>2, <1>4

LEMMA One == \A x : Single({x}) /\ TheOne({x}) = x
  BY FS_Singleton DEF Single, TheOne

LEMMA OneObject ==
  ASSUME NEW S, NEW p, NEW v, \A y \in S : y[1] = p => y[2] = v, \E y \in S : y[1] = p
  PROVE  Objects(S, p) = {v}
  BY DEF Objects

(* The first scene is laid somewhere, and the player's character stands    *)
(* there.                                                                  *)
LEMMA FirstScene ==
  ASSUME NEW pkg, Begins(pkg), W!validatePlaceEntities(pkg)
  PROVE  \E l \in DOMAIN pkg : /\ pkg[l].kind = "location"
                               /\ W!Values(pkg["ball"], "scene.location") = {l}
                               /\ W!Values(pkg["anne"], "world.location") = {l}
                               /\ \A i \in W!factsFor(pkg["ball"], "scene.location") : pkg["ball"].facts[i].type = "ref"
                               /\ \A i \in W!factsFor(pkg["anne"], "world.location") : pkg["anne"].facts[i].type = "ref"
<1>1. "ball" \in W!OfKind(pkg, "scene") /\ "anne" \in W!OfKind(pkg, "character")
  BY DEF Begins, W!OfKind
<1>2. W!validateScene(pkg, "ball") /\ W!validateOccupancy(pkg, "anne")
  BY <1>1 DEF W!validatePlaceEntities
<1>3. PICK i \in W!factsFor(pkg["ball"], "scene.location") : W!factsFor(pkg["ball"], "scene.location") = {i}
  BY <1>2 DEF W!validateScene, W!atMostOne
<1>4. W!requirePlaceRef(pkg, "ball", pkg["ball"].facts[i])
  BY <1>2, <1>3 DEF W!validateScene, W!requirePlaceRefs
<1> DEFINE l == pkg["ball"].facts[i].v
<1>5. pkg["ball"].facts[i].type = "ref" /\ l \in DOMAIN pkg /\ pkg[l].kind = "location"
  BY <1>4 DEF W!requirePlaceRef, W!requireRef
<1>6. W!Values(pkg["ball"], "scene.location") = {l}
  BY <1>3 DEF W!Values
<1>7. W!Values(pkg["anne"], "world.location") = {l}
  BY <1>6 DEF Begins
<1>8. \A j \in W!factsFor(pkg["anne"], "world.location") : pkg["anne"].facts[j].type = "ref"
  BY <1>2 DEF W!validateOccupancy, W!requirePlaceRefs, W!requirePlaceRef
<1> QED BY <1>3, <1>5, <1>6, <1>7, <1>8

(* bindActor, when the turn's player is shown and is bound to one          *)
(* character, who is there.                                                *)
LEMMA BoundIsVerified ==
  ASSUME NEW g, NEW turn, NEW shown, NEW members, NEW player \in shown, NEW character \in members,
         Objects(project(g, turn), "turn.player") = {player},
         Objects(project(g, player), "player.character") = {character}
  PROVE  actorOf(g, turn, shown, members).doubt = Unset
<1> DEFINE pl == TheOne(Objects(project(g, turn), "turn.player"))
           bound == UNION {Objects(project(g, e), "player.character") : e \in {pl} \cap shown}
           doubt == CASE pl \notin shown              -> "player-absent"
                      [] pl \in shown /\ bound = {}   -> "binding-absent"
                      [] Cardinality(bound) > 1       -> "binding-ambiguous"
                      [] Single(bound)                -> IF bound \subseteq members THEN Unset ELSE "absent"
           named == IF Single(bound) THEN TheOne(bound) ELSE Unset
<1>1. actorOf(g, turn, shown, members) = [player |-> pl, doubt |-> doubt, character |-> named]
  BY Zenon DEF actorOf
<1>2. pl = player
  BY One
<1>3. bound = {character}
  BY <1>2
<1> HIDE DEF pl, bound
<1>4. Single(bound) /\ ~(Cardinality(bound) > 1) /\ bound # {} /\ bound \subseteq members
  <2>1. Cardinality(bound) = 1
    BY <1>3, FS_Singleton
  <2> QED BY <1>3, <2>1 DEF Single
<1>5. doubt = Unset
  BY <1>2, <1>4
<1> HIDE DEF doubt, named
<1> QED BY <1>1, <1>5

(* The scene of the first turn can be assembled, with the player's         *)
(* character for its actor.                                                *)
LEMMA FirstView ==
  ASSUME NEW pkg, NEW w, NEW names, IsPackage(pkg), Begins(pkg), Small(pkg, names), StartsAs(pkg, w),
         W!validatePlaceEntities(pkg)
  PROVE  LET v == Assemble(w.graph, w.index, "turn", w.cap) IN v.ok /\ Verified(v.actor)
<1> DEFINE g == w.graph
           turn == "turn"
           scenes == Objects(project(g, turn), "turn.scene")
           scene == TheOne(scenes)
           locations == Objects(project(g, scene), "scene.location")
           location == TheOne(locations)
           fixed == {turn, scene, location}
           asked == memberIDs(w.index, location)
           members == hydrate(g, asked)
           around == neighbourIDsOf(g, fixed, members)
           neighbours == hydrate(g, around)
           shown == fixed \cup members \cup neighbours
           actor == actorOf(g, turn, shown, members)
           passes == /\ readSolid(g, {turn})
                     /\ readSolid(g, scenes)
                     /\ readSolid(g, locations)
                     /\ Objects(project(g, location), "entity.kind") = {"location"}
                     /\ checkCap(w.cap, asked, {}) /\ checkCap(w.cap, asked, around)
                     /\ Single(Objects(project(g, turn), "turn.player"))
                     /\ actor.doubt # "absent"
           view == [ok |-> TRUE, turn |-> turn, scene |-> scene, location |-> location, members |-> members,
                    neighbours |-> neighbours, excluded |-> missing(g, asked) \cup missing(g, around),
                    actor |-> actor, size |-> measure(g, shown)]
           v == Assemble(g, w.index, turn, w.cap)
<1>1. v = IF passes THEN view ELSE Refuse
  BY Zenon DEF Assemble
<1>2. PICK l \in DOMAIN pkg : /\ pkg[l].kind = "location"
                              /\ W!Values(pkg["ball"], "scene.location") = {l}
                              /\ W!Values(pkg["anne"], "world.location") = {l}
                              /\ \A i \in W!factsFor(pkg["ball"], "scene.location") : pkg["ball"].facts[i].type = "ref"
                              /\ \A i \in W!factsFor(pkg["anne"], "world.location") : pkg["anne"].facts[i].type = "ref"
  BY FirstScene
<1>3. /\ registered("turn.scene") /\ registered("turn.player") /\ registered("scene.location")
      /\ registered("world.location") /\ registered("player.character") /\ registered("entity.kind")
  BY DEF registered, IsRelationship, IsEntityReference
<1>4. /\ scenes = {"ball"} /\ Objects(project(g, turn), "turn.player") = {"ann"}
      /\ Objects(project(g, "ann"), "player.character") = {"anne"}
  <2>1. project(g, turn) = {<<"turn.scene", "ball">>, <<"turn.player", "ann">>}
    BY <1>3 DEF project, StartsAs
  <2>2. project(g, "ann") = {<<"entity.kind", "player">>, <<"player.character", "anne">>}
    BY <1>3 DEF project, StartsAs
  <2> HIDE DEF g
  <2>3. scenes = {"ball"}
    <3>1. \A y \in project(g, turn) : y[1] = "turn.scene" => y[2] = "ball"
      BY <2>1
    <3>2. <<"turn.scene", "ball">>[1] = "turn.scene"
      OBVIOUS
    <3>3. \E y \in project(g, turn) : y[1] = "turn.scene"
      BY <2>1, <3>2
    <3> QED BY <3>1, <3>3, OneObject
  <2>4. Objects(project(g, turn), "turn.player") = {"ann"}
    <3>1. \A y \in project(g, turn) : y[1] = "turn.player" => y[2] = "ann"
      BY <2>1
    <3>2. <<"turn.player", "ann">>[1] = "turn.player"
      OBVIOUS
    <3>3. \E y \in project(g, turn) : y[1] = "turn.player"
      BY <2>1, <3>2
    <3> QED BY <3>1, <3>3, OneObject
  <2>5. Objects(project(g, "ann"), "player.character") = {"anne"}
    <3>1. \A y \in project(g, "ann") : y[1] = "player.character" => y[2] = "anne"
      BY <2>2
    <3>2. <<"player.character", "anne">>[1] = "player.character"
      OBVIOUS
    <3>3. \E y \in project(g, "ann") : y[1] = "player.character"
      BY <2>2, <3>2
    <3> QED BY <3>1, <3>3, OneObject
  <2> QED BY <2>3, <2>4, <2>5
<1>5. scene = "ball" /\ readSolid(g, scenes) /\ readSolid(g, {turn})
  <2>1. "ball" \in DOMAIN g /\ turn \in DOMAIN g
    BY DEF Begins, StartsAs
  <2>2. Single({"ball"}) /\ TheOne({"ball"}) = "ball" /\ Single({turn})
    BY One
  <2> HIDE DEF g, scenes
  <2> QED BY <1>4, <2>1, <2>2 DEF readSolid
<1>6. locations = {l}
  <2>1. "ball" \in DOMAIN pkg
    BY DEF Begins
  <2>2. Objects(project(g, "ball"), "scene.location") = {l}
    BY <1>2, <1>3, <2>1, AskedOfCampaign
  <2> QED BY <1>5, <2>2
<1>7. location = l /\ readSolid(g, locations)
  BY <1>6, One DEF readSolid, StartsAs
<1>8. Objects(project(g, location), "entity.kind") = {"location"}
  BY <1>2, <1>7, KindInCampaign
<1> HIDE DEF scenes, scene, locations, location
<1>9. "anne" \in members
  <2>1. "anne" \in DOMAIN pkg /\ pkg["anne"].kind = "character"
    BY DEF Begins
  <2>2. Objects(g["anne"], "world.location") = {l}
    BY <1>2, <2>1, AskedOfCampaign
  <2>3. <<"world.location", l>> \in g["anne"]
    <3>1. PICK y \in g["anne"] : y[1] = "world.location" /\ y[2] = l
      BY <2>2 DEF Objects
    <3>2. y \in Triples(pkg["anne"])
      BY <2>1, <3>1 DEF StartsAs
    <3>3. y = <<y[1], y[2]>>
      BY <3>2 DEF Triples
    <3> QED BY <3>1, <3>3
  <2>4. "anne" \in DOMAIN g
    BY <2>1 DEF StartsAs
  <2>5. <<"anne", "world.location", l>> \in Here(g, l)
    BY <2>3, <2>4 DEF Here
  <2>6. l \in W!OfKind(pkg, "location")
    BY <1>2 DEF W!OfKind
  <2>7. <<"anne", "world.location", l>> \in w.index
    BY <2>5, <2>6 DEF StartsAs
  <2>8. l # "anne"
    BY <1>2, <2>1
  <2>9. "anne" \in asked
    BY <1>7, <2>7, <2>8 DEF memberIDs, IsSceneMembership
  <2> QED BY <2>4, <2>9 DEF hydrate
<1>10. "ann" \in shown
  <2>1. "ann" \in Targets(project(g, turn))
    <3>1. <<"turn.player", "ann">> \in g[turn] /\ IsRelationship("turn.player")
      BY DEF StartsAs, IsRelationship
    <3>2. <<"turn.player", "ann">> \in project(g, turn)
      BY <1>3, <3>1 DEF project
    <3>3. <<"turn.player", "ann">>[1] = "turn.player" /\ <<"turn.player", "ann">>[2] = "ann"
      OBVIOUS
    <3> HIDE DEF g
    <3> QED BY <3>1, <3>2, <3>3 DEF Targets
  <2>2. "ann" \in DOMAIN g
    BY DEF StartsAs
  <2>3. "ann" \in fixed \cup members \cup around
    BY <2>1 DEF neighbourIDsOf
  <2> QED BY <2>2, <2>3 DEF hydrate
<1>11. /\ DOMAIN g \subseteq names /\ asked \subseteq names /\ around \subseteq names
  <2>1. /\ DOMAIN g \subseteq names /\ \A x \in w.index : x[1] \in names
        /\ \A e \in DOMAIN g : Targets(project(g, e)) \subseteq names
    BY NamedInCampaign
  <2>2. asked \subseteq names
    BY <2>1 DEF memberIDs
  <2>3. fixed \cup members \subseteq DOMAIN g
    BY <1>2, <1>5, <1>7 DEF Begins, StartsAs, hydrate
  <2> HIDE DEF fixed, members
  <2>4. around \subseteq names
    BY <2>1, <2>3 DEF neighbourIDsOf
  <2> QED BY <2>1, <2>2, <2>4
<1> HIDE DEF asked, members, around, neighbours, shown
<1>12. checkCap(w.cap, asked, {}) /\ checkCap(w.cap, asked, around)
  <2>1. IsFiniteSet(names) /\ Cardinality(names) <= 30 /\ w.cap = 64
    BY DEF Small, StartsAs
  <2>2. /\ IsFiniteSet(asked) /\ Cardinality(asked) <= Cardinality(names)
        /\ IsFiniteSet(around) /\ Cardinality(around) <= Cardinality(names)
    BY <1>11, <2>1, FS_Subset
  <2>3. Cardinality(asked) \in Nat /\ Cardinality(around) \in Nat /\ Cardinality(names) \in Nat /\ Cardinality({}) = 0
    BY <2>1, <2>2, FS_CardinalityType, FS_EmptySet
  <2> QED BY <2>1, <2>2, <2>3 DEF checkCap, fixedEntities
<1>13. actor.doubt = Unset
  BY <1>4, <1>9, <1>10, BoundIsVerified
<1> HIDE DEF actor
<1>14. passes
  BY <1>4, <1>5, <1>7, <1>8, <1>12, <1>13, One DEF Unset
<1> HIDE DEF passes
<1>15. v = view
  BY <1>1, <1>14
<1>16. view.ok /\ view.actor = actor
  OBVIOUS
<1> HIDE DEF view
<1>17. v.ok /\ Verified(v.actor)
  BY <1>13, <1>15, <1>16 DEF Verified
<1> QED BY <1>17

(* A projection goes through when nothing of it is refused.                *)
LEMMA ProjectionGoesThrough ==
  ASSUME NEW w, NEW a, a.purpose = "casekeeper", validateAudience(w, a), Viewed(w, a).ok, Verified(Viewed(w, a).actor),
         NEW base, base = publicProjection(w, Viewed(w, a), a.purpose),
         Sound(w, a, Viewed(w, a), DOMAIN base.members),
         enforceProjectionBounds(w, Shown(w, a), Entities(base))
  PROVE  Project(w, a).ok
<1> DEFINE view == Viewed(w, a)
           full == Shown(w, a)
           yes == [ok |-> TRUE, actor |-> authorizedActor(a, view),
                   solution |-> IF a.purpose = "denouement" THEN solutionParts(w) ELSE {},
                   turn |-> full.turn, scene |-> full.scene, members |-> full.members, neighbours |-> full.neighbours]
           whole == [ok |-> TRUE, actor |-> Unset, solution |-> solutionParts(w),
                     turn |-> <<>>, scene |-> <<>>, members |-> <<>>, neighbours |-> <<>>]
           goes == /\ view.ok /\ Verified(view.actor)
                   /\ Sound(w, a, view, DOMAIN base.members)
                   /\ enforceProjectionBounds(w, full, Entities(base))
           asks == a.purpose = "operator" \/ ~validateAudience(w, a)
           checks == a.purpose = "verifier" /\ validateAudience(w, a)
<1>1. Project(w, a) = CASE asks -> Refuse
                        [] checks -> IF caseSound(w) /\ solutionSound(w) THEN whole ELSE Refuse
                        [] OTHER -> IF goes THEN yes ELSE Refuse
  BY Zenon DEF Project, Viewed, Shown
<1>2. goes
  BY Zenon
<1>3. ~asks /\ ~checks
  OBVIOUS
<1> HIDE DEF yes, whole, goes, asks, checks
<1>4. Project(w, a) = yes
  BY <1>1, <1>2, <1>3
<1>5. yes.ok
  BY DEF yes
<1> QED BY <1>4, <1>5

(* What a casekeeper is shown is of the graph.                             *)
LEMMA ShownToCasekeeper ==
  ASSUME NEW w, NEW a, a.purpose = "casekeeper", Viewed(w, a).ok,
         casekeeperState(w, a.targets) \subseteq DOMAIN w.graph
  PROVE  Entities(Shown(w, a)) \subseteq DOMAIN w.graph
<1> DEFINE view == Viewed(w, a)
           base == publicProjection(w, view, a.purpose)
           told == projectTriples(w, hydrateExtra(w, Tells(w, a, view)), evidencePredicates)
           bond == projectTriples(w, {e \in {a.bond} : a.purpose = "companion"}, bondPredicates)
           state == projectTriples(w, IF a.purpose = "casekeeper" THEN casekeeperState(w, a.targets) ELSE {}, casekeeperPredicates)
           p == Gathered(w, a, view)
           public(es) == {e \in es : publicEntityKind(w, e)}
           turnPredicates == IF a.purpose \in {"narrator", "denouement"} THEN narrationTurnPredicates ELSE publicTurnPredicates
<1>1. p = [base EXCEPT !.neighbours = Over(state, Over(told, Over(bond, @)))]
  BY Zenon DEF Gathered
<1>2. base = [turn |-> projectTriples(w, {view.turn}, turnPredicates),
              scene |-> projectTriples(w, {view.scene}, publicWorldPredicates),
              members |-> projectTriples(w, public(view.members), publicWorldPredicates),
              neighbours |-> projectTriples(w, public(view.neighbours), publicWorldPredicates)]
  BY Zenon DEF publicProjection
<1>3. \A es, allowed : DOMAIN projectTriples(w, es, allowed) = es
  BY DEF projectTriples
<1>4. DOMAIN told \subseteq DOMAIN w.graph /\ DOMAIN bond = {} /\ DOMAIN state \subseteq DOMAIN w.graph
  BY <1>3 DEF hydrateExtra
<1> DEFINE bm == projectTriples(w, public(view.members), publicWorldPredicates)
           bn == projectTriples(w, public(view.neighbours), publicWorldPredicates)
           bt == projectTriples(w, {view.turn}, turnPredicates)
           bs == projectTriples(w, {view.scene}, publicWorldPredicates)
<1>5. /\ DOMAIN bt = {view.turn} /\ DOMAIN bs = {view.scene}
      /\ DOMAIN bm \subseteq view.members /\ DOMAIN bn \subseteq view.neighbours
  BY <1>3
<1>6. /\ view.turn \in DOMAIN w.graph /\ view.scene \in DOMAIN w.graph
      /\ view.members \subseteq DOMAIN w.graph /\ view.neighbours \subseteq DOMAIN w.graph
  <2>1. Assembled(w.graph, w.index, a.turn, w.cap, view)
    BY AssembledView DEF Viewed
  <2> HIDE DEF view
  <2> QED BY <2>1 DEF Assembled, hydrate
<1> HIDE DEF bm, bn, bt, bs, told, bond, state, view
<1>7. base.neighbours = bn
  BY <1>2 DEF bn
<1> DEFINE nb == Over(state, Over(told, Over(bond, bn)))
<1> HIDE DEF nb
<1>8. p.turn = bt /\ p.scene = bs /\ p.members = bm /\ p.neighbours = nb
  <2>1. base = [turn |-> bt, scene |-> bs, members |-> bm, neighbours |-> bn]
    BY <1>2 DEF bt, bs, bm, bn
  <2> HIDE DEF base, p
  <2>2. p = [base EXCEPT !.neighbours = nb]
    BY <1>1, <1>7 DEF nb
  <2> QED BY <2>1, <2>2
<1>9. \A f, h : DOMAIN Over(f, h) = DOMAIN f \cup DOMAIN h
  BY DEF Over
<1>10. DOMAIN nb = DOMAIN state \cup DOMAIN told \cup DOMAIN bond \cup DOMAIN bn
  <2>1. DOMAIN Over(bond, bn) = DOMAIN bond \cup DOMAIN bn
    BY <1>9
  <2>2. DOMAIN Over(told, Over(bond, bn)) = DOMAIN told \cup DOMAIN Over(bond, bn)
    BY <1>9
  <2>3. DOMAIN nb = DOMAIN state \cup DOMAIN Over(told, Over(bond, bn))
    BY <1>9 DEF nb
  <2> QED BY <2>1, <2>2, <2>3
<1>11. Entities(p) \subseteq DOMAIN w.graph
  BY <1>4, <1>5, <1>6, <1>8, <1>10 DEF Entities
<1>12. Entities(Shown(w, a)) = Entities(p)
  BY FinalizedIsClosed DEF Shown, view
<1> QED BY <1>11, <1>12

(* What an accepted package says of its case and its beliefs.              *)
LEMMA AcceptedCase ==
  ASSUME NEW pkg, Begins(pkg), W!validateMysteryEntities(pkg)
  PROVE  W!validateMysteryCase(pkg, "case")
<1>1. W!HasMysteryRecords(pkg)
  BY DEF W!HasMysteryRecords, Begins
<1>2. PICK c \in DOMAIN pkg : W!OfKind(pkg, "case") = {c} /\ W!validateMysteryCase(pkg, c)
  BY <1>1 DEF W!validateMysteryEntities
<1>3. "case" \in W!OfKind(pkg, "case")
  BY DEF Begins, W!OfKind
<1> QED BY <1>2, <1>3

(* casekeeperSound: what the loader has made sure of is what the           *)
(* projection asks for, if those who believe something are suspects.       *)
LEMMA CasekeeperIsSound ==
  ASSUME NEW pkg, NEW w, NEW names, NEW members, IsPackage(pkg), Begins(pkg), Small(pkg, names), StartsAs(pkg, w),
         W!validateMysteryEntities(pkg), Believers(pkg) \subseteq W!Values(pkg["case"], "case.suspect")
  PROVE  /\ casekeeperSound(w, members, Believers(pkg))
         /\ casekeeperState(w, Believers(pkg)) \subseteq DOMAIN w.graph
<1> DEFINE g == w.graph
           c == pkg["case"]
           evidence == W!Values(c, "case.evidence")
           targets == Believers(pkg)
<1>1. "case" \in DOMAIN pkg /\ pkg["case"].kind = "case" /\ w.case = "case" /\ DOMAIN pkg \subseteq DOMAIN g
  BY DEF Begins, StartsAs
<1>2. /\ \A p \in {"case.suspect", "case.evidence", "case.timeline"} : W!uniqueRefs(c, p)
      /\ W!validateMysteryRecords(pkg, evidence)
  <2>1. W!validateMysteryCase(pkg, "case")
    BY AcceptedCase
  <2> QED BY <2>1, Zenon DEF W!validateMysteryCase
<1>3. Objects(g["case"], "case.suspect") = W!Values(c, "case.suspect") /\ Objects(g["case"], "case.evidence") = evidence
  <2>1. \A p \in {"case.suspect", "case.evidence"} : \A i \in W!factsFor(c, p) : c.facts[i].type = "ref"
    BY <1>2 DEF W!uniqueRefs, W!unique
  <2>2. Objects(g["case"], "case.suspect") = W!Values(c, "case.suspect")
    BY <1>1, <2>1, AskedOfCampaign
  <2>3. Objects(g["case"], "case.evidence") = evidence
    BY <1>1, <2>1, AskedOfCampaign
  <2> QED BY <2>2, <2>3
<1>4. caseSound(w)
  <2>1. KindOf(w, "case") = {"case"}
    BY <1>1, KindInCampaign DEF KindOf
  <2> QED BY <1>1, <2>1 DEF caseSound, requireEntityKind, Unset
<1>5. caseReferences(w) \subseteq names
  <2> SUFFICES ASSUME NEW y \in g["case"], IsEntityReference(y[1]) PROVE y[2] \in names
    BY <1>1 DEF caseReferences
  <2>1. y[2] \in Targets(project(g, "case"))
    BY DEF Targets, project, registered, IsRelationship
  <2> QED BY <1>1, <2>1, NamedInCampaign
<1>6. beliefRecords(w, targets) \subseteq DOMAIN pkg
  BY DEF beliefRecords, StartsAs, Told, W!OfKind
<1>7. DOMAIN pkg \subseteq names /\ IsFiniteSet(names) /\ Cardinality(names) <= 30 /\ w.maxSupplemental = 32
  BY DEF Small, StartsAs
<1>8. Within(w, caseReferences(w)) /\ Within(w, beliefRecords(w, targets))
  <2>1. ASSUME NEW S, S \subseteq names PROVE Within(w, S)
    <3>1. IsFiniteSet(S) /\ Cardinality(S) <= Cardinality(names)
      BY <1>7, <2>1, FS_Subset
    <3>2. Cardinality(S) \in Nat /\ Cardinality(names) \in Nat
      BY <1>7, <3>1, FS_CardinalityType
    <3> QED BY <1>7, <3>1, <3>2 DEF Within
  <2> QED BY <1>5, <1>6, <1>7, <2>1
<1>9. ASSUME NEW x \in targets, NEW b \in w.beliefs[x]
      PROVE  /\ b \in DOMAIN g
             /\ requireEntityKind(w, b, "belief")
             /\ Objects(g[b], "belief.holder") = {x}
             /\ exactString(w, b, "belief.evidence")
             /\ Objects(g[b], "belief.evidence") \subseteq evidence
             /\ Objects(g[b], "belief.stance") \in {{"affirms"}, {"denies"}, {"uncertain"}}
  <2>1. b \in W!OfKind(pkg, "belief") /\ x \in W!Values(pkg[b], "belief.holder")
    BY <1>9 DEF StartsAs, Told
  <2>2. b \in DOMAIN pkg /\ pkg[b].kind = "belief"
    BY <2>1 DEF W!OfKind
  <2>3. /\ W!recordSound(pkg, b, "belief.holder", "belief.evidence", evidence)
        /\ W!exactlyOneLiteral(pkg[b], "belief.stance", W!Stances)
    BY <1>2, <2>1 DEF W!validateMysteryRecords
  <2>4. /\ W!exactlyOne(pkg[b], "belief.holder", "ref") /\ W!exactlyOne(pkg[b], "belief.evidence", "ref")
        /\ W!exactlyOne(pkg[b], "belief.stance", "text") /\ W!Values(pkg[b], "belief.stance") \subseteq W!Stances
        /\ W!The(pkg[b], "belief.evidence") \in evidence
    BY <2>3 DEF W!recordSound, W!exactlyOneRef, W!exactlyOneLiteral
  <2> HIDE DEF evidence
  <2>5. /\ W!Values(pkg[b], "belief.holder") = {W!The(pkg[b], "belief.holder")}
        /\ \A i \in W!factsFor(pkg[b], "belief.holder") : pkg[b].facts[i].type = "ref"
    BY <2>4, ExactlyOneValue
  <2>6. /\ W!Values(pkg[b], "belief.evidence") = {W!The(pkg[b], "belief.evidence")}
        /\ \A i \in W!factsFor(pkg[b], "belief.evidence") : pkg[b].facts[i].type = "ref"
    BY <2>4, ExactlyOneValue
  <2>7. /\ W!Values(pkg[b], "belief.stance") = {W!The(pkg[b], "belief.stance")}
        /\ \A i \in W!factsFor(pkg[b], "belief.stance") : pkg[b].facts[i].type = "text"
    BY <2>4, ExactlyOneValue
  <2>8. Objects(g[b], "belief.holder") = W!Values(pkg[b], "belief.holder")
    BY <2>2, <2>5, AskedOfCampaign
  <2>9. Objects(g[b], "belief.evidence") = W!Values(pkg[b], "belief.evidence")
    BY <2>2, <2>6, AskedOfCampaign
  <2>10. Objects(g[b], "belief.stance") = W!Values(pkg[b], "belief.stance")
    BY <2>2, <2>7, AskedOfCampaign
  <2>11. Objects(g[b], "belief.holder") = {x}
    BY <2>1, <2>5, <2>8
  <2>12. exactString(w, b, "belief.evidence") /\ Objects(g[b], "belief.evidence") \subseteq evidence
    BY <2>4, <2>6, <2>9, One DEF exactString
  <2>13. Objects(g[b], "belief.stance") \in {{"affirms"}, {"denies"}, {"uncertain"}}
    <3>1. W!The(pkg[b], "belief.stance") \in {"affirms", "denies", "uncertain"}
      BY <2>4, <2>7 DEF W!Stances
    <3> QED BY <2>7, <2>10, <3>1
  <2>14. requireEntityKind(w, b, "belief")
    BY <2>2, KindInCampaign DEF requireEntityKind, KindOf
  <2> QED BY <1>1, <2>2, <2>11, <2>12, <2>13, <2>14
<1>10. casekeeperSound(w, members, targets)
  <2>1. targets \cap DOMAIN w.beliefs = targets
    BY DEF StartsAs
  <2> HIDE DEF targets, evidence
  <2> QED BY <1>1, <1>3, <1>4, <1>8, <1>9, <2>1, Zenon DEF casekeeperSound, targets
<1>11. casekeeperState(w, targets) \subseteq DOMAIN g
  BY <1>1, <1>6 DEF casekeeperState, hydrateExtra
<1> QED BY <1>10, <1>11

(* world.LoadPackage: for every package the loader accepts, of any size    *)
(* the campaign has room for, the timeline of the case is an order without *)
(* gap or tie, and the casekeeper can be shown the first turn if the       *)
(* believers, at most as many as a scope may name, are suspects.           *)
THEOREM AcceptedPackagesArePlayable ==
  ASSUME NEW pkg, NEW names, IsPackage(pkg), Begins(pkg), Small(pkg, names), Accepted(pkg)
  PROVE  /\ W!IsAnOrder(pkg, W!Values(pkg["case"], "case.timeline"))
         /\ LET w == Campaign(pkg)
            IN DOMAIN w.beliefs \subseteq W!Values(pkg["case"], "case.suspect")
                 /\ Cardinality(DOMAIN w.beliefs) <= MaxCasekeeperTargetActors => Project(w, Casekeeper(w)).ok
<1> DEFINE w == Campaign(pkg)
           a == Casekeeper(w)
           events == W!Values(pkg["case"], "case.timeline")
<1>1. W!validatePlaceEntities(pkg) /\ W!validateMysteryEntities(pkg) /\ "case" \in DOMAIN pkg
  BY DEF Accepted, Begins
<1>2. W!IsAnOrder(pkg, events)
  <2>1. W!validateMysteryCase(pkg, "case")
    BY <1>1, AcceptedCase
  <2>2. W!requireRefs(pkg, events, "event") /\ W!validateMysteryTimeline(pkg, events)
    BY <2>1, Zenon DEF W!validateMysteryCase
  <2>3. events \subseteq DOMAIN pkg
    BY <2>2 DEF W!requireRefs, W!requireRef
  <2>4. IsFiniteSet(events)
    BY <1>1, ValuesAreFinite
  <2> HIDE DEF events
  <2> QED BY <2>2, <2>3, <2>4, TimelineIsAnOrder
<1>3. ASSUME DOMAIN w.beliefs \subseteq W!Values(pkg["case"], "case.suspect"),
             Cardinality(DOMAIN w.beliefs) <= MaxCasekeeperTargetActors
      PROVE  Project(w, a).ok
  <2>1. StartsAs(pkg, w)
    BY CampaignStarts DEF Begins
  <2>2. /\ a.purpose = "casekeeper" /\ a.turn = "turn" /\ a.case = "case" /\ a.targets = DOMAIN w.beliefs
    BY DEF Casekeeper
  <2> HIDE DEF w, a
  <2>3. a.targets = Believers(pkg) /\ Believers(pkg) \subseteq W!Values(pkg["case"], "case.suspect") /\ w.case = "case"
    BY <1>3, <2>1, <2>2 DEF StartsAs
  <2>4. validateAudience(w, a)
    BY <1>3, <2>2, <2>3 DEF validateAudience, Unset
  <2>5. Viewed(w, a).ok /\ Verified(Viewed(w, a).actor)
    BY <1>1, <2>1, <2>2, FirstView DEF Viewed
  <2> DEFINE base == publicProjection(w, Viewed(w, a), a.purpose)
  <2>6. /\ casekeeperSound(w, DOMAIN base.members, a.targets)
        /\ casekeeperState(w, a.targets) \subseteq DOMAIN w.graph
    BY <1>1, <2>1, <2>3, CasekeeperIsSound
  <2>7. Sound(w, a, Viewed(w, a), DOMAIN base.members)
    BY <2>2, <2>6 DEF Sound
  <2>8. Entities(Shown(w, a)) \subseteq DOMAIN w.graph
    BY <2>2, <2>5, <2>6, ShownToCasekeeper
  <2>9. enforceProjectionBounds(w, Shown(w, a), Entities(base))
    <3> DEFINE all == Entities(Shown(w, a))
               new == all \ Entities(base)
    <3>1. all \subseteq names /\ new \subseteq names
      BY <1>1, <2>1, <2>8, NamedInCampaign
    <3>2. IsFiniteSet(names) /\ Cardinality(names) <= 30 /\ w.maxEntities = 96 /\ w.maxSupplemental = 32
      BY <2>1 DEF Small, StartsAs
    <3> HIDE DEF all, new
    <3>3. /\ IsFiniteSet(all) /\ Cardinality(all) <= Cardinality(names)
          /\ IsFiniteSet(new) /\ Cardinality(new) <= Cardinality(names)
      BY <3>1, <3>2, FS_Subset
    <3>4. Cardinality(all) \in Nat /\ Cardinality(new) \in Nat /\ Cardinality(names) \in Nat
      BY <3>2, <3>3, FS_CardinalityType
    <3>5. Cardinality(all) <= w.maxEntities /\ Cardinality(new) <= w.maxSupplemental
      BY <3>2, <3>3, <3>4
    <3> QED BY <3>5 DEF enforceProjectionBounds, all, new
  <2> QED BY <2>2, <2>4, <2>5, <2>7, <2>9, ProjectionGoesThrough
<1> QED BY <1>2, <1>3

(* The facts of the run's packages, and all they name.                     *)
RunNames ==
  {"ball", "hall", "cellar"} \cup {"anne", "butler", "poison"} \cup {"clue", "motive", "dinner"}
    \cup {"murder", "held", "seed"} \cup {"case", "ann", "turn"} \cup {"red-herring", "discovery", "observe"}
    \cup {"denies", "reactive", "odd"} \cup {"cold-open"}
RunFacts ==
  [p : {"scene.location", "location.connects-to", "world.location", "companion.policy", "evidence.truth", "evidence.phase",
        "evidence.kind", "evidence.target", "belief.holder", "belief.evidence", "belief.stance", "knowledge.holder",
        "knowledge.evidence", "case.culprit", "case.method", "case.motive", "case.victim", "case.suspect", "case.evidence",
        "case.timeline", "case.phase"}, type : {"ref", "text"}, v : RunNames]
  \cup [p : {"geo.latitude", "geo.longitude", "timeline.order", "case.suspects-required", "case.evidence-required"},
        type : {"int"}, v : Int]

Few(S, n) == IsFiniteSet(S) /\ Cardinality(S) <= n
LEMMA AFewMore ==
  ASSUME NEW S, NEW a, NEW b, NEW c, NEW n \in Nat, Few(S, n)
  PROVE  Few(S \cup {a, b, c}, n + 3)
<1> DEFINE T == {a, b, c}
<1>1. IsFiniteSet(T) /\ Cardinality(T) <= 3
  BY AtMostThree
<1> HIDE DEF T
<1>2. IsFiniteSet(S \cup T) /\ Cardinality(S \cup T) <= Cardinality(S) + Cardinality(T)
  BY <1>1, UnionIsBounded DEF Few
<1>3. Cardinality(S) \in Nat /\ Cardinality(T) \in Nat /\ Cardinality(S \cup T) \in Nat
  BY <1>1, <1>2, FS_CardinalityType DEF Few
<1>4. Few(S \cup T, n + 3)
  BY <1>1, <1>2, <1>3 DEF Few
<1> QED BY <1>4 DEF T

LEMMA RunNamesAreFew == IsFiniteSet(RunNames) /\ Cardinality(RunNames) <= 30
<1> DEFINE a == {"ball", "hall", "cellar"}
           b == a \cup {"anne", "butler", "poison"}
           c == b \cup {"clue", "motive", "dinner"}
           d == c \cup {"murder", "held", "seed"}
           e == d \cup {"case", "ann", "turn"}
           f == e \cup {"red-herring", "discovery", "observe"}
           g == f \cup {"denies", "reactive", "odd"}
           h == g \cup {"cold-open", "ball", "hall"}
<1>1. RunNames = h
  BY DEF RunNames
<1>2. Few(a, 3)
  BY AtMostThree DEF Few
<1> HIDE DEF a
<1>3. Few(b, 6)
  <2>1. Few(b, 3 + 3)
    BY <1>2, AFewMore
  <2> QED BY <2>1, 3 + 3 = 6
<1> HIDE DEF b
<1>4. Few(c, 9)
  <2>1. Few(c, 6 + 3)
    BY <1>3, AFewMore
  <2> QED BY <2>1, 6 + 3 = 9
<1> HIDE DEF c
<1>5. Few(d, 12)
  <2>1. Few(d, 9 + 3)
    BY <1>4, AFewMore
  <2> QED BY <2>1, 9 + 3 = 12
<1> HIDE DEF d
<1>6. Few(e, 15)
  <2>1. Few(e, 12 + 3)
    BY <1>5, AFewMore
  <2> QED BY <2>1, 12 + 3 = 15
<1> HIDE DEF e
<1>7. Few(f, 18)
  <2>1. Few(f, 15 + 3)
    BY <1>6, AFewMore
  <2> QED BY <2>1, 15 + 3 = 18
<1> HIDE DEF f
<1>8. Few(g, 21)
  <2>1. Few(g, 18 + 3)
    BY <1>7, AFewMore
  <2> QED BY <2>1, 18 + 3 = 21
<1> HIDE DEF g
<1>9. Few(h, 24)
  <2>1. Few(h, 21 + 3)
    BY <1>8, AFewMore
  <2> QED BY <2>1, 21 + 3 = 24
<1> HIDE DEF h
<1>10. IsFiniteSet(h) /\ Cardinality(h) <= 24 /\ Cardinality(h) \in Nat
  BY <1>9, FS_CardinalityType DEF Few
<1> QED BY <1>1, <1>10

LEMMA RunFactsAreNamed ==
  /\ \A f \in RunFacts : f.type = "int" => f.v \in Int
  /\ \A f \in RunFacts : f.p # "entity.kind"
  /\ \A f \in RunFacts : IsRelationship(f.p) => f.v \in RunNames
<1> DEFINE Named == {"scene.location", "location.connects-to", "world.location", "companion.policy", "evidence.truth",
                     "evidence.phase", "evidence.kind", "evidence.target", "belief.holder", "belief.evidence",
                     "belief.stance", "knowledge.holder", "knowledge.evidence", "case.culprit", "case.method",
                     "case.motive", "case.victim", "case.suspect", "case.evidence", "case.timeline", "case.phase"}
           Counted == {"geo.latitude", "geo.longitude", "timeline.order", "case.suspects-required", "case.evidence-required"}
<1>1. "entity.kind" \notin Named \cup Counted
  OBVIOUS
<1>2. \A p \in Counted : ~IsRelationship(p)
  BY DEF IsRelationship, IsEntityReference
<1>3. RunFacts = [p : Named, type : {"ref", "text"}, v : RunNames] \cup [p : Counted, type : {"int"}, v : Int]
  BY DEF RunFacts
<1> HIDE DEF Named, Counted
<1> QED BY <1>1, <1>2, <1>3

LEMMA MadeOfRunFacts ==
  /\ \A v \in RunNames : \A p \in {"scene.location", "location.connects-to", "world.location", "evidence.target",
       "belief.holder", "belief.evidence", "knowledge.holder", "knowledge.evidence", "case.culprit", "case.method",
       "case.motive", "case.victim", "case.suspect", "case.evidence", "case.timeline"} : Ref(p, v) \in RunFacts
  /\ \A v \in RunNames : \A p \in {"companion.policy", "evidence.truth", "evidence.phase", "evidence.kind",
       "belief.stance", "case.phase"} : Text(p, v) \in RunFacts
  /\ \A v \in Int : \A p \in {"geo.latitude", "geo.longitude", "timeline.order", "case.suspects-required",
       "case.evidence-required"} : Number(p, v) \in RunFacts
  BY DEF RunFacts, Ref, Text, Number

LEMMA WhenIsFacts ==
  ASSUME NEW c, NEW f \in RunFacts
  PROVE  When(c, f) \in Seq(RunFacts)
  BY DEF When

(* The packages of the run.                                                *)
Ids == {"ball", "hall", "cellar", "anne", "butler", "poison", "clue", "motive", "dinner", "murder", "held", "seed", "case"}
LEMMA RunPackages ==
  ASSUME NEW i \in Packages, NEW pkg, pkg = PackageOf(i)
  PROVE  /\ DOMAIN pkg = Ids
         /\ \A id \in Ids : pkg[id].facts \in Seq(RunFacts)
         /\ pkg["ball"].kind = "scene" /\ pkg["anne"].kind = "character" /\ pkg["case"].kind = "case"
         /\ pkg["poison"].kind = "item" /\ \A id \in Ids : pkg[id].kind = "belief" => id = "held"
         /\ pkg["anne"].facts = <<Ref("world.location", "hall")>>
         /\ pkg["held"].facts = <<Ref("belief.holder", i.believer), Ref("belief.evidence", i.about2), Text("belief.stance", "denies")>>
         /\ pkg["ball"].facts = CASE i.scene = "nowhere" -> <<>>
                                  [] i.scene = "twice"   -> <<Ref("scene.location", "hall"), Ref("scene.location", "cellar")>>
                                  [] OTHER               -> <<Ref("scene.location", i.scene)>>
<1> DEFINE ball == CASE i.scene = "nowhere" -> <<>>
                     [] i.scene = "twice"   -> <<Ref("scene.location", "hall"), Ref("scene.location", "cellar")>>
                     [] OTHER               -> <<Ref("scene.location", i.scene)>>
           butler == <<Ref("world.location", "cellar")>> \o When(i.policy # "none", Text("companion.policy", i.policy))
           clue == EvidenceOf(IF i.herring THEN "red-herring" ELSE "clue")
           motive == EvidenceOf("clue")
           held == <<Ref("belief.holder", i.believer), Ref("belief.evidence", i.about2), Text("belief.stance", "denies")>>
           seed == <<Ref("knowledge.holder", "anne"), Ref("knowledge.evidence", "clue")>>
           base == <<Ref("case.culprit", i.culprit), Ref("case.method", "poison"), Ref("case.motive", "motive"), Ref("case.victim", "anne"),
                     Number("case.suspects-required", i.required), Number("case.evidence-required", 2), Ref("case.suspect", "butler"),
                     Ref("case.evidence", "clue"), Ref("case.timeline", "dinner"), Text("case.phase", "cold-open")>>
           case == base \o When(i.twice, Ref("case.suspect", "butler"))
                        \o When(i.motiveInCase, Ref("case.evidence", "motive"))
                        \o When(~i.stray, Ref("case.timeline", "murder"))
           hall == <<Ref("location.connects-to", "cellar")>>
           cellar == <<Number("geo.latitude", 51), Number("geo.longitude", -3)>>
           anne == <<Ref("world.location", "hall")>>
           dinner == <<Number("timeline.order", i.first)>>
           murder == <<Number("timeline.order", i.second)>>
<1>1. pkg = [ball |-> Ent("scene", ball), hall |-> Ent("location", hall), cellar |-> Ent("location", cellar),
             anne |-> Ent("character", anne), butler |-> Ent("character", butler), poison |-> Ent("item", anne),
             clue |-> clue, motive |-> motive, dinner |-> Ent("event", dinner), murder |-> Ent("event", murder),
             held |-> Ent("belief", held), seed |-> Ent("knowledge", seed), case |-> Ent("case", case)]
  BY Zenon DEF PackageOf
<1>2. /\ i.scene \in {"nowhere", "hall", "poison", "twice"} /\ i.first \in Int /\ i.second \in Int
      /\ i.culprit \in {"butler", "anne"} /\ i.about2 \in {"motive", "poison"} /\ i.believer \in {"butler", "anne"}
      /\ i.required \in Int /\ i.policy \in {"none", "reactive", "odd"}
  BY DEF Packages
<1>3. /\ {"hall", "poison", "cellar", "butler", "anne", "motive", "clue", "dinner", "murder"} \subseteq RunNames
      /\ {"denies", "reactive", "odd", "cold-open", "red-herring", "discovery", "observe"} \subseteq RunNames
  BY DEF RunNames
<1> USE MadeOfRunFacts
<1>4. ball \in Seq(RunFacts)
  <2>1. CASE i.scene = "nowhere"
    BY <2>1
  <2>2. CASE i.scene = "twice"
    BY <1>3, <2>2
  <2>3. CASE i.scene \in {"hall", "poison"}
    BY <1>3, <2>3
  <2> QED BY <1>2, <2>1, <2>2, <2>3
<1>5. butler \in Seq(RunFacts)
  <2>1. CASE i.policy = "none"
    <3>1. When(i.policy # "none", Text("companion.policy", i.policy)) \in Seq(RunFacts)
      BY <2>1 DEF When
    <3>2. <<Ref("world.location", "cellar")>> \in Seq(RunFacts)
      BY <1>3
    <3> QED BY <3>1, <3>2
  <2>2. CASE i.policy \in {"reactive", "odd"}
    BY <1>3, <2>2, WhenIsFacts
  <2> QED BY <1>2, <2>1, <2>2
<1>6. clue.facts \in Seq(RunFacts) /\ motive.facts \in Seq(RunFacts) /\ clue.kind = "evidence" /\ motive.kind = "evidence"
  BY <1>3 DEF EvidenceOf, Ent
<1>7. held \in Seq(RunFacts) /\ seed \in Seq(RunFacts)
  BY <1>2, <1>3
<1>8. case \in Seq(RunFacts)
  <2>1. base \in Seq(RunFacts)
    BY <1>2, <1>3
  <2>2. When(i.twice, Ref("case.suspect", "butler")) \in Seq(RunFacts)
    BY <1>3, WhenIsFacts
  <2>3. When(i.motiveInCase, Ref("case.evidence", "motive")) \in Seq(RunFacts)
    BY <1>3, WhenIsFacts
  <2>4. When(~i.stray, Ref("case.timeline", "murder")) \in Seq(RunFacts)
    BY <1>3, WhenIsFacts
  <2> HIDE DEF base
  <2> QED BY <2>1, <2>2, <2>3, <2>4
<1>9. /\ hall \in Seq(RunFacts) /\ cellar \in Seq(RunFacts) /\ anne \in Seq(RunFacts)
      /\ dinner \in Seq(RunFacts) /\ murder \in Seq(RunFacts)
  BY <1>2, <1>3
<1> HIDE DEF ball, butler, clue, motive, held, seed, case, hall, cellar, anne, dinner, murder
<1>10. DOMAIN pkg = Ids
  BY <1>1 DEF Ids
<1>11. \A kind, facts : Ent(kind, facts).kind = kind /\ Ent(kind, facts).facts = facts
  BY DEF Ent
<1>12. \A id \in Ids : pkg[id].facts \in Seq(RunFacts)
  BY <1>1, <1>4, <1>5, <1>6, <1>7, <1>8, <1>9, <1>11 DEF Ids
<1>13. /\ pkg["ball"].kind = "scene" /\ pkg["anne"].kind = "character" /\ pkg["case"].kind = "case"
       /\ pkg["poison"].kind = "item" /\ \A id \in Ids : pkg[id].kind = "belief" => id = "held"
  BY <1>1, <1>6, <1>11 DEF Ids
<1>14. pkg["anne"].facts = anne /\ pkg["held"].facts = held /\ pkg["ball"].facts = ball
  BY <1>1, <1>11
<1> QED BY <1>10, <1>12, <1>13, <1>14 DEF anne, held, ball

LEMMA RunPackagesAreSmall ==
  ASSUME NEW i \in Packages, NEW pkg, pkg = PackageOf(i)
  PROVE  IsPackage(pkg) /\ Small(pkg, RunNames)
<1>1. DOMAIN pkg = Ids /\ \A id \in Ids : pkg[id].facts \in Seq(RunFacts)
  BY RunPackages
<1>2. \A id \in Ids : \A k \in DOMAIN pkg[id].facts : pkg[id].facts[k] \in RunFacts
  BY <1>1
<1>3. \A id \in Ids : \E n \in Nat : DOMAIN pkg[id].facts = 1 .. n
  BY <1>1
<1>4. IsPackage(pkg)
  BY <1>1, <1>2, <1>3, RunFactsAreNamed DEF IsPackage
<1>5. \A id \in Ids : \A p : IsRelationship(p) => W!Values(pkg[id], p) \subseteq RunNames
  BY <1>2, RunFactsAreNamed DEF W!Values, W!factsFor
<1>6. Ids \cup {"ann", "turn"} \subseteq RunNames
  BY DEF Ids, RunNames
<1> QED BY <1>1, <1>4, <1>5, <1>6, RunNamesAreFew DEF Small

LEMMA RunPackagesBegin ==
  ASSUME NEW i \in Packages, NEW pkg, pkg = PackageOf(i), W!validatePlaceEntities(pkg)
  PROVE  Begins(pkg)
<1>1. /\ DOMAIN pkg = Ids /\ pkg["ball"].kind = "scene" /\ pkg["anne"].kind = "character" /\ pkg["case"].kind = "case"
      /\ pkg["poison"].kind = "item"
      /\ pkg["anne"].facts = <<Ref("world.location", "hall")>>
      /\ pkg["ball"].facts = CASE i.scene = "nowhere" -> <<>>
                               [] i.scene = "twice"   -> <<Ref("scene.location", "hall"), Ref("scene.location", "cellar")>>
                               [] OTHER               -> <<Ref("scene.location", i.scene)>>
  BY RunPackages
<1>2. {"ball", "anne", "case", "poison"} \subseteq Ids /\ {"ann", "turn"} \cap Ids = {}
  BY DEF Ids
<1>3. W!validateScene(pkg, "ball")
  BY <1>1, <1>2 DEF W!validatePlaceEntities, W!OfKind
<1>4. \A p, v : Ref(p, v).p = p /\ Ref(p, v).v = v /\ Ref(p, v).type = "ref"
  BY DEF Ref
<1> DEFINE ball == pkg["ball"]
<1>5. i.scene \in {"nowhere", "hall", "poison", "twice"}
  BY DEF Packages
<1>6. i.scene # "nowhere"
  <2> SUFFICES ASSUME i.scene = "nowhere" PROVE FALSE
    OBVIOUS
  <2>1. ball.facts = <<>>
    BY <1>1
  <2>2. W!factsFor(ball, "scene.location") = {}
    BY <2>1 DEF W!factsFor
  <2> QED BY <1>3, <2>2 DEF W!validateScene
<1>7. i.scene # "twice"
  <2> SUFFICES ASSUME i.scene = "twice" PROVE FALSE
    OBVIOUS
  <2>1. ball.facts = <<Ref("scene.location", "hall"), Ref("scene.location", "cellar")>>
    BY <1>1
  <2>2. 1 \in W!factsFor(ball, "scene.location") /\ 2 \in W!factsFor(ball, "scene.location")
    BY <1>4, <2>1 DEF W!factsFor
  <2> QED BY <1>3, <2>2 DEF W!validateScene, W!atMostOne
<1>8. ball.facts = <<Ref("scene.location", i.scene)>>
  BY <1>1, <1>6, <1>7
<1>9. W!factsFor(ball, "scene.location") = {1}
  BY <1>4, <1>8 DEF W!factsFor
<1>10. W!requirePlaceRef(pkg, "ball", ball.facts[1])
  BY <1>3, <1>9 DEF W!validateScene, W!requirePlaceRefs
<1>11. ball.facts[1].v = i.scene
  BY <1>4, <1>8
<1>12. i.scene = "hall"
  <2>1. pkg[i.scene].kind = "location"
    BY <1>10, <1>11 DEF W!requirePlaceRef, W!requireRef
  <2> QED BY <1>1, <1>5, <1>6, <1>7, <2>1
<1>13. W!Values(ball, "scene.location") = {"hall"}
  BY <1>9, <1>11, <1>12 DEF W!Values
<1>14. W!Values(pkg["anne"], "world.location") = {"hall"}
  <2>1. W!factsFor(pkg["anne"], "world.location") = {1}
    BY <1>1, <1>4 DEF W!factsFor
  <2>2. pkg["anne"].facts[1].v = "hall"
    BY <1>1, <1>4
  <2> QED BY <2>1, <2>2 DEF W!Values
<1> QED BY <1>1, <1>2, <1>13, <1>14 DEF Begins

LEMMA RunBelievers ==
  ASSUME NEW i \in Packages, NEW pkg, pkg = PackageOf(i), {"ann", "turn"} \cap DOMAIN pkg = {}
  PROVE  Cardinality(DOMAIN Campaign(pkg).beliefs) <= MaxCasekeeperTargetActors
<1>1. DOMAIN pkg = Ids /\ \A id \in Ids : pkg[id].kind = "belief" => id = "held"
  BY RunPackages
<1>2. pkg["held"].facts = <<Ref("belief.holder", i.believer), Ref("belief.evidence", i.about2), Text("belief.stance", "denies")>>
  BY RunPackages
<1>3. \A p, v : Ref(p, v).p = p /\ Ref(p, v).v = v /\ Text(p, v).p = p
  BY DEF Ref, Text
<1>4. W!Values(pkg["held"], "belief.holder") \subseteq {i.believer}
  <2>1. \A k \in W!factsFor(pkg["held"], "belief.holder") : k = 1
    BY <1>2, <1>3 DEF W!factsFor
  <2>2. pkg["held"].facts[1].v = i.believer
    BY <1>2, <1>3
  <2> QED BY <2>1, <2>2 DEF W!Values
<1>5. Believers(pkg) \subseteq {i.believer}
  BY <1>1, <1>4 DEF Believers, W!OfKind
<1>6. DOMAIN Campaign(pkg).beliefs = Believers(pkg)
  BY CampaignStarts DEF StartsAs
<1>7. Cardinality({i.believer}) = 1 /\ IsFiniteSet({i.believer})
  BY FS_Singleton
<1>8. Cardinality(Believers(pkg)) <= 1 /\ IsFiniteSet(Believers(pkg))
  BY <1>5, <1>7, FS_Subset
<1>9. Cardinality(Believers(pkg)) \in Nat
  BY <1>8, FS_CardinalityType
<1> QED BY <1>6, <1>8, <1>9 DEF MaxCasekeeperTargetActors

(* The packages of the run: each that is accepted has an ordered timeline  *)
(* and, its believers suspects, a first turn for the casekeeper.           *)
THEOREM PackagesOfTheRun == Spec => []AcceptedWorldIsPlayable
<1> DEFINE Inputs == input.about = "package" => input \in Packages
<1>1. ASSUME Inputs PROVE AcceptedWorldIsPlayable
  <2> DEFINE pkg == PackageOf(input)
             w == Campaign(pkg)
  <2> SUFFICES ASSUME input.about = "package", Accepted(pkg)
               PROVE  /\ W!IsAnOrder(pkg, W!Values(pkg["case"], "case.timeline"))
                      /\ DOMAIN w.beliefs \subseteq W!Values(pkg["case"], "case.suspect") => Project(w, Casekeeper(w)).ok
    BY Zenon DEF AcceptedWorldIsPlayable
  <2>1. input \in Packages
    BY <1>1
  <2>2. W!validatePlaceEntities(pkg)
    BY DEF Accepted
  <2> HIDE DEF pkg
  <2>3. IsPackage(pkg) /\ Small(pkg, RunNames) /\ Begins(pkg)
    BY <2>1, <2>2, RunPackagesAreSmall, RunPackagesBegin DEF pkg
  <2>4. Cardinality(DOMAIN w.beliefs) <= MaxCasekeeperTargetActors
    BY <2>1, <2>3, RunBelievers DEF pkg, Begins
  <2> QED BY <2>3, <2>4, AcceptedPackagesArePlayable
<1>2. Init => Inputs
  BY DEF Init
<1>3. Inputs /\ [Next]_vars => Inputs'
  <2> SUFFICES ASSUME Inputs, [Next]_vars PROVE Inputs'
    OBVIOUS
  <2>1. CASE PickScene
    BY <2>1 DEF PickScene, Scenes
  <2>2. CASE PickRule
    BY <2>2 DEF PickRule, Rules
  <2>3. CASE PickPackage
    BY <2>3 DEF PickPackage
  <2>4. CASE PickWorldRule
    BY <2>4 DEF PickWorldRule, WorldRules
  <2>5. CASE UNCHANGED vars
    BY <2>5 DEF vars
  <2> QED BY <2>1, <2>2, <2>3, <2>4, <2>5 DEF Next
<1> HIDE DEF Inputs
<1>4. Inputs => AcceptedWorldIsPlayable
  BY <1>1
<1> QED BY <1>2, <1>3, <1>4, PTL DEF Spec
=============================================================================
