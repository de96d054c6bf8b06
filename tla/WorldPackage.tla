---------------------------- MODULE WorldPackage ----------------------------
(***************************************************************************)
(* What a world package must satisfy before a campaign is made from it     *)
(* (internal/world): its places, its mystery, and the reach of its rules.  *)
(* A package maps local ids to entities; an entity has a kind and a        *)
(* sequence of facts, whose order does not matter and whose repetitions    *)
(* do; a fact's object is a reference, an integer or text.                 *)
(***************************************************************************)
EXTENDS Integers, Sequences, FiniteSets

(* A field that is left out: the empty string of the code.                 *)
Unset == "none"

CasePhaseNames == {"cold-open", "discovery", "investigation", "accusation", "denouement"}
RevealKinds == {"observe", "investigate"}
TruthStatuses == {"clue", "red-herring"}
Stances == {"affirms", "denies", "uncertain"}
Policies == {"reactive", "bounded-initiative"}

(* The facts of an entity with a predicate, by their positions.            *)
factsFor(e, p) == {i \in DOMAIN e.facts : e.facts[i].p = p}
Values(e, p) == {e.facts[i].v : i \in factsFor(e, p)}
The(e, p) == CHOOSE v \in Values(e, p) : TRUE
exactlyOne(e, p, type) == \E i \in DOMAIN e.facts : factsFor(e, p) = {i} /\ e.facts[i].type = type
exactlyOneRef(e, p) == exactlyOne(e, p, "ref")
exactlyOneInt(e, p) == exactlyOne(e, p, "int")
exactlyOneLiteral(e, p, allowed) == exactlyOne(e, p, "text") /\ Values(e, p) \subseteq allowed
distinct(e, p) == \A i, j \in factsFor(e, p) : e.facts[i].v = e.facts[j].v => i = j
unique(e, p, type) ==
  /\ factsFor(e, p) # {}
  /\ \A i \in factsFor(e, p) : e.facts[i].type = type
  /\ distinct(e, p)
uniqueRefs(e, p) == unique(e, p, "ref")
uniqueLiterals(e, p, allowed) == unique(e, p, "text") /\ Values(e, p) \subseteq allowed
requireRef(pkg, ref, kind) == ref \in DOMAIN pkg /\ pkg[ref].kind = kind
requireRefs(pkg, refs, kind) == \A ref \in refs : requireRef(pkg, ref, kind)
OfKind(pkg, kind) == {id \in DOMAIN pkg : pkg[id].kind = kind}

-----------------------------------------------------------------------------
(* Places.                                                                 *)

requirePlaceRef(pkg, id, f) == f.type = "ref" /\ f.v # id /\ requireRef(pkg, f.v, "location")
requirePlaceRefs(pkg, id, p) == \A i \in factsFor(pkg[id], p) : requirePlaceRef(pkg, id, pkg[id].facts[i])
atMostOne(e, p) == \A i, j \in factsFor(e, p) : i = j

(* Mutant of validateScene: a scene may be nowhere.                        *)
validateSceneAny(pkg, id) ==
  atMostOne(pkg[id], "scene.location") /\ requirePlaceRefs(pkg, id, "scene.location")

validateScene(pkg, id) ==
  /\ factsFor(pkg[id], "scene.location") # {}
  /\ atMostOne(pkg[id], "scene.location") /\ requirePlaceRefs(pkg, id, "scene.location")

validateOccupancy(pkg, id) ==
  atMostOne(pkg[id], "world.location") /\ requirePlaceRefs(pkg, id, "world.location")

(* Coordinates come in pairs and in range; here a latitude is an integer,  *)
(* and a value that is not finite is of another type.                      *)
validateCoordinate(e, p, limit) ==
  atMostOne(e, p) /\ \A i \in factsFor(e, p) : e.facts[i].type = "int" /\ e.facts[i].v \in -limit .. limit
validateLocation(pkg, id) ==
  LET e == pkg[id]
  IN /\ distinct(e, "location.connects-to") /\ requirePlaceRefs(pkg, id, "location.connects-to")
     /\ validateCoordinate(e, "geo.latitude", 90) /\ validateCoordinate(e, "geo.longitude", 180)
     /\ factsFor(e, "geo.latitude") = {} <=> factsFor(e, "geo.longitude") = {}

validatePlaceEntities(pkg) ==
  /\ \A id \in OfKind(pkg, "scene") : validateScene(pkg, id)
  /\ \A id \in OfKind(pkg, "character") \cup OfKind(pkg, "item") : validateOccupancy(pkg, id)
  /\ \A id \in OfKind(pkg, "location") : validateLocation(pkg, id)

-----------------------------------------------------------------------------
(* The mystery.                                                            *)

(* The orders, sorted, count from one.                                     *)
validateMysteryTimeline(pkg, events) ==
  LET order(e) == The(pkg[e], "timeline.order")
      sorted == CHOOSE s \in [1 .. Cardinality(events) -> events] :
                  /\ {s[i] : i \in DOMAIN s} = events
                  /\ \A i, j \in DOMAIN s : i < j => order(s[i]) <= order(s[j])
  IN /\ \A e \in events : exactlyOneInt(pkg[e], "timeline.order")
     /\ \A i \in DOMAIN sorted : order(sorted[i]) = i

validateEvidence(e) ==
  /\ exactlyOneLiteral(e, "evidence.truth", TruthStatuses)
  /\ exactlyOneLiteral(e, "evidence.phase", CasePhaseNames)
  /\ uniqueLiterals(e, "evidence.kind", RevealKinds)
  /\ uniqueRefs(e, "evidence.target")
validateMysteryEvidence(pkg, evidence, events) ==
  /\ \A e \in evidence : validateEvidence(pkg[e])
  /\ \E e \in evidence : The(pkg[e], "evidence.truth") = "red-herring"
  /\ OfKind(pkg, "evidence") \subseteq evidence
  /\ OfKind(pkg, "event") \subseteq events

recordSound(pkg, id, holder, ref, evidence) ==
  /\ exactlyOneRef(pkg[id], holder) /\ exactlyOneRef(pkg[id], ref)
  /\ requireRef(pkg, The(pkg[id], holder), "character")
  /\ The(pkg[id], ref) \in evidence
companionCandidate(e) == factsFor(e, "companion.policy") # {}
validateMysteryRecords(pkg, evidence) ==
  /\ \A b \in OfKind(pkg, "belief") :
       recordSound(pkg, b, "belief.holder", "belief.evidence", evidence)
         /\ exactlyOneLiteral(pkg[b], "belief.stance", Stances)
  /\ \A k \in OfKind(pkg, "knowledge") : recordSound(pkg, k, "knowledge.holder", "knowledge.evidence", evidence)
  /\ \A c \in OfKind(pkg, "character") : companionCandidate(pkg[c]) => exactlyOneLiteral(pkg[c], "companion.policy", Policies)

validateMysteryCase(pkg, id) ==
  LET c == pkg[id]
      suspects == Values(c, "case.suspect")
      evidence == Values(c, "case.evidence")
      events == Values(c, "case.timeline")
  IN /\ \A p \in {"case.culprit", "case.method", "case.motive", "case.victim"} : exactlyOneRef(c, p)
     /\ exactlyOneInt(c, "case.suspects-required") /\ exactlyOneInt(c, "case.evidence-required")
     /\ \A p \in {"case.suspect", "case.evidence", "case.timeline"} : uniqueRefs(c, p)
     /\ Cardinality(suspects) = The(c, "case.suspects-required")
     /\ Cardinality(evidence) = The(c, "case.evidence-required")
     /\ requireRefs(pkg, suspects \cup {The(c, "case.culprit"), The(c, "case.victim")}, "character")
     /\ requireRefs(pkg, evidence \cup {The(c, "case.motive")}, "evidence")
     /\ requireRefs(pkg, events, "event")
     /\ requireRef(pkg, The(c, "case.method"), "item")
     /\ The(c, "case.culprit") \in suspects
     /\ The(c, "case.motive") \in evidence
     /\ validateMysteryTimeline(pkg, events)
     /\ validateMysteryEvidence(pkg, evidence, events)
     /\ validateMysteryRecords(pkg, evidence)
     /\ OfKind(pkg, "belief") # {} /\ OfKind(pkg, "knowledge") # {}
     /\ \E ch \in OfKind(pkg, "character") : companionCandidate(pkg[ch])

IsProtectedPredicate(p) == p \in {"case.culprit", "case.method", "case.motive", "evidence.truth"}
HasMysteryRecords(pkg) ==
  \E id \in DOMAIN pkg :
    \/ pkg[id].kind \in {"case", "evidence", "event", "belief", "knowledge"}
    \/ \E i \in DOMAIN pkg[id].facts : IsProtectedPredicate(pkg[id].facts[i].p)
validateMysteryEntities(pkg) ==
  HasMysteryRecords(pkg) => \E c \in DOMAIN pkg : OfKind(pkg, "case") = {c} /\ validateMysteryCase(pkg, c)

-----------------------------------------------------------------------------
(* The rules of a package.  A predicate has a domain and a category, or is *)
(* a template; an object is a name, a template, or the entity at hand.     *)

enginePredicateNamespaces ==
  [whole |-> {"turn"},
   category |-> {<<"campaign", "seed">>, <<"campaign", "import">>, <<"campaign", "experience">>,
                 <<"player", "turn">>, <<"case", "solution">>, <<"evidence", "truth-status">>,
                 <<"case", "lifecycle">>}]

(* Mutant of reservedDomainFor: only whole domains are reserved.           *)
reservedDomainOnly(p) == p[1] \in enginePredicateNamespaces.whole

reservedDomainFor(p) ==
  \/ p[1] \in enginePredicateNamespaces.whole
  \/ <<p[1], p[2]>> \in enginePredicateNamespaces.category

Template == <<"$", Unset>>
checkReservedPredicate(p) == p # Template /\ ~reservedDomainFor(p)
LifecycleField == <<"$entity.lifecycle", Unset>>
checkConditionScope(field) == field # LifecycleField /\ ~reservedDomainFor(field)

maxWorldPackageActionIterations == 4
DefaultActionMaxIterations == 1
checkActionBound(a) ==
  LET bound == IF a.max = {} THEN DefaultActionMaxIterations ELSE CHOOSE n \in a.max : TRUE
  IN bound \in 1 .. maxWorldPackageActionIterations

GraphActions == {"add-triple", "remove-triple", "update-triple", "reconcile-predicates"}
ReferencePredicates == {<<"world", "relation">>}

(* What a rule may write: its own entity, the one it is related to, or     *)
(* something that is no entity.                                            *)
checkObject(a, related) ==
  \/ a.type = "remove-triple"
  \/ a.type = "reconcile-predicates" /\ a.object = Unset
  \/ a.object = "$entity.id"
  \/ a.object = "$related.id" /\ related
  \/ a.object \in {Unset, "text"} /\ a.predicate \notin ReferencePredicates

checkGraphActionScope(a, related) ==
  /\ checkReservedPredicate(a.predicate)
  /\ a.subject \in {Unset, "$entity.id"}
  /\ checkObject(a, related)

checkActionScope(a, related) ==
  /\ \A field \in a.when : checkConditionScope(field)
  /\ checkActionBound(a)
  /\ \/ a.type \in GraphActions /\ checkGraphActionScope(a, related)
     \/ a.type = "deny"

checkRuleScope(r) ==
  /\ \A field \in r.conditions : checkConditionScope(field)
  /\ \A a \in r.actions : checkActionScope(a, r.related)

(* The rule processor at work: what an action writes when the names it     *)
(* substitutes have the values of b.                                       *)
Substitute(x, b) == IF x \in DOMAIN b THEN b[x] ELSE x
Writes(a, b) ==
  IF a.type \notin GraphActions THEN {}
  ELSE {[subject |-> IF a.subject = Unset THEN b["$entity.id"] ELSE Substitute(a.subject, b),
         predicate |-> a.predicate,
         object |-> Substitute(a.object, b)]}

-----------------------------------------------------------------------------
(* A case's timeline as its readers need it: no gap and no tie.            *)
IsAnOrder(pkg, events) ==
  \E place \in [events -> 1 .. Cardinality(events)] :
    /\ \A e, f \in events : e # f => place[e] # place[f]
    /\ \A e \in events : Values(pkg[e], "timeline.order") = {place[e]}

(* The predicates the engine's components own, in the words of those who   *)
(* write them: the recorder, the campaign gate, intake and the case.       *)
EngineOwned ==
  {<<"turn", "phase">>, <<"turn", "verdict">>, <<"campaign", "seed">>, <<"campaign", "import">>,
   <<"player", "turn">>, <<"case", "lifecycle">>, <<"case", "solution">>, <<"evidence", "truth-status">>}

(* Nothing a rule writes, whatever the names it substitutes stand for, is  *)
(* the engine's, is about another entity, or points at one it was not      *)
(* given.                                                                  *)
StaysInScope(r, b) ==
  \A a \in r.actions : \A w \in Writes(a, b) :
    /\ w.subject = b["$entity.id"]
    /\ w.predicate \notin EngineOwned \cup {Template}
    /\ a.type # "remove-triple" =>
         w.object \in {Unset, "text", b["$entity.id"]} \cup {x \in {b["$related.id"]} : r.related}
=============================================================================
