----------------------------- MODULE Epistemic -----------------------------
(***************************************************************************)
(* What each audience is told of a scene (internal/epistemic): the public  *)
(* part of the view, the evidence the acting character knows or was just   *)
(* shown, and for the audiences that may have it the case itself.          *)
(*                                                                         *)
(* A world w holds the graph and the two indices, the scope fixed at boot  *)
(* (the case and the beliefs of its actors) and what the other authorities *)
(* answer: whether the bond stands, whether this turn's denouement is      *)
(* authorized, and the evidence its companion cites.  Triples and bytes    *)
(* are bounded in the code as entities are here.                           *)
(***************************************************************************)
EXTENDS SceneView, TLC

Purposes == {"casekeeper", "player", "companion", "public-adjudicator", "narrator", "denouement", "verifier", "operator"}

publicWorldPredicates == {"entity.name", "entity.kind", "player.character", "world.location", "relation.knows"}
publicTurnPredicates == {"turn.phase", "turn.player", "turn.scene"}
narrationTurnPredicates == publicTurnPredicates \cup {"turn.companion-ref"}
evidencePredicates == {"entity.name", "entity.kind"}
bondPredicates == {"entity.kind", "bond.player", "bond.character", "bond.hint"}
casekeeperPredicates ==
  evidencePredicates \cup {"case.culprit", "case.method", "case.motive", "case.suspect", "case.evidence",
    "case.phase", "evidence.truth", "evidence.target", "belief.holder", "belief.evidence", "belief.stance"}

KindOf(w, e) == Objects(w.graph[e], "entity.kind")
exactString(w, e, p) == Single(Objects(w.graph[e], p))
requireEntityKind(w, e, kind) == KindOf(w, e) = {kind}

(* projectTriples, of each of some entities.                               *)
projectTriples(w, es, allowed) == [e \in es |-> {x \in w.graph[e] : x[1] \in allowed}]

(* Mutant of publicEntityKind: evidence lying about is public.             *)
publicEntityKindAny(w, e) ==
  \E k \in {"character", "item", "scene", "player", "evidence"} : KindOf(w, e) = {k}

publicEntityKind(w, e) ==
  \E k \in {"character", "item", "scene", "player"} : KindOf(w, e) = {k}

publicProjection(w, view, purpose) ==
  LET public(es) == {e \in es : publicEntityKind(w, e)}
      turnPredicates == IF purpose \in {"narrator", "denouement"} THEN narrationTurnPredicates ELSE publicTurnPredicates
  IN [turn |-> projectTriples(w, {view.turn}, turnPredicates),
      scene |-> projectTriples(w, {view.scene}, publicWorldPredicates),
      members |-> projectTriples(w, public(view.members), publicWorldPredicates),
      neighbours |-> projectTriples(w, public(view.neighbours), publicWorldPredicates)]

-----------------------------------------------------------------------------
(* Each source of more: whether it can be read, and what it adds.  The     *)
(* predicate index may still name a record that has changed since.         *)

queryIDs(w, p, v) == {e \in DOMAIN w.graph : <<p, v>> \in w.graph[e]} \cup w.stale
Within(w, ids) == Cardinality(ids) <= w.maxSupplemental
hydrateExtra(w, ids) == ids \cap DOMAIN w.graph

addEvidence(w, ids) ==
  Within(w, ids) /\ \A e \in hydrateExtra(w, ids) : requireEntityKind(w, e, "evidence")

knowledgeSound(w, actor) ==
  LET records == queryIDs(w, "knowledge.holder", actor)
  IN /\ Within(w, records)
     /\ \A k \in hydrateExtra(w, records) :
          /\ requireEntityKind(w, k, "knowledge")
          /\ Objects(w.graph[k], "knowledge.holder") = {actor}
          /\ exactString(w, k, "knowledge.evidence")
knownEvidence(w, actor) ==
  UNION {Objects(w.graph[k], "knowledge.evidence") : k \in hydrateExtra(w, queryIDs(w, "knowledge.holder", actor))}

revelationsSound(w, turn) ==
  LET records == queryIDs(w, "revelation.turn", turn)
  IN /\ Within(w, records)
     /\ \A r \in hydrateExtra(w, records) :
          /\ requireEntityKind(w, r, "revelation")
          /\ Objects(w.graph[r], "revelation.turn") = {turn}
          /\ exactString(w, r, "revelation.holder") /\ exactString(w, r, "revelation.evidence")
revealedEvidence(w, actor, turn) ==
  UNION {Objects(w.graph[r], "revelation.evidence") :
           r \in {x \in hydrateExtra(w, queryIDs(w, "revelation.turn", turn)) :
                    <<"revelation.holder", actor>> \in w.graph[x]}}

caseSound(w) ==
  /\ w.case # Unset /\ w.case \in DOMAIN w.graph
  /\ requireEntityKind(w, w.case, "case")
solutionSound(w) == \A p \in {"case.culprit", "case.method", "case.motive"} : exactString(w, w.case, p)
solutionOf(w) ==
  [part \in {"case.culprit", "case.method", "case.motive"} |-> TheOne(Objects(w.graph[w.case], part))]
solutionParts(w) == {solutionOf(w)[part] : part \in DOMAIN solutionOf(w)}

(* The evidence a companion cites is found, is evidence, and for an        *)
(* ordinary narrator is no part of the solution.                           *)
narrationSound(w, view, purpose) ==
  IF ~w.resolver THEN Objects(w.graph[view.turn], "turn.companion-ref") = {}
  ELSE /\ purpose = "narrator" /\ w.cited # {} /\ w.case # Unset =>
            caseSound(w) /\ solutionSound(w) /\ w.cited \cap solutionParts(w) = {}
       /\ addEvidence(w, w.cited) /\ w.cited \subseteq DOMAIN w.graph
narrationEvidence(w) == IF w.resolver THEN w.cited ELSE {}

authorizeDenouement(w) ==
  /\ caseSound(w) /\ solutionSound(w)
  /\ Objects(w.graph[w.case], "case.phase") = {"denouement"}
  /\ w.authorized

caseReferences(w) ==
  {x[2] : x \in {y \in w.graph[w.case] : y[1] \in casekeeperPredicates /\ IsEntityReference(y[1])}}
beliefRecords(w, targets) == UNION {w.beliefs[x] : x \in targets \cap DOMAIN w.beliefs}
casekeeperSound(w, members, targets) ==
  /\ caseSound(w)
  /\ Within(w, caseReferences(w)) /\ Within(w, beliefRecords(w, targets))
  /\ targets \subseteq Objects(w.graph[w.case], "case.suspect") \cup {e \in members : KindOf(w, e) = {"character"}}
  /\ \A x \in targets \cap DOMAIN w.beliefs : \A b \in w.beliefs[x] :
       /\ b \in DOMAIN w.graph
       /\ requireEntityKind(w, b, "belief")
       /\ Objects(w.graph[b], "belief.holder") = {x}
       /\ exactString(w, b, "belief.evidence")
       /\ Objects(w.graph[b], "belief.evidence") \subseteq Objects(w.graph[w.case], "case.evidence")
       /\ Objects(w.graph[b], "belief.stance") \in {{"affirms"}, {"denies"}, {"uncertain"}}
casekeeperState(w, targets) == {w.case} \cup hydrateExtra(w, caseReferences(w)) \cup beliefRecords(w, targets)

-----------------------------------------------------------------------------
(* NewScope and its audience: no belief of two actors, and no more holders *)
(* than the audience may name.                                             *)
NewScope(case, beliefs) ==
  /\ case = Unset => DOMAIN beliefs = {}
  /\ \A x, y \in DOMAIN beliefs : x # y => beliefs[x] \cap beliefs[y] = {}

MaxCasekeeperTargetActors == 8
validateAudience(w, a) ==
  /\ a.purpose \in {"casekeeper", "verifier", "denouement"} => a.case # Unset /\ a.case = w.case
  /\ a.purpose \notin {"verifier", "operator"} => a.turn # Unset
  /\ Cardinality(a.targets) <= MaxCasekeeperTargetActors
  /\ a.purpose = "companion" => a.companion # Unset /\ a.bond # Unset

authorizedActor(a, view) == IF a.purpose = "companion" THEN a.companion ELSE view.actor.character

Tells(w, a, view) ==
  LET actor == authorizedActor(a, view)
  IN CASE a.purpose = "public-adjudicator" -> knownEvidence(w, actor)
       [] a.purpose = "companion"          -> knownEvidence(w, actor)
       [] a.purpose = "player"             -> knownEvidence(w, actor) \cup revealedEvidence(w, actor, a.turn)
       [] a.purpose \in {"narrator", "denouement"} ->
            knownEvidence(w, actor) \cup revealedEvidence(w, actor, a.turn) \cup narrationEvidence(w)
       [] a.purpose = "casekeeper"         -> {}

Sound(w, a, view, members) ==
  LET actor == authorizedActor(a, view)
  IN /\ a.purpose # "casekeeper" => knowledgeSound(w, actor) /\ addEvidence(w, knownEvidence(w, actor))
     /\ a.purpose \in {"player", "narrator", "denouement"} =>
          revelationsSound(w, a.turn) /\ addEvidence(w, revealedEvidence(w, actor, a.turn))
     /\ a.purpose \in {"narrator", "denouement"} => narrationSound(w, view, a.purpose)
     /\ a.purpose = "denouement" => authorizeDenouement(w)
     /\ a.purpose = "companion" => w.bonded /\ a.bond \in DOMAIN w.graph
     /\ a.purpose = "casekeeper" => casekeeperSound(w, members, a.targets)

pruneDangling(facts, ids) == {x \in facts : IsEntityReference(x[1]) => x[2] \in ids}

(* finalize: an entity appears once, as a member before a neighbour, and   *)
(* refers to no entity that does not.                                      *)
Drop(f, ids) == [e \in DOMAIN f \ ids |-> f[e]]
Entities(p) == DOMAIN p.turn \cup DOMAIN p.scene \cup DOMAIN p.members \cup DOMAIN p.neighbours
Prune(f, ids) == [e \in DOMAIN f |-> pruneDangling(f[e], ids)]
finalize(p) ==
  LET fixed == DOMAIN p.turn \cup DOMAIN p.scene
      members == Drop(p.members, fixed)
      neighbours == Drop(p.neighbours, fixed \cup DOMAIN p.members)
      ids == fixed \cup DOMAIN members \cup DOMAIN neighbours
  IN [turn |-> Prune(p.turn, ids), scene |-> Prune(p.scene, ids),
      members |-> Prune(members, ids), neighbours |-> Prune(neighbours, ids)]

enforceProjectionBounds(w, p, base) ==
  /\ Cardinality(Entities(p)) <= w.maxEntities
  /\ Cardinality(Entities(p) \ base) <= w.maxSupplemental

(* Facts laid over facts: of an entity both name, the first has its say.   *)
Over(f, h) == [e \in DOMAIN f \cup DOMAIN h |-> IF e \in DOMAIN f THEN f[e] ELSE h[e]]

(* What is put together for an audience, before it is finalized.           *)
Gathered(w, a, view) ==
  LET told == projectTriples(w, hydrateExtra(w, Tells(w, a, view)), evidencePredicates)
      bond == projectTriples(w, {e \in {a.bond} : a.purpose = "companion"}, bondPredicates)
      state == projectTriples(w, IF a.purpose = "casekeeper" THEN casekeeperState(w, a.targets) ELSE {}, casekeeperPredicates)
  IN [publicProjection(w, view, a.purpose) EXCEPT !.neighbours = Over(state, Over(told, Over(bond, @)))]

Project(w, a) ==
  LET view == Assemble(w.graph, w.index, a.turn, w.cap)
      base == publicProjection(w, view, a.purpose)
      full == finalize(Gathered(w, a, view))
  IN CASE a.purpose = "operator" \/ ~validateAudience(w, a) -> Refuse
       [] a.purpose = "verifier" /\ validateAudience(w, a) ->
            IF caseSound(w) /\ solutionSound(w)
            THEN [ok |-> TRUE, actor |-> Unset, solution |-> solutionParts(w),
                  turn |-> <<>>, scene |-> <<>>, members |-> <<>>, neighbours |-> <<>>]
            ELSE Refuse
       [] OTHER ->
            IF /\ view.ok /\ Verified(view.actor)
               /\ Sound(w, a, view, DOMAIN base.members)
               /\ enforceProjectionBounds(w, full, Entities(base))
            THEN [ok |-> TRUE, actor |-> authorizedActor(a, view),
                  solution |-> IF a.purpose = "denouement" THEN solutionParts(w) ELSE {},
                  turn |-> full.turn, scene |-> full.scene, members |-> full.members, neighbours |-> full.neighbours]
            ELSE Refuse

-----------------------------------------------------------------------------
Ordinary == {"player", "companion", "public-adjudicator", "narrator"}

(* The evidence an actor may be told of, from the records themselves.      *)
MayLearn(w, a, actor) ==
  {e \in DOMAIN w.graph :
     /\ KindOf(w, e) = {"evidence"}
     /\ \/ \E k \in DOMAIN w.graph : {<<"entity.kind", "knowledge">>, <<"knowledge.holder", actor>>, <<"knowledge.evidence", e>>} \subseteq w.graph[k]
        \/ /\ a.purpose \in {"player", "narrator", "denouement"}
           /\ \E r \in DOMAIN w.graph : {<<"revelation.turn", a.turn>>, <<"revelation.holder", actor>>, <<"revelation.evidence", e>>} \subseteq w.graph[r]
        \/ a.purpose \in {"narrator", "denouement"} /\ w.resolver /\ e \in w.cited}

(* A projection tells its audience exactly the evidence its actor may      *)
(* learn of, wherever that evidence lies, no private predicate of it, and  *)
(* the solution only to whom it is due.                                    *)
TellsWhatIsAuthorized(w, a, p) ==
  /\ a.purpose \in Ordinary \cup {"denouement"} =>
       /\ {e \in Entities(p) : KindOf(w, e) = {"evidence"}} = MayLearn(w, a, p.actor)
       /\ \A f \in {p.members, p.neighbours} : \A e \in DOMAIN f : \A x \in f[e] :
            x[1] \notin casekeeperPredicates \ evidencePredicates
  /\ p.solution # {} =>
       \/ a.purpose = "verifier"
       \/ a.purpose = "denouement" /\ w.authorized /\ <<"case.phase", "denouement">> \in w.graph[w.case]

(* No fact of a projection refers to an entity that it does not show, none *)
(* is shown twice, and its bounds hold.                                    *)
IsClosed(w, p) ==
  /\ \A f \in {p.turn, p.scene, p.members, p.neighbours} : \A e \in DOMAIN f : \A x \in f[e] :
       IsEntityReference(x[1]) => x[2] \in Entities(p)
  /\ DOMAIN p.members \cap DOMAIN p.neighbours = {}
  /\ Cardinality(Entities(p)) <= w.maxEntities
=============================================================================
