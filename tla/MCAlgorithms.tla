---------------------------- MODULE MCAlgorithms ----------------------------
(***************************************************************************)
(* The decisions that are taken in one go, over bounded inputs: one step   *)
(* picks an input, and the invariants compare what the code makes of it    *)
(* with what it should be.                                                 *)
(***************************************************************************)
EXTENDS Integers, Sequences, Epistemic

P == INSTANCE PackGate
W == INSTANCE WorldPackage

VARIABLE input
vars == <<input>>

Init == input = [about |-> "nothing"]

-----------------------------------------------------------------------------
(* Scenes: a turn of anne's in the hall, with watson, a poison and         *)
(* whatever the choices put there.                                         *)
Scenes == [about : {"scene"}, purpose : Purposes, clueInHall : BOOLEAN, holder : {"anne", "watson"},
           learns : {"clue", "motive", "gone"}, shownTo : {"anne", "watson"}, solved : BOOLEAN,
           authorized : BOOLEAN, cites : SUBSET {"clue", "motive"}, present : BOOLEAN,
           ghost : BOOLEAN, stale : BOOLEAN, tight : BOOLEAN]

Kind(k) == {<<"entity.kind", k>>, <<"entity.name", "text">>}
GraphOf(i) ==
  [turn |-> {<<"turn.scene", "ball">>, <<"turn.player", "ann">>, <<"turn.phase", "narrating">>, <<"turn.companion-ref", "ref">>},
   ball |-> Kind("scene") \cup {<<"scene.location", "hall">>},
   hall |-> Kind("location"),
   ann |-> Kind("player") \cup {<<"player.character", "anne">>},
   anne |-> Kind("character") \cup {<<"world.location", "hall">>, <<"relation.knows", "butler">>, <<"authored.secret", "motive">>},
   watson |-> Kind("character") \cup {<<"world.location", "hall">>},
   butler |-> Kind("character") \cup {<<"world.location", "cellar">>},
   poison |-> Kind("item") \cup {<<"world.location", "hall">>},
   clue |-> Kind("evidence") \cup {<<"evidence.truth", "clue">>, <<"world.location", IF i.clueInHall THEN "hall" ELSE "cellar">>},
   motive |-> Kind("evidence") \cup {<<"evidence.truth", "clue">>},
   known |-> Kind("knowledge") \cup {<<"knowledge.holder", i.holder>>, <<"knowledge.evidence", i.learns>>},
   heard |-> Kind("knowledge") \cup {<<"knowledge.holder", "butler">>, <<"knowledge.evidence", "motive">>},
   shown |-> Kind("revelation") \cup {<<"revelation.turn", "turn">>, <<"revelation.holder", i.shownTo>>, <<"revelation.evidence", "clue">>},
   held |-> Kind("belief") \cup {<<"belief.holder", "butler">>, <<"belief.evidence", "motive">>, <<"belief.stance", "denies">>},
   bond |-> Kind("companion-bond") \cup {<<"bond.player", "ann">>, <<"bond.character", "watson">>, <<"bond.hint", "nudge">>},
   case |-> Kind("case") \cup {<<"case.culprit", "butler">>, <<"case.method", "poison">>, <<"case.motive", "motive">>,
                  <<"case.suspect", "butler">>, <<"case.evidence", "clue">>, <<"case.evidence", "motive">>,
                  <<"case.phase", IF i.solved THEN "denouement" ELSE "accusation">>}]

Here(g, place) == {<<e, "world.location", place>> : e \in {x \in DOMAIN g : <<"world.location", place>> \in g[x]}}
WorldOf(i) ==
  [graph |-> GraphOf(i),
   index |-> {x \in Here(GraphOf(i), "hall") : x[1] = "anne" => i.present}
               \cup {x \in {<<"ghost", "world.location", "hall">>} : i.ghost},
   stale |-> {x \in {"heard"} : i.stale}, case |-> "case", beliefs |-> [x \in {"butler"} |-> {"held"}],
   resolver |-> TRUE, cited |-> i.cites, authorized |-> i.authorized, bonded |-> TRUE,
   cap |-> IF i.tight THEN 8 ELSE 64, maxSupplemental |-> IF i.tight THEN 2 ELSE 32,
   maxEntities |-> IF i.tight THEN 8 ELSE 96]
AudienceOf(i) ==
  [purpose |-> i.purpose, turn |-> "turn", case |-> "case", targets |-> IF i.purpose = "casekeeper" THEN {"butler"} ELSE {},
   companion |-> "watson", bond |-> "bond"]

PickScene == input.about = "nothing" /\ input' \in Scenes

(* scene.Assembler.Assemble: whatever the index trails the graph by, a     *)
(* view shows everything it refers to or says that it is missing, keeps    *)
(* the cap, and never takes a character who is not there for the actor.    *)
ViewsAreWhole ==
  input.about = "scene" =>
    LET w == WorldOf(input)
        view == Assemble(w.graph, w.index, "turn", w.cap)
    IN view.ok => ViewIsWhole(w.graph, view, w.cap)

(* epistemic.Projector.Project: each audience is told exactly the evidence *)
(* its actor knows, was shown or may hear of, with nothing private about   *)
(* it, only a due denouement or the verifier sees the solution, and what   *)
(* is left out leaves no reference behind.                                 *)
ProjectionsAreAuthorized ==
  input.about = "scene" =>
    LET w == WorldOf(input)
        p == Project(w, AudienceOf(input))
    IN p.ok => TellsWhatIsAuthorized(w, AudienceOf(input), p) /\ IsClosed(w, p)

-----------------------------------------------------------------------------
(* Rule packs of one rule with up to two conditions.                       *)
Cond(field, op, value, from) == [field |-> field, op |-> op, value |-> value, from |-> from, required |-> FALSE]
Conditions ==
  {Cond("phase", "eq", {p}, {}) : p \in {"accepted", "adjudicating", "resolving", "applying", "complete"}}
  \cup {Cond("phase", "ne", {"adjudicating"}, {}),
        Cond("phase", "eq", {"$"}, {}),
        Cond("phase", "transition", {"complete"}, {"narrating"}),
        Cond("phase", "transition", {"adjudicating"}, {"accepted"}),
        Cond("verdict.ref", "ne", {"none"}, {}),
        Cond("verdict.scalars", "eq", {"roll"}, {}),
        Cond("roll.band", "in", P!RollBands, {}),
        Cond("roll.band", "in", {"full"}, {}),
        Cond("player", "ne", {"none"}, {}),
        [Cond("effects.batch", "ne", {"none"}, {}) EXCEPT !.required = TRUE],
        Cond("effects.batch", "exists", {"none"}, {})}
Publish(s, max) == [type |-> "publish", subject |-> s, properties |-> FALSE, max |-> max]
Actions ==
  {Publish(s, "2") : s \in {"interpreting", "resolving", "applying", "knowledge", "resolved", "elsewhere"}}
  \cup {Publish("companion", "1"), Publish("companion", "2"), Publish("applying", "0"), Publish("applying", P!Inherited)}
Rules ==
  [about : {"rule"}, conditions : {S \in SUBSET Conditions : Cardinality(S) <= 2},
   onEnter : {S \in SUBSET Actions : Cardinality(S) = 1}, onRecovery : {S \in SUBSET Actions : Cardinality(S) = 1},
   logic : {"and"}, enabled : {TRUE}, pattern : {P!EntityPattern}, cooldown : {FALSE}, other : {{}}]
  \cup [about : {"rule"}, conditions : {S \in SUBSET Conditions : Cardinality(S) = 2},
        onEnter : {{Publish("applying", "2")}}, onRecovery : {{Publish("applying", "2")}},
        logic : {"and", "or"}, enabled : BOOLEAN, pattern : {P!EntityPattern, "*"}, cooldown : BOOLEAN,
        other : {{}, {Publish("applying", "2")}}]

(* Turns as a stage leaves them: in a phase it entered, with the records   *)
(* of the stages before and, when it is done, its own.                     *)
Before(p) == UNION {P!StageArtifacts(q) : q \in {x \in P!Phases : P!Rank[x] < P!Rank[p]}}
FieldsOf(p, done) == {"phase", "player"} \cup Before(p) \cup (IF done THEN P!StageArtifacts(p) ELSE {})
ValueOf(f, p) == CASE f = "phase" -> p [] f = "roll.band" -> "full" [] f = "verdict.scalars" -> "roll" [] OTHER -> "ref"
TurnStates ==
  UNION {{[fields |-> [f \in FieldsOf(p, done) |-> ValueOf(f, p)], previous |-> q, moved |-> moved]
            : q \in P!Predecessors[p] \cup {"none"}, done \in BOOLEAN, moved \in BOOLEAN} : p \in P!Phases}

PickRule == input.about = "nothing" /\ input' \in Rules

(* rulepack.Check: a rule the pack may hold never starts a stage out of    *)
(* turn, nor on the strength of a phase whose stage has yet to finish.     *)
RulesFireInOrder ==
  input.about = "rule" /\ P!Check([id \in {"it"} |-> input]) =>
    \A turn \in TurnStates : P!FiresInOrder(input, turn)

-----------------------------------------------------------------------------
(* World packages: a small mystery, with one thing or another about it.    *)
Packages ==
  [about : {"package"}, scene : {"nowhere", "hall", "poison", "twice"}, first : 1 .. 3, second : 1 .. 3,
   culprit : {"butler", "anne"}, motiveInCase : BOOLEAN, about2 : {"motive", "poison"}, believer : {"butler", "anne"},
   required : {1, 2}, herring : BOOLEAN, policy : {"none", "reactive", "odd"}, twice : BOOLEAN, stray : BOOLEAN]

Ref(p, v) == [p |-> p, type |-> "ref", v |-> v]
Number(p, v) == [p |-> p, type |-> "int", v |-> v]
Text(p, v) == [p |-> p, type |-> "text", v |-> v]
When(c, f) == IF c THEN <<f>> ELSE <<>>
Ent(kind, facts) == [kind |-> kind, facts |-> facts]
EvidenceOf(truth) ==
  Ent("evidence", <<Text("evidence.truth", truth), Text("evidence.phase", "discovery"),
                    Text("evidence.kind", "observe"), Ref("evidence.target", "poison")>>)
PackageOf(i) ==
  [ball |-> Ent("scene", CASE i.scene = "nowhere" -> <<>>
                           [] i.scene = "twice"   -> <<Ref("scene.location", "hall"), Ref("scene.location", "cellar")>>
                           [] OTHER               -> <<Ref("scene.location", i.scene)>>),
   hall |-> Ent("location", <<Ref("location.connects-to", "cellar")>>),
   cellar |-> Ent("location", <<Number("geo.latitude", 51), Number("geo.longitude", -3)>>),
   anne |-> Ent("character", <<Ref("world.location", "hall")>>),
   butler |-> Ent("character", <<Ref("world.location", "cellar")>> \o When(i.policy # "none", Text("companion.policy", i.policy))),
   poison |-> Ent("item", <<Ref("world.location", "hall")>>),
   clue |-> EvidenceOf(IF i.herring THEN "red-herring" ELSE "clue"),
   motive |-> EvidenceOf("clue"),
   dinner |-> Ent("event", <<Number("timeline.order", i.first)>>),
   murder |-> Ent("event", <<Number("timeline.order", i.second)>>),
   held |-> Ent("belief", <<Ref("belief.holder", i.believer), Ref("belief.evidence", i.about2), Text("belief.stance", "denies")>>),
   seed |-> Ent("knowledge", <<Ref("knowledge.holder", "anne"), Ref("knowledge.evidence", "clue")>>),
   case |-> Ent("case",
       <<Ref("case.culprit", i.culprit), Ref("case.method", "poison"), Ref("case.motive", "motive"), Ref("case.victim", "anne"),
         Number("case.suspects-required", i.required), Number("case.evidence-required", 2), Ref("case.suspect", "butler"),
         Ref("case.evidence", "clue"), Ref("case.timeline", "dinner"), Text("case.phase", "cold-open")>>
       \o When(i.twice, Ref("case.suspect", "butler"))
       \o When(i.motiveInCase, Ref("case.evidence", "motive"))
       \o When(~i.stray, Ref("case.timeline", "murder")))]

(* The campaign such a package starts with, and its casekeeper.            *)
Triples(e) == {<<"entity.kind", e.kind>>}
                \cup {<<e.facts[k].p, e.facts[k].v>> : k \in {n \in DOMAIN e.facts : e.facts[n].type # "int"}}
Campaign(pkg) ==
  LET g == [id \in DOMAIN pkg \cup {"ann", "turn"} |->
              CASE id = "ann"  -> {<<"entity.kind", "player">>, <<"player.character", "anne">>}
                [] id = "turn" -> {<<"turn.scene", "ball">>, <<"turn.player", "ann">>}
                [] OTHER       -> Triples(pkg[id])]
      beliefs == W!OfKind(pkg, "belief")
      holders == UNION {W!Values(pkg[b], "belief.holder") : b \in beliefs}
  IN [graph |-> g, index |-> UNION {Here(g, place) : place \in W!OfKind(pkg, "location")}, stale |-> {}, case |-> "case",
      beliefs |-> [x \in holders |-> {b \in beliefs : x \in W!Values(pkg[b], "belief.holder")}], resolver |-> TRUE,
      cited |-> {}, authorized |-> FALSE, bonded |-> FALSE, cap |-> 64, maxSupplemental |-> 32, maxEntities |-> 96]
Casekeeper(w) ==
  [purpose |-> "casekeeper", turn |-> "turn", case |-> "case", targets |-> DOMAIN w.beliefs, companion |-> Unset, bond |-> Unset]

Accepted(pkg) == W!validatePlaceEntities(pkg) /\ W!validateMysteryEntities(pkg)
PickPackage == input.about = "nothing" /\ input' \in Packages

(* world.validatePlaceEntities and validateMysteryEntities: the timeline   *)
(* of an accepted package has no gap and no tie, and the casekeeper        *)
(* of a campaign made from an accepted package can be shown its first turn *)
(* when every belief in it is a suspect's.  (A bystander's belief may be   *)
(* accepted too; then the projection is refused wherever they are not.)    *)
AcceptedWorldIsPlayable ==
  input.about = "package" =>
    LET pkg == PackageOf(input)
        w == Campaign(pkg)
    IN Accepted(pkg) =>
         /\ W!IsAnOrder(pkg, W!Values(pkg["case"], "case.timeline"))
         /\ DOMAIN w.beliefs \subseteq W!Values(pkg["case"], "case.suspect") => Project(w, Casekeeper(w)).ok

-----------------------------------------------------------------------------
(* Rules of a world package, with one condition and one action.            *)
Fields == {<<"world", "mood">>, <<"world", "relation">>, <<"turn", "verdict">>, <<"case", "lifecycle">>,
           <<"player", "turn">>, W!Template, W!LifecycleField}
WorldActions ==
  [type : W!GraphActions \cup {"deny", "publish"}, predicate : Fields, subject : {W!Unset, "$entity.id", "$related.id", "other"},
   object : {W!Unset, "text", "$entity.id", "$related.id", "$message", "other"}, max : {{}, {0}, {4}, {5}}, when : {{}}]
WorldRules == [about : {"world-rule"}, conditions : {{f} : f \in {<<"world", "mood">>, <<"turn", "phase">>, W!LifecycleField}},
               actions : {{a} : a \in WorldActions}, related : BOOLEAN]
Bindings == [{"$entity.id", "$related.id", "$message"} -> {"me", "you", "other"}]

PickWorldRule == input.about = "nothing" /\ input' \in WorldRules

(* world.checkRuleScope: an accepted rule of a package never writes what   *)
(* the engine owns nor about any entity but its own, whatever the names it *)
(* substitutes turn out to be.                                             *)
RulesStayInScope ==
  input.about = "world-rule" /\ W!checkRuleScope(input) =>
    \A b \in Bindings : W!StaysInScope(input, b)

-----------------------------------------------------------------------------
Next == PickScene \/ PickRule \/ PickPackage \/ PickWorldRule
Spec == Init /\ [][Next]_vars
=============================================================================
