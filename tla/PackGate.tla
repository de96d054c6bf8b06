------------------------------ MODULE PackGate ------------------------------
(***************************************************************************)
(* The load-time gates of the turn-sequencing rule pack                    *)
(* (internal/rulepack/pack.go).  A rule has conditions on fields of the    *)
(* turn, and actions that publish triggers when it begins to match or, at  *)
(* boot, is found matching.  Values are sets, a single one for eq and ne;  *)
(* subjects are named by the stage they start.                             *)
(***************************************************************************)
EXTENDS TurnPhases

stagePhases == {"interpreting", "adjudicating", "resolving", "applying", "companion", "narrating", "complete"}
PhaseForSubject(subject) == {p \in stagePhases : p = subject}
knownSubject(subject) ==
  subject \in {"resolved", "knowledge", "accusation", "case-progress"} \/ PhaseForSubject(subject) # {}

StageArtifacts(p) ==
  CASE p = "interpreting" -> {"case-decision.ref"}
    [] p = "adjudicating" -> {"verdict.scalars", "verdict.ref"}
    [] p = "resolving"    -> {"roll.band", "roll.ref"}
    [] p = "applying"     -> {"effects.batch", "effects.ref"}
    [] p = "companion"    -> {"companion-stage.ref", "companion-decision.ref"}
    [] p = "narrating"    -> {"narration.ref"}
    [] OTHER              -> {}
RollBands == {"miss", "partial", "full"}
EntityPattern == "turn"
Template == "$"

(* checkCondition: every value is known at load time, a transition names   *)
(* all the phases it may come from, and a phase is matched by eq alone.    *)
checkCondition(c) ==
  /\ ~c.required
  /\ Template \notin c.value
  /\ \/ c.op = "transition" /\ \E p \in Phases : c.value = {p} /\ c.from = Predecessors[p]
     \/ c.op = "in" /\ c.field = "roll.band" /\ c.value = RollBands
     \/ c.op = "eq" /\ (c.field = "phase" => c.value \subseteq Phases)
     \/ c.op = "ne" /\ c.field # "phase"

phaseGates(d) ==
  {[phase |-> CHOOSE p \in c.value : TRUE, op |-> c.op] :
     c \in {x \in d.conditions : x.field = "phase" /\ x.op \in {"eq", "transition"}}}

(* Mutant of gatedOnArtifact: any condition but the phase is a gate.       *)
gatedOnAnything(d, artifacts) == \E c \in d.conditions : c.field # "phase"

gatedOnArtifact(d, artifacts) == \E c \in d.conditions : c.field \in artifacts

(* A phase is entered before its stage has done anything: a rule that      *)
(* finds a turn in it also asks for what the stage leaves.                 *)
checkArtifactGate(d) ==
  \A gate \in phaseGates(d) :
    \/ gate.op = "transition"
    \/ gate.phase = "accepted"
    \/ StageArtifacts(gate.phase) # {} /\ gatedOnArtifact(d, StageArtifacts(gate.phase))

checkPhaseEdges(d) ==
  \A gate \in phaseGates(d), a \in d.onEnter \cup d.onRecovery :
    \A target \in PhaseForSubject(a.subject) : PhaseFollows(gate.phase, target)

(* max is the declared cap, Inherited when there is none.                  *)
Inherited == "inherited"
checkAction(a) ==
  /\ a.type = "publish"
  /\ knownSubject(a.subject)
  /\ ~a.properties
  /\ a.max \notin {Inherited, "0"}
  /\ PhaseForSubject(a.subject) = {"companion"} => a.max = "1"

subjectsOf(actions) == {a.subject : a \in actions}
checkActions(d) ==
  /\ d.onEnter # {} /\ d.onRecovery # {} /\ d.other = {}
  /\ \A a \in d.onEnter \cup d.onRecovery : checkAction(a)
  /\ subjectsOf(d.onEnter) = subjectsOf(d.onRecovery)

checkDefinition(d) ==
  /\ d.enabled
  /\ d.pattern = EntityPattern
  /\ d.logic = "and"
  /\ d.conditions # {}
  /\ ~d.cooldown
  /\ \A c \in d.conditions : checkCondition(c)
  /\ phaseGates(d) # {}
  /\ checkArtifactGate(d)
  /\ checkActions(d)
  /\ checkPhaseEdges(d)

(* A pack is keyed by rule id, so that no id is declared twice.            *)
Check(pack) == DOMAIN pack # {} /\ \A id \in DOMAIN pack : checkDefinition(pack[id])

-----------------------------------------------------------------------------
(* How the rule processor reads a rule: all conditions, an absent field    *)
(* matching none, a transition on the change of phase.  A turn here is its *)
(* fields with their values, the phase before, and whether it just moved.  *)
Holds(c, turn) ==
  /\ c.field \in DOMAIN turn.fields
  /\ LET v == turn.fields[c.field]
     IN \/ c.op \in {"eq", "in"} /\ v \in c.value
        \/ c.op = "ne" /\ v \notin c.value
        \/ c.op = "transition" /\ v \in c.value /\ turn.moved /\ turn.previous \in c.from
Matches(d, turn) ==
  IF d.logic = "and" THEN \A c \in d.conditions : Holds(c, turn) ELSE \E c \in d.conditions : Holds(c, turn)

(* A rule that matches a turn starts only what may follow the phase the    *)
(* turn is in, and, found in a stage's phase, only once the stage has left *)
(* its record.                                                             *)
FiresInOrder(d, turn) ==
  Matches(d, turn) =>
    \A s \in subjectsOf(d.onEnter \cup d.onRecovery) : \A target \in PhaseForSubject(s) :
      /\ PhaseFollows(turn.fields["phase"], target)
      /\ \/ turn.fields["phase"] = "accepted"
         \/ turn.moved
         \/ StageArtifacts(turn.fields["phase"]) \cap DOMAIN turn.fields # {}
=============================================================================
