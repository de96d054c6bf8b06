------------------------------ MODULE CaseRules ------------------------------
(***************************************************************************)
(* What the mystery components decide from the records they read, without  *)
(* the steps in which they read and write them: the edges of the case      *)
(* lifecycle (internal/rulepack/caseflow.go, internal/caseflow), who may   *)
(* learn what (internal/knowledge/authorize.go), what an accusation amounts *)
(* to (internal/accusation/verifier.go) and what the companion may hint at *)
(* (internal/companion).  Entities are opaque; the reasons and texts of a  *)
(* refusal are left out.                                                   *)
(***************************************************************************)
EXTENDS Naturals, Sequences, FiniteSets

CONSTANTS
  CaseEvidence,    \* evidence that is a member of the case
  CaseCharacters,  \* its suspects and its victim
  Victim,
  Solution,        \* <<culprit, method, motive>>
  Reveal,          \* evidence -> the phase, kinds and targets that reveal it
  Beliefs,         \* <<holder, evidence>> pairs the world author wrote
  None

CasePhases == <<"cold-open", "discovery", "investigation", "accusation", "denouement">>
phaseRank(p) == CHOOSE i \in DOMAIN CasePhases : CasePhases[i] = p
Phases == {CasePhases[i] : i \in DOMAIN CasePhases}

Kinds == {"observe", "investigate", "question", "share", "request-hint", "accuse", "other", "not-applicable"}
Events == {"body-observed", "investigation-started", "accusation-submitted", "accusation-correct"}

(* A decision names a whole theory when it accuses, and none otherwise.    *)
ValidDecision(d) ==
  /\ d.kind \in Kinds
  /\ IF d.kind = "accuse" THEN Len(d.theory) = 3 ELSE d.theory = None

(* The phase an event leaves and the one it enters.                        *)
edgeFor(kind) ==
  CASE kind = "body-observed"         -> <<"cold-open", "discovery">>
    [] kind = "investigation-started" -> <<"discovery", "investigation">>
    [] kind = "accusation-submitted"  -> <<"investigation", "accusation">>
    [] kind = "accusation-correct"    -> <<"accusation", "denouement">>
From(kind) == edgeFor(kind)[1]
To(kind) == edgeFor(kind)[2]

(* What a progress consumer makes of a decision: the victim observed, or   *)
(* an investigation; nothing else moves the case here.                     *)
derive(d) ==
  CASE d.kind = "observe" /\ Victim \in d.targets -> "body-observed"
    [] d.kind = "investigate"                     -> "investigation-started"
    [] OTHER                                      -> None

(* Verify: all three references, compared exactly, and one bit of answer.  *)
Verify(d) == IF d.theory = Solution THEN "correct" ELSE "incorrect"

-----------------------------------------------------------------------------
(* AuthorizeWithWitnesses.  A plan is the set of entries to grant: who     *)
(* learns which evidence, and from whose testimony.                        *)

SolutionLocked == {Solution[i] : i \in DOMAIN Solution}
phaseAtLeast(ph, min) == phaseRank(ph) >= phaseRank(min)
actorEntries(who, es) == {[who |-> who, what |-> e, told |-> None] : e \in es}

Unlocked(e, ph) == e \in SolutionLocked => ph = "denouement"

(* The preflight's eligibility of one piece of evidence, for observing and *)
(* investigating.                                                          *)
Eligible(d, e, ph) ==
  /\ Unlocked(e, ph)
  /\ e \in CaseEvidence
  /\ e \in DOMAIN Reveal
  /\ d.kind \in Reveal[e].kinds
  /\ phaseAtLeast(ph, Reveal[e].phase)
  /\ d.targets \cap Reveal[e].targets # {}

(* Mutant of MayTestify: a witness may testify to the solution.            *)
MayTestifyUnlocked(d, e, ph) ==
  e \in CaseEvidence /\ \E h \in d.targets : <<h, e>> \in Beliefs

(* A question: the one character asked must hold an authored belief.       *)
MayTestify(d, e, ph) ==
  /\ Unlocked(e, ph)
  /\ e \in CaseEvidence
  /\ \E h \in d.targets : <<h, e>> \in Beliefs

(* What is refused, and what an authorized decision grants: observing and  *)
(* investigating reveal to the actor and to a witness, a question to the   *)
(* actor alone, and sharing to the one it is shared with.                  *)
RefusesReveal(d, ph) == \E e \in d.reveals : ~Eligible(d, e, ph)
RevealEntries(d, actor, witness) ==
  actorEntries(actor, d.reveals) \cup (IF witness = None THEN {} ELSE actorEntries(witness, d.reveals))
RefusesQuestion(d, ph) ==
  \/ Cardinality(d.targets) # 1
  \/ ~(d.targets \subseteq CaseCharacters)
  \/ \E e \in d.reveals : ~MayTestify(d, e, ph)
QuestionEntries(d, actor) ==
  {[who |-> actor, what |-> e, told |-> CHOOSE h \in d.targets : TRUE] : e \in d.reveals}
(* Whom the actor's player may share with: the companion bonded to it.     *)
ShareAllowed(companion, recipients) == recipients = {companion}
RefusesShare(d, actor, known, companion) ==
  \/ Cardinality(d.targets) # 1
  \/ \E e \in d.reveals : <<actor, e>> \notin known \/ ~ShareAllowed(companion, d.targets)
ShareEntries(d) == actorEntries(CHOOSE h \in d.targets : TRUE, d.reveals)

(* known: the <<holder, evidence>> knowledge on the graph; companion: the  *)
(* one bonded to the actor's player; witness: the companion when it stands *)
(* where the actor looks, else None.                                       *)
Refuses(d, actor, ph, known, companion) ==
  CASE d.kind \in {"observe", "investigate"} -> RefusesReveal(d, ph)
    [] d.kind = "question"                   -> RefusesQuestion(d, ph)
    [] d.kind = "share"                      -> RefusesShare(d, actor, known, companion)
    [] OTHER                                 -> d.reveals # {}
Authorize(d, actor, witness) ==
  CASE d.kind \in {"observe", "investigate"} -> RevealEntries(d, actor, witness)
    [] d.kind = "question"                   -> QuestionEntries(d, actor)
    [] d.kind = "share"                      -> ShareEntries(d)
    [] OTHER                                 -> {}

-----------------------------------------------------------------------------
(* The companion's hint ladder.                                            *)

HintLevels == <<"nudge", "connect", "next-step">>
hintRank(l) == CHOOSE i \in DOMAIN HintLevels : HintLevels[i] = l
HintEvidenceCount(l) == hintRank(l)
NextHintLevel(l) == IF l = "next-step" THEN l ELSE HintLevels[hintRank(l) + 1]

(* What a hint of a level says, from the evidence the companion knows and  *)
(* its projection lets it name: the first ones in a fixed order, or        *)
(* nothing when there are too few.  The order is any fixed choice here.    *)
Silent == [level |-> None, cites |-> {}]
FirstOf(n, S) == CHOOSE T \in SUBSET S : Cardinality(T) = n
SelectHintEvidence(known, companion, visible, l) ==
  LET candidates == {e \in visible : <<companion, e>> \in known}
      n == HintEvidenceCount(l)
  IN IF Cardinality(candidates) < n THEN Silent
     ELSE [level |-> l, cites |-> FirstOf(n, candidates)]
=============================================================================
