------------------------------ MODULE TurnLoop ------------------------------
(***************************************************************************)
(* One turn's life, from the accepted entity to a terminal phase: the rule *)
(* pack that turns facts on the entity into stage triggers                 *)
(* (internal/rulepack), the durable stage consumers (internal/stage) and   *)
(* the three barrier consumers (internal/knowledge, internal/accusation,   *)
(* internal/caseflow), the persona loops they spawn (internal/persona),    *)
(* the loop-failure watcher, and the boot sequence with its stranded-turn  *)
(* pass (internal/resume, internal/boot).                                  *)
(*                                                                         *)
(* A stage consumer is sequential; different consumers, the persona loops  *)
(* and the rule engine interleave.  A stage's phase write follows its read *)
(* of the phase by a round trip (see TurnRecorder), and the bodies that    *)
(* read the turn before they write it do so in two steps as well.          *)
(***************************************************************************)
EXTENDS TurnPhases

CONSTANTS
  Verdicts,      \* the judgments an adjudicator run can return
  RequiresRoll,  \* whether each verdict sends the turn to the dice
  Mystery,       \* whether the turn is played in a mystery case
  Warning,       \* whether the turn triggers the companion's automatic warning
  MaxAttempts,   \* resume.MaxAttempts: sightings before a turn is abandoned
  MaxDeliver,    \* deliveries of one persona task
  MaxQueued,     \* bound: unacknowledged triggers counted per subject
  MaxFaults,     \* bound: failures of the substrate in one behaviour
  None

ASSUME LoopAssumption ==
  /\ Verdicts # {} /\ None \notin Verdicts
  /\ RequiresRoll \in [Verdicts -> BOOLEAN]
  /\ {Mystery, Warning} \subseteq BOOLEAN
  /\ {MaxAttempts, MaxDeliver, MaxQueued} \subseteq Nat \ {0}
  /\ MaxFaults \in Nat

(* The subjects of the stage stream: one per executable phase, and the     *)
(* three barriers that write a fact without moving the phase.              *)
StagePhases == {"interpreting", "adjudicating", "resolving", "applying",
                "companion", "narrating", "complete"}
Barriers == {"knowledge", "accusation", "case-progress"}
Subjects == StagePhases \cup Barriers

(* The phases whose stage spawns a persona loop, and a task's identity:    *)
(* a re-triggered stage spawns under the attempt it is on.                 *)
Spawning == {"interpreting", "adjudicating", "companion", "narrating"}
Attempts == 0 .. MaxAttempts
TaskIds == Spawning \X Attempts

(* What the companion persona may decide to say; a loop out of iterations  *)
(* is recorded as silence.                                                 *)
Voices == {"warn", "silent"}

ASSUME NoneAssumption == None \notin Voices \cup {"decision", "exhausted", "direct"}

Facts == {"case-decision", "batch", "companion", "narration"} \cup Barriers

VARIABLES
  phase,      \* turn.phase.current
  facts,      \* the references on the turn entity, verdict and roll apart
  verdict,    \* turn.verdict.*: the judgment recorded, or None
  roll,       \* turn.roll.*: the verdict the recorded roll answers, or None
  batch,      \* the verdict whose intents were applied to the world
  said,       \* the companion decision claimed in the content store, or None
  outcome,    \* the companion stage record claimed there, or None
  attempts,   \* turn.resume.attempts
  queue,      \* subject -> unacknowledged triggers on the stage stream
  worker,     \* subject -> what its consumer is doing
  matched,    \* the rules the engine last found matching
  dirty,      \* the entity was written since the rules last saw it
  task,       \* persona task -> its state on the AGENT stream
  failures,   \* unacknowledged loop-failure events
  watcher,    \* the failure event the watcher is about to record, or None
  boot,       \* how far the process has started
  snap,       \* what the stranded-turn pass read of the queues
  faults      \* failures so far

spoken == <<said, outcome>>
turnVars == <<phase, facts, verdict, roll, batch, spoken, attempts>>
ruleVars == <<matched, dirty>>
agentVars == <<task, failures>>
bootVars == <<boot, snap>>
vars == <<turnVars, queue, worker, ruleVars, agentVars, watcher, bootVars, faults>>

Idle == [pc |-> "idle", v |-> None]
Unpublished == [st |-> "none", n |-> 0]

(* Every variable has its type; the retry budget is never exceeded, and a  *)
(* consumer works only on a trigger it has not acknowledged, while up.     *)
TypeOK ==
  /\ phase \in Phases
  /\ facts \subseteq Facts
  /\ {verdict, roll, batch} \subseteq Verdicts \cup {None}
  /\ said \in Voices \cup {None}
  /\ outcome \in {"decision", "exhausted", "direct", None}
  /\ attempts \in Attempts
  /\ queue \in [Subjects -> 0 .. MaxQueued]
  /\ worker \in [Subjects -> [pc : {"idle", "enter", "body", "commit", "fail"},
                              v : Verdicts \cup {None}]]
  /\ matched \subseteq {"accepted", "interpreted", "roll", "no-roll", "rolled",
                        "progress", "applied", "accompanied", "narrated"}
  /\ dirty \in BOOLEAN
  /\ task \in [TaskIds -> [st : {"none", "queued", "running", "claimed", "committed", "done"},
                           n : 0 .. MaxDeliver]]
  /\ failures \subseteq Spawning \X {"cap", "loop"}
  /\ watcher \in (Spawning \X {"cap", "loop"}) \cup {None}
  /\ boot \in {"down", "rules", "pass", "decide", "republish", "abandon", "catchup", "up"}
  /\ snap \in {"unread", "queued", "empty"}
  /\ faults \in 0 .. MaxFaults
  /\ \A s \in Subjects : worker[s].pc # "idle" => queue[s] > 0 /\ boot = "up"

Init ==
  /\ phase = "accepted"
  /\ facts = {}
  /\ verdict = None /\ roll = None /\ batch = None /\ said = None /\ outcome = None
  /\ attempts = 0
  /\ queue = [s \in Subjects |-> 0]
  /\ worker = [s \in Subjects |-> Idle]
  /\ matched = {}
  /\ dirty = TRUE
  /\ task = [k \in TaskIds |-> Unpublished]
  /\ failures = {}
  /\ watcher = None
  /\ boot = "up"
  /\ snap = "unread"
  /\ faults = 0

(* One more failure of the substrate, within the bound.                    *)
Fault == faults < MaxFaults /\ faults' = faults + 1
NoFault == UNCHANGED faults

-----------------------------------------------------------------------------
(* The rule pack: turn-sequencing.json.                                    *)

Rules == {"accepted", "interpreted", "roll", "no-roll", "rolled",
          "progress", "applied", "accompanied", "narrated"}

(* Mutant of Matches: companionship does not wait for the case's progress. *)
MatchesEarly(r) ==
  CASE r = "accepted"    -> phase = "accepted"
    [] r = "interpreted" -> phase = "interpreting" /\ "case-decision" \in facts
    [] r = "roll"        -> phase = "adjudicating" /\ verdict # None /\ RequiresRoll[verdict]
    [] r = "no-roll"     -> phase = "adjudicating" /\ verdict # None /\ ~RequiresRoll[verdict]
    [] r = "rolled"      -> phase = "resolving" /\ roll # None
    [] r = "progress"    -> phase = "applying" /\ {"batch", "case-decision", "knowledge"} \subseteq facts
    [] r = "applied"     -> phase = "applying" /\ {"batch", "knowledge", "accusation"} \subseteq facts
    [] r = "accompanied" -> phase = "companion" /\ "companion" \in facts
    [] r = "narrated"    -> phase = "narrating" /\ "narration" \in facts

(* When a rule's conditions hold of the turn entity.                       *)
Matches(r) ==
  CASE r = "accepted"    -> phase = "accepted"
    [] r = "interpreted" -> phase = "interpreting" /\ "case-decision" \in facts
    [] r = "roll"        -> phase = "adjudicating" /\ verdict # None /\ RequiresRoll[verdict]
    [] r = "no-roll"     -> phase = "adjudicating" /\ verdict # None /\ ~RequiresRoll[verdict]
    [] r = "rolled"      -> phase = "resolving" /\ roll # None
    [] r = "progress"    -> phase = "applying" /\ {"batch", "case-decision", "knowledge"} \subseteq facts
    [] r = "applied"     -> phase = "applying"
                            /\ {"batch", "knowledge", "accusation", "case-progress"} \subseteq facts
    [] r = "accompanied" -> phase = "companion" /\ "companion" \in facts
    [] r = "narrated"    -> phase = "narrating" /\ "narration" \in facts

Publishes ==
  [r \in Rules |->
    CASE r = "accepted"    -> {"interpreting"}
      [] r = "interpreted" -> {"adjudicating", "knowledge", "accusation"}
      [] r = "roll"        -> {"resolving"}
      [] r = "no-roll"     -> {"applying"}
      [] r = "rolled"      -> {"applying"}
      [] r = "progress"    -> {"case-progress"}
      [] r = "applied"     -> {"companion"}
      [] r = "accompanied" -> {"narrating"}
      [] OTHER             -> {"complete"}]

Enqueue(subjects) ==
  queue' = [s \in Subjects |-> IF s \in subjects /\ queue[s] < MaxQueued THEN queue[s] + 1 ELSE queue[s]]

(* The engine evaluates the entity after a write and publishes for the     *)
(* rules that have just come to match.  The match is remembered whether or *)
(* not the publish reached the stream.                                     *)
EvaluateRules ==
  /\ boot # "down"
  /\ dirty
  /\ dirty' = FALSE
  /\ matched' = {r \in Rules : Matches(r)}
  /\ LET due == UNION {Publishes[r] : r \in matched' \ matched} IN
       \/ Enqueue(due) /\ NoFault
       \/ \E lost \in (SUBSET due) \ {{}} : Enqueue(due \ lost) /\ Fault
  /\ UNCHANGED <<turnVars, worker, agentVars, watcher, bootVars>>

-----------------------------------------------------------------------------
(* The stage consumers.                                                    *)

Ack(s) == /\ queue' = [queue EXCEPT ![s] = @ - 1]
          /\ worker' = [worker EXCEPT ![s] = Idle]
NakDelivery(s) == UNCHANGED queue /\ worker' = [worker EXCEPT ![s] = Idle]
Goto(s, pc, v) == UNCHANGED queue /\ worker' = [worker EXCEPT ![s] = [pc |-> pc, v |-> v]]

(* A write that committed either returns to the handler, which acts on it, *)
(* or is reported as failed, and the delivery is nak'd.                    *)
Returns(s, then) == \/ then /\ NoFault
                    \/ NakDelivery(s) /\ Fault

(* enter: Advance's read and classification.  A declined trigger is stale  *)
(* and is acknowledged; a skipped stage is an error: the delivery is nak'd *)
(* and comes back, which changes nothing.                                  *)
Deliver(s) ==
  /\ boot = "up" /\ worker[s].pc = "idle" /\ queue[s] > 0
  /\ IF s \in Barriers
       THEN Goto(s, "body", None)
       ELSE LET answer == Classify(phase, s) IN
              \/ answer = "advanced" /\ Goto(s, "enter", None)
              \/ answer = "resumed" /\ Goto(s, "body", None)
              \/ answer = "declined" /\ Ack(s)
  /\ UNCHANGED <<turnVars, ruleVars, agentVars, watcher, bootVars, faults>>

(* enter: Advance's write.  Completion has no body.                        *)
EnterPhase(s) ==
  /\ worker[s].pc = "enter"
  /\ phase' = s /\ dirty' = TRUE
  /\ Returns(s, IF s = "complete" THEN Ack(s) ELSE Goto(s, "body", None))
  /\ UNCHANGED <<facts, verdict, roll, batch, spoken, attempts, matched, agentVars, watcher, bootVars>>

Artifact(s) == CASE s = "interpreting" -> "case-decision" \in facts
                 [] s = "adjudicating" -> verdict # None
                 [] s = "resolving"    -> roll # None
                 [] s = "applying"     -> "batch" \in facts
                 [] s = "companion"    -> "companion" \in facts
                 [] s = "narrating"    -> "narration" \in facts
                 [] OTHER              -> FALSE

(* Publishing a task is deduplicated by its id; the trigger is             *)
(* acknowledged on the publish, not when the persona finishes.             *)
PublishTask(s) ==
  LET k == <<s, attempts>> IN
  task' = IF task[k].st = "none" THEN [task EXCEPT ![k].st = "queued"] ELSE task

(* Spawner.Run after enter: the resume guard skips a stage whose artifact  *)
(* is recorded; a turn outside a mystery records its interpretation        *)
(* directly; anything else spawns the persona.                             *)
Spawn(s) ==
  /\ s \in Spawning \ {"companion"}
  /\ worker[s].pc = "body"
  /\ \/ /\ Artifact(s)
        /\ Ack(s) /\ NoFault
        /\ UNCHANGED <<facts, dirty, task>>
     \/ /\ ~Artifact(s) /\ s = "interpreting" /\ ~Mystery
        /\ facts' = facts \cup {"case-decision"} /\ dirty' = TRUE
        /\ Returns(s, Ack(s))
        /\ UNCHANGED task
     \/ /\ ~Artifact(s) /\ (s = "interpreting" => Mystery)
        /\ PublishTask(s)
        /\ Returns(s, Ack(s))
        /\ UNCHANGED <<facts, dirty>>
  /\ UNCHANGED <<phase, verdict, roll, batch, spoken, attempts, matched, failures, watcher, bootVars>>

(* Resolver.Run after enter: the roll answers the verdict that was read.   *)
(* A recorded roll that the current verdict does not reproduce, a missing  *)
(* verdict or one that declined the dice is an error, not an outcome.      *)
ReadVerdict ==
  /\ worker["resolving"].pc = "body"
  /\ LET bad == \/ verdict = None
                \/ ~RequiresRoll[verdict]
                \/ roll \notin {None, verdict}
     IN \/ bad /\ NakDelivery("resolving")
        \/ ~bad /\ roll = verdict /\ Ack("resolving")
        \/ ~bad /\ roll = None /\ Goto("resolving", "commit", verdict)
  /\ UNCHANGED <<turnVars, ruleVars, agentVars, watcher, bootVars, faults>>

RecordRoll ==
  /\ worker["resolving"].pc = "commit"
  /\ roll' = worker["resolving"].v /\ dirty' = TRUE
  /\ Returns("resolving", Ack("resolving"))
  /\ UNCHANGED <<phase, facts, verdict, batch, spoken, attempts, matched, agentVars, watcher, bootVars>>

(* Fail's read: a turn that has ended declines, any other goes on to the   *)
(* write.                                                                  *)
FailTurn(s) == IF IsTerminal(phase) THEN Ack(s) ELSE Goto(s, "fail", None)

(* Mutant of PlanBatch: the band is not checked against the verdict.       *)
PlanBatchUnchecked ==
  /\ worker["applying"].pc = "body"
  /\ \/ verdict = None /\ NakDelivery("applying")
     \/ verdict # None /\ "batch" \in facts /\ Ack("applying")
     \/ verdict # None /\ "batch" \notin facts /\ Goto("applying", "commit", verdict)
  /\ UNCHANGED <<turnVars, ruleVars, agentVars, watcher, bootVars, faults>>

(* Effector.Run after enter, up to the applier's commit.  A band without   *)
(* a roll verdict, or a roll verdict without a band, is an error; a batch  *)
(* already recorded is left alone; a refused batch ends the turn.          *)
PlanBatch ==
  /\ worker["applying"].pc = "body"
  /\ LET bad == verdict = None \/ (RequiresRoll[verdict] # (roll # None))
     IN \/ bad /\ NakDelivery("applying")
        \/ ~bad /\ "batch" \in facts /\ Ack("applying")
        \/ ~bad /\ "batch" \notin facts /\ Goto("applying", "commit", verdict)
        \/ ~bad /\ "batch" \notin facts /\ FailTurn("applying")
  /\ UNCHANGED <<turnVars, ruleVars, agentVars, watcher, bootVars, faults>>

CommitBatch ==
  /\ worker["applying"].pc = "commit"
  /\ facts' = facts \cup {"batch"} /\ batch' = worker["applying"].v /\ dirty' = TRUE
  /\ Returns("applying", Ack("applying"))
  /\ UNCHANGED <<phase, verdict, roll, spoken, attempts, matched, agentVars, watcher, bootVars>>

(* The one companion record of a turn: a claim succeeds on an empty key or *)
(* on the very same bytes.                                                 *)
Claims(key, value) == key \in {None, value}

(* CompanionStage.Run after enter: a resident reference is left alone and  *)
(* a resident record or decision is landed; without a warning to voice the *)
(* result is committed directly; a warning spawns the persona.             *)
RunCompanion ==
  LET record == IF Warning THEN "decision" ELSE "direct"
      resident == IF Warning THEN said # None ELSE TRUE
  IN
  /\ worker["companion"].pc = "body"
  /\ \/ /\ Artifact("companion")
        /\ Ack("companion") /\ NoFault
        /\ UNCHANGED <<facts, dirty, outcome, task>>
     \/ /\ ~Artifact("companion") /\ (outcome # None \/ resident)
        /\ outcome' = IF outcome # None THEN outcome ELSE record
        /\ facts' = facts \cup {"companion"} /\ dirty' = TRUE
        /\ Returns("companion", Ack("companion"))
        /\ UNCHANGED task
     \/ /\ ~Artifact("companion") /\ outcome = None /\ ~resident
        /\ PublishTask("companion")
        /\ Returns("companion", Ack("companion"))
        /\ UNCHANGED <<facts, dirty, outcome>>
  /\ UNCHANGED <<phase, verdict, roll, batch, said, attempts, matched, failures, watcher, bootVars>>

(* Mutant of LandFact: the write replaces the turn's other references.     *)
LandFactReplaces(s) ==
  /\ facts' = {s} /\ dirty' = TRUE
  /\ Returns(s, Ack(s))

(* The barrier consumers commit a fact without entering a phase or looking *)
(* at the one recorded.  In a mystery each may find that the decision      *)
(* cannot be honoured, and ends the turn.                                  *)
LandFact(s) ==
  /\ facts' = facts \cup {s} /\ dirty' = TRUE
  /\ Returns(s, Ack(s))
LandNothing(step) == step /\ NoFault /\ UNCHANGED <<facts, dirty>>

(* The knowledge receipt is written again on a redelivery.                 *)
RunKnowledge ==
  /\ worker["knowledge"].pc = "body"
  /\ \/ LandFact("knowledge")
     \/ Mystery /\ LandNothing(FailTurn("knowledge"))
  /\ UNCHANGED <<phase, verdict, roll, batch, spoken, attempts, matched, agentVars, watcher, bootVars>>

(* A resident result is compared and left alone.  An accusation waits, by  *)
(* way of redelivery, for the case to leave investigation.                 *)
RunAccusation ==
  /\ worker["accusation"].pc = "body"
  /\ \/ "accusation" \notin facts /\ LandFact("accusation")
     \/ "accusation" \in facts /\ LandNothing(Ack("accusation"))
     \/ Mystery /\ LandNothing(FailTurn("accusation"))
     \/ Mystery /\ LandNothing(NakDelivery("accusation"))
  /\ UNCHANGED <<phase, verdict, roll, batch, spoken, attempts, matched, agentVars, watcher, bootVars>>

RunCaseProgress ==
  /\ worker["case-progress"].pc = "body"
  /\ \/ "case-progress" \notin facts /\ LandFact("case-progress")
     \/ "case-progress" \in facts /\ LandNothing(Ack("case-progress"))
     \/ Mystery /\ LandNothing(FailTurn("case-progress"))
  /\ UNCHANGED <<phase, verdict, roll, batch, spoken, attempts, matched, agentVars, watcher, bootVars>>

(* Fail's write, by a stage or a barrier.                                  *)
RecordFailure(s) ==
  /\ worker[s].pc = "fail"
  /\ phase' = "failed" /\ dirty' = TRUE
  /\ Returns(s, Ack(s))
  /\ UNCHANGED <<facts, verdict, roll, batch, spoken, attempts, matched, agentVars, watcher, bootVars>>

(* A round trip failed with nothing written: the delivery is nak'd.        *)
StageFails(s) ==
  /\ worker[s].pc # "idle"
  /\ NakDelivery(s) /\ Fault
  /\ UNCHANGED <<turnVars, ruleVars, agentVars, watcher, bootVars>>

-----------------------------------------------------------------------------
(* The persona loops, on the AGENT stream.  They run as soon as the        *)
(* process is up, before the stages are, and never look at the phase.      *)

SetTask(k, st) == task' = [task EXCEPT ![k].st = st]

RunTask(k) ==
  /\ boot # "down"
  /\ task[k].st = "queued"
  /\ task' = [task EXCEPT ![k] = [st |-> "running", n |-> @.n + 1]]
  /\ UNCHANGED <<turnVars, queue, worker, ruleVars, failures, watcher, bootVars, faults>>

(* The terminal tools store the artifact and then replace its reference,   *)
(* whatever the turn records already.                                      *)
CommitVerdict(k) ==
  /\ boot # "down"
  /\ k[1] = "adjudicating" /\ task[k].st = "running"
  /\ verdict' \in Verdicts
  /\ dirty' = TRUE
  /\ SetTask(k, "committed")
  /\ UNCHANGED <<phase, facts, roll, batch, spoken, attempts, queue, worker, matched, failures, watcher, bootVars, faults>>

CommitReference(k, stage, fact) ==
  /\ boot # "down"
  /\ k[1] = stage /\ task[k].st = "running"
  /\ facts' = facts \cup {fact} /\ dirty' = TRUE
  /\ SetTask(k, "committed")
  /\ UNCHANGED <<phase, verdict, roll, batch, spoken, attempts, queue, worker, matched, failures, watcher, bootVars, faults>>

CommitDecision(k) == CommitReference(k, "interpreting", "case-decision")
CommitNarration(k) == CommitReference(k, "narrating", "narration")

(* The companion's tool claims its decision in the content store, and is   *)
(* refused when the turn holds a different one ...                         *)
ClaimDecision(k) ==
  /\ boot # "down"
  /\ k[1] = "companion" /\ task[k].st = "running"
  /\ said' \in Voices /\ Claims(said, said')
  /\ SetTask(k, "claimed")
  /\ UNCHANGED <<phase, facts, verdict, roll, batch, outcome, attempts, queue, worker, ruleVars, failures, watcher, bootVars, faults>>

(* ... then claims the stage record and lands the references last.         *)
CommitCompanion(k) ==
  /\ boot # "down"
  /\ task[k].st = "claimed" /\ Claims(outcome, "decision")
  /\ outcome' = "decision"
  /\ facts' = facts \cup {"companion"} /\ dirty' = TRUE
  /\ SetTask(k, "committed")
  /\ UNCHANGED <<phase, verdict, roll, batch, said, attempts, queue, worker, matched, failures, watcher, bootVars, faults>>

FinishTask(k) ==
  /\ boot # "down"
  /\ task[k].st = "committed"
  /\ SetTask(k, "done")
  /\ UNCHANGED <<turnVars, queue, worker, ruleVars, failures, watcher, bootVars, faults>>

(* The loop ends without exiting: out of iterations, or failed.  A claim   *)
(* that could not be followed up, or a commit whose reply was lost, can    *)
(* precede either.                                                         *)
FailTask(k) ==
  /\ boot # "down"
  /\ \/ task[k].st = "running" /\ NoFault
     \/ task[k].st = "claimed" /\ ~Claims(outcome, "decision") /\ NoFault
     \/ task[k].st \in {"claimed", "committed"} /\ Fault
  /\ \E kind \in {"cap", "loop"} : failures' = failures \cup {<<k[1], kind>>}
  /\ SetTask(k, "done")
  /\ UNCHANGED <<turnVars, queue, worker, ruleVars, watcher, bootVars>>

Redelivered(t) ==
  IF t.st \notin {"running", "claimed", "committed"} THEN t
  ELSE [t EXCEPT !.st = IF t.n < MaxDeliver THEN "queued" ELSE "done"]

(* The acknowledgement is lost or late: the task is delivered again, and   *)
(* not a third time.                                                       *)
RedeliverTask(k) ==
  /\ task[k].st \in {"running", "claimed", "committed"}
  /\ task' = [task EXCEPT ![k] = Redelivered(@)]
  /\ Fault
  /\ UNCHANGED <<turnVars, queue, worker, ruleVars, failures, watcher, bootVars>>

(* Mutant of ExhaustCompanion: silence replaces what was said.             *)
ExhaustCompanionOverwrites(e) ==
  /\ boot \in {"catchup", "up"}
  /\ watcher = None /\ e \in failures /\ e = <<"companion", "cap">>
  /\ said' = "silent" /\ outcome' = "exhausted"
  /\ facts' = facts \cup {"companion"} /\ dirty' = TRUE
  /\ failures' = failures \ {e}
  /\ UNCHANGED <<phase, verdict, roll, batch, attempts, queue, worker, matched, task, watcher, bootVars, faults>>

(* LoopFailureWatcher.Handle for a companion out of iterations: silence is *)
(* claimed and landed, and the turn goes on.  A claim that conflicts is an *)
(* error: the event is nak'd and comes back, which changes nothing.        *)
ExhaustCompanion(e) ==
  /\ boot \in {"catchup", "up"}
  /\ watcher = None /\ e \in failures /\ e = <<"companion", "cap">>
  /\ Claims(said, "silent") /\ said' = "silent"
  /\ \/ /\ Claims(outcome, "exhausted") /\ outcome' = "exhausted"
        /\ facts' = facts \cup {"companion"} /\ dirty' = TRUE
        /\ \/ failures' = failures \ {e} /\ NoFault
           \/ UNCHANGED failures /\ Fault
     \/ UNCHANGED <<outcome, facts, dirty, failures>> /\ Fault
  /\ UNCHANGED <<phase, verdict, roll, batch, attempts, queue, worker, matched, task, watcher, bootVars>>

(* Every other loop failure ends the turn, by Fail's read ...              *)
HandleFailure(e) ==
  /\ boot \in {"catchup", "up"}
  /\ watcher = None /\ e \in failures /\ e # <<"companion", "cap">>
  /\ IF IsTerminal(phase)
       THEN failures' = failures \ {e} /\ UNCHANGED watcher
       ELSE watcher' = e /\ UNCHANGED failures
  /\ UNCHANGED <<turnVars, queue, worker, ruleVars, task, bootVars, faults>>

(* ... and Fail's write.                                                   *)
RecordLoopFailure ==
  /\ watcher # None
  /\ phase' = "failed" /\ dirty' = TRUE
  /\ \/ failures' = failures \ {watcher} /\ NoFault
     \/ UNCHANGED failures /\ Fault
  /\ watcher' = None
  /\ UNCHANGED <<facts, verdict, roll, batch, spoken, attempts, queue, worker, matched, task, bootVars>>

-----------------------------------------------------------------------------
(* The process: it dies, and boots in order.                               *)

Down ==
  /\ boot' = "down" /\ snap' = "unread"
  /\ worker' = [s \in Subjects |-> Idle]
  /\ watcher' = None
  /\ task' = [k \in TaskIds |-> Redelivered(task[k])]
  /\ UNCHANGED <<turnVars, queue, ruleVars, failures>>

Crash == boot # "down" /\ Fault /\ Down

(* An operator restarts a process that has nothing left to do while the    *)
(* turn has not ended.                                                     *)
Unfinished == {k \in TaskIds : task[k].st \in {"queued", "running", "claimed", "committed"}}
Stranded ==
  /\ boot = "up" /\ ~dirty /\ ~IsTerminal(phase)
  /\ \A s \in Subjects : queue[s] = 0
  /\ Unfinished = {} /\ failures = {}
Restart == Stranded /\ NoFault /\ Down

(* The rule processor starts: the bootstrap replay publishes for every     *)
(* matching rule of an entity written since it was last evaluated, and     *)
(* for no other.                                                           *)
StartRules ==
  /\ boot = "down" /\ boot' = "rules"
  /\ dirty' = FALSE
  /\ matched' = IF dirty THEN {r \in Rules : Matches(r)} ELSE matched
  /\ LET due == IF dirty THEN UNION {Publishes[r] : r \in matched'} ELSE {} IN
       \/ Enqueue(due) /\ NoFault
       \/ \E lost \in (SUBSET due) \ {{}} : Enqueue(due \ lost) /\ Fault
  /\ UNCHANGED <<turnVars, worker, agentVars, watcher, snap>>

(* Settle and the first half of WorkQueues.Pending: once the rule engine   *)
(* has nothing left to publish, the stage stream's unacknowledged tails.   *)
(* A failed read ends the pass; the boot logs it and goes on.              *)
ReadStageQueues ==
  /\ boot = "rules" /\ ~dirty
  /\ \/ boot' = "pass" /\ NoFault
        /\ snap' = IF \E s \in Subjects : queue[s] > 0 THEN "queued" ELSE "empty"
     \/ boot' = "catchup" /\ Fault /\ UNCHANGED snap
  /\ UNCHANGED <<turnVars, queue, worker, ruleVars, agentVars, watcher>>

(* Mutant of ReadTaskQueue: the AGENT stream is not read.                  *)
ReadTaskQueueSkipped ==
  /\ boot = "pass" /\ boot' = "decide"
  /\ UNCHANGED <<turnVars, queue, worker, ruleVars, agentVars, watcher, snap, faults>>

(* The second half: the persona tasks, which have gone on running since.   *)
ReadTaskQueue ==
  /\ boot = "pass"
  /\ \/ boot' = "decide" /\ NoFault
        /\ snap' = IF Unfinished # {} THEN "queued" ELSE snap
     \/ boot' = "catchup" /\ snap' = "unread" /\ Fault
  /\ UNCHANGED <<turnVars, queue, worker, ruleVars, agentVars, watcher>>

(* Mutant of ReconcileTurn: a turn past the budget is left where it is.    *)
ReconcileTurnGivesUp ==
  /\ boot = "decide"
  /\ IF IsTerminal(phase) \/ snap = "queued" \/ attempts >= MaxAttempts
       THEN boot' = "catchup" /\ UNCHANGED <<attempts, dirty>>
       ELSE /\ attempts' = attempts + 1 /\ dirty' = TRUE
            /\ boot' = IF Artifact(phase) THEN "catchup" ELSE "republish"
  /\ UNCHANGED <<phase, facts, verdict, roll, batch, spoken, queue, worker, matched, agentVars, watcher, snap, faults>>

(* Mutant of ReconcileTurn: the budget is looked at before the queues.     *)
ReconcileTurnBudgetFirst ==
  /\ boot = "decide"
  /\ IF ~IsTerminal(phase) /\ attempts >= MaxAttempts
       THEN boot' = "abandon" /\ UNCHANGED <<attempts, dirty>>
     ELSE IF IsTerminal(phase) \/ snap = "queued"
       THEN boot' = "catchup" /\ UNCHANGED <<attempts, dirty>>
     ELSE /\ attempts' = attempts + 1 /\ dirty' = TRUE
          /\ boot' = IF Artifact(phase) THEN "catchup" ELSE "republish"
  /\ UNCHANGED <<phase, facts, verdict, roll, batch, spoken, queue, worker, matched, agentVars, watcher, snap, faults>>

(* reconcileTurn: nothing for an ended turn or one with queued work; a     *)
(* stage that recorded its artifact cannot be helped and is only counted;  *)
(* any other is counted and re-triggered.  Past the budget the turn ends.  *)
ReconcileTurn ==
  /\ boot = "decide"
  /\ IF IsTerminal(phase) \/ snap = "queued"
       THEN boot' = "catchup" /\ UNCHANGED <<attempts, dirty>>
     ELSE IF attempts >= MaxAttempts
       THEN boot' = "abandon" /\ UNCHANGED <<attempts, dirty>>
     ELSE /\ attempts' = attempts + 1 /\ dirty' = TRUE
          /\ boot' = IF Artifact(phase) THEN "catchup" ELSE "republish"
  /\ UNCHANGED <<phase, facts, verdict, roll, batch, spoken, queue, worker, matched, agentVars, watcher, snap, faults>>

(* retriggerStage's publish; a turn still accepted is started.             *)
RepublishTrigger ==
  /\ boot = "republish" /\ boot' = "catchup"
  /\ \/ Enqueue({IF phase = "accepted" THEN "interpreting" ELSE phase}) /\ NoFault
     \/ UNCHANGED queue /\ Fault
  /\ UNCHANGED <<turnVars, worker, ruleVars, agentVars, watcher, snap>>

(* abandon: the turn ends as stranded, or the write fails and is reported. *)
Abandon ==
  /\ boot = "abandon" /\ boot' = "catchup"
  /\ \/ phase' = "failed" /\ dirty' = TRUE /\ NoFault
     \/ UNCHANGED <<phase, dirty>> /\ Fault
  /\ UNCHANGED <<facts, verdict, roll, batch, spoken, attempts, queue, worker, matched, agentVars, watcher, snap>>

(* CatchUp drains the loop failures before the stages are bound.           *)
StartStages ==
  /\ boot = "catchup" /\ boot' = "up"
  /\ failures = {}
  /\ UNCHANGED <<turnVars, queue, worker, ruleVars, agentVars, watcher, snap, faults>>

-----------------------------------------------------------------------------
StageStep(s) == \/ Deliver(s) \/ EnterPhase(s) \/ Spawn(s) \/ RecordFailure(s)
                \/ s = "resolving" /\ (ReadVerdict \/ RecordRoll)
                \/ s = "applying" /\ (PlanBatch \/ CommitBatch)
                \/ s = "companion" /\ RunCompanion
                \/ s = "knowledge" /\ RunKnowledge
                \/ s = "accusation" /\ RunAccusation
                \/ s = "case-progress" /\ RunCaseProgress
TaskStep(k) == \/ RunTask(k) \/ CommitVerdict(k) \/ CommitDecision(k) \/ CommitNarration(k)
               \/ ClaimDecision(k) \/ CommitCompanion(k) \/ FinishTask(k) \/ FailTask(k)
WatcherStep == RecordLoopFailure \/ \E e \in failures : HandleFailure(e) \/ ExhaustCompanion(e)
BootStep == \/ StartRules \/ ReadStageQueues \/ ReadTaskQueue \/ ReconcileTurn \/ RepublishTrigger
            \/ Abandon \/ StartStages

Next ==
  \/ EvaluateRules
  \/ \E s \in Subjects : StageStep(s) \/ StageFails(s)
  \/ \E k \in TaskIds : TaskStep(k) \/ RedeliverTask(k)
  \/ WatcherStep
  \/ Crash \/ Restart \/ BootStep

Spec == Init /\ [][Next]_vars

(* Every process of the engine keeps running while the engine is up, a     *)
(* nak'd delivery comes back, the bootstrap completes, and a process with  *)
(* a stranded turn is eventually restarted.                                *)
Fairness ==
  /\ WF_vars(EvaluateRules)
  /\ \A s \in Subjects : WF_vars(StageStep(s))
  /\ \A k \in TaskIds : WF_vars(TaskStep(k))
  /\ WF_vars(WatcherStep)
  /\ WF_vars(BootStep)
  /\ WF_vars(Restart)

FairSpec == Spec /\ Fairness

-----------------------------------------------------------------------------
(* What makes the loop correct.                                            *)

(* A turn never runs ahead of its record: whatever is lost, repeated or    *)
(* interrupted, a turn in a phase carries every artifact the earlier       *)
(* stages and barriers owe, so no later stage reads a fact that is not     *)
(* there.  It is what the rules' conditions are for.                       *)
StagesOwedBy(p) ==
  CASE p \in {"adjudicating", "resolving", "applying"} -> {"case-decision"}
    [] p = "companion" -> {"case-decision", "batch"} \cup Barriers
    [] p = "narrating" -> {"case-decision", "batch", "companion"} \cup Barriers
    [] p = "complete"  -> {"case-decision", "batch", "companion", "narration"} \cup Barriers
    [] OTHER -> {}

RecordPrecedesPhase ==
  /\ StagesOwedBy(phase) \subseteq facts
  /\ phase \in {"resolving", "applying", "companion", "narrating", "complete"} => verdict # None
  /\ phase \in {"companion", "narrating", "complete"} => batch # None

(* Refinement: the rule pack, the consumers, the persona loops and the     *)
(* stranded-turn pass together do nothing to a turn that TurnProgress does *)
(* not allow, through crashes, repeated tasks and restarts, as long as     *)
(* judgments of the turn agree on whether to roll.  One that does not lets *)
(* the resolver and the effector both find the turn adjudicated, and       *)
(* "resolving" may then be written over "applying".                        *)
Progress == INSTANCE TurnProgress WITH
  record <- facts \cup (IF verdict = None THEN {} ELSE {"verdict"})
ImplementsProgress == Progress!Spec

(* A turn is never adjudicated, interpreted, voiced or narrated by two     *)
(* persona loops at once: the stranded-turn pass does not re-trigger a     *)
(* stage whose task is still waiting or running on the AGENT stream.       *)
OneLoopPerStage ==
  \A s \in Spawning : Cardinality({a \in Attempts : <<s, a>> \in Unfinished}) <= 1

(* The world and the dice agree: the batch that was applied comes from a   *)
(* verdict that asked for a roll exactly when the turn records one, even   *)
(* when a second judgment replaces the verdict while the resolver and the  *)
(* effector are at work (committedBand's two coherence checks).  It rests  *)
(* on the AGENT stream's two deliveries: a third judgment could break it.  *)
EffectsAgreeWithDice ==
  batch # None => (RequiresRoll[batch] <=> roll # None)

(* The stranded-turn pass never ends a turn a persona is still working on, *)
(* although it reads the two streams and the turn one after the other      *)
(* while the persona loops and the rule engine go on running.              *)
AbandonedHadNoTask ==
  [][boot = "abandon" /\ boot' = "catchup" => Unfinished = {}]_vars

(* A companion speaks once: what the turn says it said is never replaced,  *)
(* by a second loop, by the stage's own commit or by the silence recorded  *)
(* for a loop that ran out.                                                *)
SpokenOnce == [][Warning /\ "companion" \in facts => UNCHANGED spoken]_vars

(* Never a silent stall: every turn ends.                                  *)
TurnEnds == <>[]IsTerminal(phase)
=============================================================================
