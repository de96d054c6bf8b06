# Semmachina: a TLA+ verification project

Semmachina is an engine that runs a game as a sequence of *turns*. A player's
action becomes a turn entity in a graph store; a rule pack watches the entity and
publishes triggers; durable consumers ("stages") move the turn from phase to
phase, some of them by starting an LLM persona loop; the resolved turn is pushed to
the player's sockets and archived in a ledger. Several players may share one case, which
their turns move on together. Nothing is transactional: every write is a round trip
that can fail before or after it commits, every message is delivered at least
once, and the process can die between any two steps. That is what this project
models.

## 1. Inventory

| Component (source under `src/internal`) | State | Operations | Modelled in |
|---|---|---|---|
| vocabulary (`vocabulary/phases.go`, `classes.go`, `artifacts.go`) | none: closed tables | `PhaseFollows`, ranks, terminal phases, the artifact each stage owes | `TurnPhases`, `TurnProgress` |
| gateway admission (`gateway/gateway.go`, `action`) | one submission per connection, the message ids the stream remembers | decode, classify, admit, refuse-if-live, publish | `Admission` |
| turn recorder, intake (`turn/recorder.go`, `intake.go`) | turn entities, `player.turn.current`, `player.turn.resolved`, the action stream | `Accept`, `Advance`, `Fail`, the pointer writes and their repair | `TurnRecorder` |
| result retrieval (`egress/results.go`) | reads only | `Latest`, by turn, by action | `TurnRecorder` (`Latest`) |
| rule pack (`rulepack/turn-sequencing.json`) | which rules match | publish a trigger when a rule begins to match | `TurnLoop` |
| rule pack checks (`rulepack/pack.go`) | none: pure | the load-time check of a sequencing pack | `PackGate` |
| stages (`stage/*.go`) | the stage stream, one durable consumer per phase | `enter`, then spawn / roll / apply / voice / complete; loop-failure watcher | `TurnLoop` |
| personas (`persona/*.go`, `companion/executor.go`) | tasks on the AGENT stream, claims in the content store | terminal tools: verdict, narration, case decision, companion decision | `TurnLoop` |
| dice (`dice/resolver.go`) | the recorded roll | `Resolve` and its agreement check | `TurnLoop` (agreement only) |
| stranded-turn recovery (`resume/*.go`) | `turn.resume.attempts`, a snapshot of two streams | `Settle`, `Pending`, `reconcileTurn`, `retriggerStage`, `abandon` | `TurnLoop` |
| effect applier (`effect/*.go`, `stage/apply.go`) | the world's facts, the batch marker on the turn | plan, validate, per-family writes, marker | `EffectApplier`; the promise in `AtomicEffects` |
| sessions and player socket (`gateway/session.go`, `playersocket/*.go`) | two indexes of live connections, one socket and three goroutines each | bind, disconnect, probe, watch, read loop | `PlayerDelivery` |
| notifier and router (`egress/notifier.go`, `router.go`) | the resolved-turn subject, the copy of a player's sessions | handle, fan out, settle | `PlayerDelivery` |
| boot sequence, campaign gate, world import (`boot/*.go`, `campaign`, `world/importer.go`) | the campaign entity with seed, experience and import marker; the entity stream; the process's step, seed and index; the rule status | the boot steps, claim, import, two readbacks, marker, waits, lifecycle attach | `CampaignBoot`; the order of recovery and stages in `TurnLoop` |
| ledger (`ledger/*.go`) | one manifest per ended turn on the archive stream | compose, consume, reconcile at boot, replay | `CampaignLedger` |
| case lifecycle, knowledge, accusation, hints (`caseflow`, `knowledge`, `accusation`, `companion`, `stage/companion.go`) | case phase and its one receipt slot, knowledge and revelations, results, hint ladder, claims | record progress, grant, verify and commit, claim and advance a hint, choose the audience | `CaseRules` (decisions), `CaseFlow` (consumers) |
| scene (`scene/assembler.go`) | none: pure over graph and index | assemble the view of a turn | `SceneView` |
| epistemic projection (`epistemic/*.go`) | none: pure | what each audience may be shown | `Epistemic` |
| world packages (`world/*.go`) | none: pure | validate places, mysteries and the scope of authored rules | `WorldPackage` |
| content store, graph store (`content`, `graphio`) | objects, claims, entities | put, claim, create, read, reconcile | as the round trips of the modules above, each of which may fail |
| web surface (`src/web`), commands, mock model, test infrastructure | | | not modelled |

**How they interact.** The gateway publishes an action; intake consumes it and
creates the turn; the write makes the rule processor evaluate the pack, which
publishes to a stage subject; that stage's consumer reads the phase, writes it,
and does its body; the body's fact on the entity makes the next rule match. Three
barrier consumers (knowledge, accusation, case progress) run beside adjudication,
write to the case all players share, and gate the companion stage. Persona
loops run on another stream, acknowledge only when they finish, and report their
failures on a third. At boot the process claims or joins a campaign, imports or
awaits its world, and its recovery pass reads both streams and the turns
and decides, for each turn, whether somebody still owes it work. The resolved
subject feeds the ledger and the notifier.

**What is hard.** The phase is read, classified and replaced with no
compare-and-swap, and several consumers of one turn run at once. Pointers, facts,
batch writes and the marker are separate writes. A persona judges again when its
task is redelivered. The recovery pass takes two snapshots at different times
while loops go on running. The case has one receipt slot for the turns of all its
players. Two processes may claim one campaign, and an abandoned import leaves
messages behind. The archive is appended to after a read, by two lanes and two
processes. Sockets die under a fan-out. `PROJECT.json` lists each
of these under `hazards`, at its line.

**What makes each component correct.** Admission: what was accepted becomes a
turn, and no turn is started over a held one. Recorder: a turn moves
only along legal hops, pointers name ended or running turns of their player, the
player's answer is kept. Loop: the phase never outruns the record, one persona
loop per stage, dice and effects agree, every turn ends. Applier: a batch is
applied once, all of it, and changes only what it names. Delivery: only the owner
receives a result, a wedged socket does not block the stream, shutdown ends every
socket. Boot: only a whole world is served, a marker certifies its import, play is
never undone, a boot never hangs. Ledger: one account per turn, none missing, and
it replays. Case: solved only by a recorded result, the solution stays locked,
receipts mean grants, hints climb. Projections: exactly what the audience may know.

## 2. Modules

`TurnPhases` holds the phase tables and `classify`; `TurnRecorder`, `TurnLoop`,
`TurnProgress` and `PackGate` build on it. `Admission` extends `TurnRecorder`,
`CaseFlow` extends `CaseRules`, `Epistemic` extends `SceneView`; `EffectApplier` (with
its abstract specification `AtomicEffects`), `PlayerDelivery`, `CampaignBoot`,
`CampaignLedger` and `WorldPackage` stand alone. `MC...` modules hold the definitions
the `.cfg` files name. The theorems are in modules of their own: `TurnLoopProofs`,
`EffectApplierProofs`, `PlayerDeliveryProofs`, `CampaignBootProofs`,
`CampaignLedgerProofs` and `CaseFlowProofs` extend the modules they are named for,
`AdmissionProofs` holds those of `TurnRecorder` and of `Admission`, and
`AlgorithmProofs` those of the pure modules and of `MCAlgorithms`. Operators whose
comment begins "Mutant of" are deliberately wrong variants of the definition below
them: no specification uses them, they document which defect each property detects.

**TurnRecorder.** State: each turn's phase, the two pointers of each player, the
unacknowledged actions, the delivery intake is handling and one transition per
consumer. Each graph operation is one action, so `Handle, Accept, ReadHeldTurns,
TurnIsLive, PointPlayerAtTurn` are the round trips of `Intake.Handle`, and
`ReadPhase, Compose, WritePhase, PointPlayerAtResolvedTurn` (or
`RepairResolvedPointer`) those of `transition`. `IntakeFails` and `CallFails` fail
a round trip with nothing written; each write also has an outcome in which it
commits, its reply is lost and the delivery is nak'd. A redelivery starts the
operation again. `ended` is history, and `stamp` is the
timestamp the terminal transition composes, which `Latest` compares. `SingleFlight`
restricts `ReadPhase` to turns without another transition in flight: the code
states this posture in `vocabulary/phases.go` and does not enforce it.

**Admission** composes the gateway with the recorder: its `Submit, ReadPlayer,
RefuseIfLive, PublishAction` replace the recorder's free `Publish`. A request may
be malformed; a key is the identity of the action and so of its turn; the stream
drops a message whose id it remembers until `WindowExpires`; a publish may be stored
though its sender is told "unavailable". `ImplementsRecorder == Spec` says the
composition is a recorder, so what is proved of `TurnRecorder` holds of it.

**TurnLoop.** One turn through the whole engine. `EvaluateRules` compares the rules
that match with those that matched before and publishes for the new ones;
`Deliver`/`EnterPhase` are `enter`'s read and write; the bodies are `Spawn`,
`ReadVerdict`/`RecordRoll`, `PlanBatch`/`CommitBatch`, `RunCompanion` and the three
barriers. A persona task is `queued`, `running`, `claimed` (companion only),
`committed` and `done`; it can be redelivered while it runs. `Crash` loses everything
in flight and keeps the streams; `Restart` and the boot steps follow `boot/engine.go`.
Abstractions: a verdict is reduced to whether it requires a roll; a batch, a roll and
a narration to the verdict they answer; `Returns` gives every body the choice between
success, failure before and failure after the write. Assumptions about the external
components: rules fire on the transition to matching (`on_enter`) and the pack's
`max_iterations` is never reached; stage triggers carry no message id and tasks do, so
a duplicate task within the window is dropped; a stage consumer handles one delivery
at a time; `Settle` returns only when the rule processor has seen every write.

**TurnProgress** is the abstract specification of a turn: a growing record, and a
phase that moves along legal hops and only when the record holds what the earlier
stages owe. `Fail` may happen at any time, and `Revive` is the honest part: a
stage that classified its hop before a failure was written may write after it,
because the phase write has no guard. `TurnLoop` implements it with
`record <- facts \cup {"verdict"}` once a verdict stands (`ImplementsProgress`).
That the turn never moves backwards while it lives, and enters no stage out of
order, are consequences (`LiveTurnMovesForward`).

**EffectApplier.** `Planned` is `buildPlan`: the whole value of every predicate of
every touched entity, folded from what was read. `Projections` is the set of writes,
one per entity and family, and `Precedes` their order: entities by first touch, then
families by first touch. `WriteTarget`
replaces one family of one entity from the plan made at the start, and may fail
before or after it commits; `MarkTurn` lands the marker; `CommitError` chooses
between the transient cause (the delivery returns) and any other (the turn ends).
Vocabulary, bounds, existence and kind rules are the constant set `Admissible`.

**AtomicEffects** is what the applier promises, with none of its writes: a batch
lands once, whole, on the world as it then is (`Land`); before that it may have left
what it names in any state and touches nothing else (`Disturb`); a rejected batch never
disturbed anything (`Reject`), and a turn that gave up on a failed write does nothing
more (`GiveUp`). A batch is here only the facts it decides (`names`) and those of
them it makes hold (`puts`). `EffectApplier` implements it with the facts of the world
as triples, `Land` at the marker, and a batch counted as open from its first write to
its marker (`ImplementsAtomicEffects`). The honest part is `GiveUp` after `Land`: the
reply to the marker can be what failed, and the turn then ends as incomplete with its
batch in the world.

**PlayerDelivery.** The session table's operations hold one lock and are single
steps. Each connection goes through `Verify, Serve, ReadEnds, Disconnect, Close`
(the order of the deferred calls in `serve`), with `Probe`, `Watch` and `PeerGone`
beside it; ids come from a counter. `Handle` takes the copy of the sessions,
`WriteTo` writes to the next of them by id, `Finish` acknowledges or naks. A nak
for a failed read changes nothing and is not a step. Frames and the read loop's
answers do not touch the table; an answer that cannot be written closes the socket
like `Probe`.

**CampaignBoot.** Several processes and one campaign. A process runs the steps of
`boot/engine.go` in order; the world step is `ClaimFresh` or `ClaimStored`, then
`Import` (one message per entity, `graph-ingest` applies them later),
`AwaitEntitiesBorn`, `AwaitMembershipIndexed` and `MarkImported`, or the wait for
another's marker, which may expire. The rule status is a shared value with a
revision; `CaptureRuleStatusBaseline` reads it before the rules start. Every step
may fail and every process may crash and start again; with all of them stopped an
operator may delete an unmarked campaign, as the refusal message asks.
`leftover` is history: a claim found messages of an abandoned import unread.

**CampaignLedger.** `Compose` makes the manifest of an ended turn. A writer scans
the turns page by page (`ReadPage, ReconcileTurn`), binds its consumer and handles
notifications; both lanes go through `ReadArchive`, the durable guard, and
`Publish`, which the stream deduplicates while its window is open. Beside it a turn
is judged, rolled, applied, narrated and ended, with the verdict and the batch kept
under the turn's key, so that a late judgment (`late`) replaces what was
rolled. `Timely` says a writer does not hold an empty reading for longer than the
duplicate window; without it two manifests are possible and nothing in the code prevents
them. `ReplayRefused` is the reader's verdict on an archived turn.

**CaseRules, CaseFlow.** `CaseRules` has the decisions: which event follows from
which phase, what may be observed, testified or shared, whether an accusation is
right, the hint ladder. `CaseFlow` runs the consumers of one case, at most one
delivery each, over the turns of several players, one action per round trip; an
interrupted delivery comes back with what it wrote left behind, and a trigger may be
repeated. A turn's decision is one of `Choices`, and its triggers are published as
the pack's conditions come to hold.

**SceneView, Epistemic, PackGate, WorldPackage** are pure. Each operator is the
function of its name; each module ends with a reference definition that
says what the function is for (`ViewIsWhole`, `TellsWhatIsAuthorized`, `IsClosed`,
`FiresInOrder`, `IsAnOrder`, `StaysInScope`), and `MCAlgorithms` compares the two
over enumerated inputs: one step picks an input, the invariants look at it. The
empty string of the code, a name that is not given, is `Unset`.

## 3. Runs

| Run | Bounds | What it shows |
|---|---|---|
| `Admission` | one player, two connections, two keys, one transition in flight per turn, every round trip may fail | an accepted action is on the stream or a turn, no turn over a held one, a held live turn is not dropped, a player keeps an answer unless a lost pointer write was never repaired, and the composition implements the recorder |
| `LoopSafety` | mystery turn with a warning, one failure | the record precedes the phase, one companion decision, `TurnLoop` implements `TurnProgress` |
| `LoopRestart` | two failures, budget of one retry, two possible judgments | one loop per stage, no abandoned turn with a live task, effects agree with dice |
| `LoopLiveness` | one failure, repeatable judgment | every turn ends |
| `LoopStall` (violation) | the same with two possible judgments | a different second judgment stalls the turn for ever |
| `EffectBatches` | three turns, seven batches, three failures | only named facts change, every fact no part-way batch names is as the last marker naming it left it, and the applier implements `AtomicEffects`: once, whole, at the marker |
| `Delivery` | three connections, two players, cap of two | the cap, own results only, acknowledged means accepted by all, every notification settles, shutdown ends every socket |
| `CaseFlow` | two players, three turns, cases that start in cold-open or investigation, one failure | solved by a result, no receipt ahead of the case, receipts mean grants, the solution stays locked, a passed barrier is final, hints climb |
| `Boot` | three processes of two experiences, two starts each, failures anywhere | only the whole world of the one campaign is served, the marker certifies the import, the pass waits for its own rules, play is never undone, every boot settles |
| `BootAfterMove` (violation) | one process, two starts, nothing fails | a committed move makes the next boot of a marked campaign refuse |
| `Ledger` | two writers, one turn in play and one that ended unannounced, pages of one, two judgments, one failure | one account per turn, bound means whole, what was not judged late replays as played, every notification is archived |
| `Algorithms` | 118 000 inputs | views are whole, projections tell what is authorized and leave no dangling reference, accepted rules fire in order, accepted packages are playable, authored rules stay in scope |

*Why the bounds are enough.* Two keys on two connections let both be admitted
before either has a turn, and let a pointer move and be raced for. In the loop, one
failure already gives every crash point, and two give a crash during the recovery
from another, with `MaxAttempts = 1` making the budget run out; `MaxQueued = 2`
counts "one" and "more than one" waiting trigger. In `EffectBatches` three turns let
one batch be overwritten by a second between two deliveries of a third, and the
batches contain a contradiction of each kind, an inadmissible intent and the
empty batch. Three connections are one more than the cap. Three processes are two
that race for one campaign and one that must be turned away; two starts are a boot
and a restart. Two writers are the least that race for a subject, and a page of one
makes the scan cross pages. Three turns of two players let one of them move the
case while another's delivery stands between two writes. Each algorithm input
varies every condition the code branches on. Deadlock is not checked: a turn that
ended, batches that were all applied, a campaign that was refused and a server that
was shut down stop.

*Fairness.* `LoopLiveness` and `LoopStall` use weak fairness of the rule processor, of
each stage consumer, of each persona task, of the watcher and of the boot: these are
goroutines and durable consumers with unlimited redelivery. `Restart` is fair too, but
is enabled only when the turn has not ended and nothing is left to run: recovery of a
turn nobody owes work to happens at boot and nowhere else, so without an operator
restart nothing can be promised. `Delivery` uses weak fairness of each connection's
goroutine (read deadlines pass), of the shutdown watcher, and of the notifier's
consumer. `Boot` uses weak fairness of each process's boot step (its waits have
deadlines) and of the components it started: rule status, `graph-index` and
`graph-ingest`. `Ledger` uses weak fairness of each writer, a crashed one included (it
is restarted). No fairness is put on failures, on peers, on players or on new
connections.

*What the properties do not claim.* `TurnEnds` is checked for a plain turn: with a
mystery, an accusation made during the investigation is nak'd until somebody moves
the case; with a companion, a stored decision that never landed conflicts with its
own exhaustion record on every redelivery. `ServedWorldIsWhole`,
`MarkerCertifiesImport` and `PlayIsNeverUndone` make an exception for a campaign
claimed over the messages of an abandoned import. `ReplaysAsPlayed` leaves out
turns judged after their dice and those that failed between verdict and dice.
`AcceptedWorldIsPlayable` is about packages whose believers are suspects, and
`RulesFireInOrder` exempts a turn that has just moved, as the comment of
`checkArtifactGate` does. In `CaseFlow` no player starts with the motive, which
would be a package that gives the solution away.

*Findings.* The two violation runs contradict comments or requirements of
the repository, quoted in `PROJECT.json`. Others are kept in the model and described as
hazards: a failed turn can be revived (`turn/recorder.go:729`), `ledger/replay.go:253`
calls a turn honest that line 258 refuses, a premature accusation is nak'd for ever
(`accusation/consumer.go:119`), a stalled progress event can replace the receipt of a
correct accusation (`caseflow/receipt.go:94`), a belief the loader accepts makes the
projection refuse (`world/mystery.go:323`), and the stages bind although the
stranded-turn pass could not read its queues (`boot/engine.go:830`).

## 4. Proofs

Every safety property the passing runs check is a theorem, for all values of the
constants or, for the enumerated inputs of `MCAlgorithms`, from a theorem about any
input. Only liveness is left to TLC, and for three of its five properties a safety
half is proved. A proof of `Spec => []Inv` finds a stronger invariant that steps
preserve; the sections below name it and say what it adds, since that is where the
argument is. Each preservation proof has one step per action. The constants are
constrained by the `...Assumption` of the module, which TLC evaluates on every run; a
hypothesis beyond those is part of the theorem (`ASSUME ... PROVE`) and is named here.

**Recorder** (`AdmissionProofs`, first part), for any turns, players, consumers and
`Calls`, from `RecorderAssumption`.

* `TypeCorrect`.
* `PointersAreSound`, `ResolvedAfterEnding`, and the action property
  `NoActionIsLost`, by `PointerInv`. The pointer properties are not inductive: a
  pointer is written some steps after the check that justifies it, so `InFlightKnows`
  says what an operation in flight already knows (intake past its create step has a
  turn that exists; a consumer about to point at a resolved turn holds one that
  has ended).
* `HopsAreLegal`, `ResolvedIsTerminal`, `LiveTurnIsKept`, `AnswersAreKept`: under
  `SingleFlight`, by `FlightInv`: at most one consumer is past its read for a turn
  (`Exclusive`), so what it read still holds when it writes (`GuardStillHolds`),
  and a held turn found terminal stays terminal (`HeldStillHolds`). Without
  `SingleFlight` these are false: that is `TurnProgress`'s `Revive`.

**Admission** (second part), from `AdmissionAssumption` as well.

* `AdmissionTypeCorrect`, and `AdmissionRefinesRecorder`: every step of the
  composition is a step of the recorder or changes nothing of it. A gateway step is
  matched by the recorder's `Publish` or by a stutter; what makes it go through is
  `SubmissionKnows`, the submission's turn being one its player may have.
* `AcceptanceIsKept`, by `StoredOnItsWay`: whatever the duplicate window remembers or
  a client was told is on the stream or has its turn. The window has to be
  in the invariant, because a repeated key is answered from it alone.
* `HeldTurnIsRespected`, under `SingleFlight`, by `HeldIsOver`: a submission past
  its check still finds the turn it checked terminal, if the pointer has not moved.
* `AdmissionKeepsLiveTurn`, `AdmissionKeepsAnswers`: the recorder's theorems, carried
  over by the refinement.

**The loop** (`TurnLoopProofs`), for any verdicts, budget, deliveries, queue bound and
number of failures, from `LoopAssumption`.

* `LoopTypeCorrect`: types, the bounds on attempts and deliveries, and that a
  consumer works only on an unacknowledged trigger while the process is up.
* `RecordComesFirst`, by `RecordInv`: no queued trigger and no consumer past
  its read is ahead of the record either (`Backed`). A stage enters on its trigger
  alone, so the invariant must hold of the triggers; a rule publishes one only when
  its conditions hold, the recovery pass only for the phase the turn is in.
* `OneLoop` and the action property `AbandonsNoTask`, by `TaskInv`: an unfinished task
  belongs to the attempt the turn is on, since the pass counts a new attempt
  only where it saw no task.
* `SpeaksOnce`, by `SpokenInv`: decision, stage record and reference are claimed in
  that order.
* `LoopImplementsProgress`: the step refinement to `TurnProgress`, under `Steady`
  (all judgments agree on whether to roll), by `EarlyInv` and `HopInv`: one consumer
  at a time stands between its read and its write, and the phase it read is still
  there unless the turn failed meanwhile. `Steady` cannot be dropped: with two verdicts
  that disagree TLC finds both `resolving` and `applying` classified at `adjudicating`
  and the later write taking the turn back. `LiveTurnMovesForward` is what the
  refinement carries over from `TurnProgress`.
* `EffectsFollowDice`, under `MaxDeliver <= 2`, by `JudgeInv` and `DiceInv`: a second
  judgment is the last, and leaves what the first began in agreement. The bound is
  the code's (`resume/pending.go:74`); with three deliveries TLC finds effects and dice
  that disagree.
* `PlainTurnNeverStrands`, under `~Mystery`, the safety half of `TurnEnds`: as long as
  no publish, write, reply or process has failed (`faults = 0`), a turn that has not
  ended has somebody to move it, so the stranded-turn pass has nothing to find. The
  invariant `Calm` describes a run without failures as one turn passed from hand to
  hand. `TokenInv`: exactly the stage the turn expects has it, as a waiting trigger, a
  working persona or a failed loop; which stage that is depends on whether the phase's
  artifact is recorded and its rule has matched. `WorkInv`: a consumer past its read
  finds the phase as it read it, and each persona runs once. `RulesInv`: no artifact
  and no match is ahead of the phase, and the engine has seen what was written or
  will. `BarrierInv`: a barrier that was started has landed its fact or has its
  trigger. The steps are reduced to kinds (a consumer goes on, records, hands over or
  ends the turn; a persona goes on, lands or fails), each proved once. With a mystery
  TLC refutes it without any failure of the substrate: a barrier may fail the turn
  while a stage stands between its read and its write, the stage revives it
  (`turn/recorder.go:729`), and it waits in `applying` for a fact nobody will write
  until the next restart.

**Effects** (`EffectApplierProofs`), for any turns, entities, predicates, families,
batches and number of failures, from `ApplierAssumption`.

* `BatchesAreAtomic`: every step of the applier is a step of `AtomicEffects` or
  changes nothing of it. A write of a family is `Disturb`, the marker is `Land`: at
  that point `WrittenAsPlanned` (below) says the whole batch stands, and the plan made
  at the start agrees with the world on everything else. The mapping needs
  `FlightIsLive`, that a delivery at work is of a turn still applying, so that no
  write follows the end of a turn; `PutIsNamed` and `EffectsAreFixed` relate the batch
  to its two sets of facts.
* `TypeCorrect`, `BatchesAreMarkedOnce`, `RejectionWritesNothing` and the action
  property `OnlyNamedChange`. `FlightKnows` says that a delivery that is writing has an
  accepted, unmarked batch, and that its plan agrees with the *current* world on every
  fact the batch does not name. That agreement comes from the lemma
  `PlanKeepsUnnamed` about `foldValue`, and is kept because the apply stage is the only
  writer of these families and handles one delivery at a time: exactly what a
  second writer, or a plan kept across a redelivery, would break. `RejectionIsFinal`
  says that rejection depends on the batch alone.
* `ReapplicationConverges`: a fact that no part-way batch names is what the last
  marker naming it says, or as imported. `WrittenAsPlanned` adds that the plan obeys its
  batch on all it names and that what has been written stands, so that at the marker
  the whole batch is in the world (`PlanObeysBatch`, `WriteReplacesFamily`,
  `LastWord`). The property is stated fact by fact rather than as a fold over
  the markers, which would need an induction; TLC compared the two on the run.

**Delivery** (`PlayerDeliveryProofs`), for any number of connections and any cap, from
`DeliveryAssumption`: `TypeCorrect` (with the cap), `ReadersAreBound`,
`ResultsStayPrivate` and `SettledMeansReached`. `Lifetime` says a connection is bound
exactly from `Bind` to `Disconnect` and its goroutine knows its player; `CopyHolds`
what the router's copy still implies about sockets that have moved on since: those not
yet over belong to the owner of the result, and without a failure every target is
either waiting or has accepted. `ShutdownIsFinal` is the safety half of
`ShutdownEndsEverySocket`: after the context ends every step of a connection brings it
nearer its end (`Distance`), no new one starts, and a closed socket stays closed, for a
socket exists only from the bind on (`NoSocketYet`).

**Boot** (`CampaignBootProofs`), for any processes, plan, members and starts, from
`BootAssumption` (the plan names each entity once): `BootIsSound`, and from it
`BootTypeCorrect`, `ServedWorld`, `MarkerCertifies`, `PassWaits` and the action property
`PlayIsKept`. `BootInv` adds where a process can be (`Placed`), that the campaign
it works for is the claimed one (`CampaignHeld`), that one process imports until the
marker (`OneImporter`), that what is born came from the log and the log is the plan
(`ImportIsWhole`), that play follows the marker (`PlayFollows`), and who can have
written the rule status since a lone process took its baseline (`LoneStatus`). The
actions are first reduced to a few kinds of step (`ProcessStep`), so that each part of
the invariant is proved once per kind.

**Ledger** (`CampaignLedgerProofs`), for any writers, turns, page limit and
failures, from `LedgerAssumption`.

* `LedgerTypeCorrect`, by `AccountInv`: whatever a writer read of an ended turn, and at
  whatever time, is still an account of it.
* `OneAccount`, under `Timely`, by `SingleInv`: a writer that found its subject empty
  is covered by the duplicate window once it no longer is (`PublishIsCovered`).
* `BoundIsWhole`, by `WholeInv`: what the scan saw ended is archived, reported or
  being archived. `Timely` is not needed.
* `AcknowledgedAfterArchived`, the safety half of `NotifiedIsArchived`: a notification
  stays on the stream until the archive holds its turn, and an account stays. A message
  dropped as a duplicate counts, since the window only remembers what is
  archived (`WindowIsArchived`); the window may be of any length.
* `ReplayIsFaithful`, by `RecordAgrees`: the record of a turn and the objects
  stored under its key belong together while it has been judged once and in time.

**Case** (`CaseFlowProofs`), for any turns, players, evidence, decisions and failures,
from `CaseAssumption`. All rest on `FlowInv`: a delivery in progress is of a published
trigger and carries its own event.

* `ReceiptsInOrder`, by `WritesInOrder`: a receipt about to be written was not ahead
  of the case when it was compared, and the case never goes back.
* `ReceiptsAreGranted`, by `GrantedFirst`: a plan being revealed has been granted.
* `SolvedCaseHasResult`, by `ToldAfterResult`: a correct result is on its turn before
  the case hears of it.
* `SolutionIsLocked`, by `PlansAreUnlocked` (a plan in progress holds no part of the
  solution before its time) and `ResultsAreVerified` (a result is of the turn's own
  accusation).
* `BarriersAreFinal`, an action property, by `AcceptedOnce`: what a barrier accepted
  it would accept again, in whatever phase the case is by then.
* `HintsClimbOnce`, by `LadderInv`: a claimed hint is of the rung the ladder is on or
  has left, it has been left once the hint is staged, and a player has one turn that
  has not ended, so nobody else moves the ladder in between.
* `CaseTypeCorrect`, whose hard part is that the committer never meets a
  record other than the one it would write (`ResultsAreDetermined`).

**Algorithms** (`AlgorithmProofs`). The general theorems are about every input, not
only the enumerated ones; those of the run (`RulesAreInOrder`, `RulesAreInScope`,
`ViewsOfTheRun`, `ProjectionsOfTheRun`, `PackagesOfTheRun`) follow by showing that the
inputs meet the hypotheses.

* `AcceptedRulesFireInOrder`: any rule `checkDefinition` accepts, on any turn. Its
  hypothesis is that a condition of `eq` or `ne` has one value, as in the code's type.
* `AcceptedRulesStayInScope`: any rule of a world package, under any substitution that
  covers the two names a rule may use and no literal.
* `AssembledViewsAreWhole`: any graph and index that name finitely many things. The
  index need not agree with the graph at all.
* `ProjectionsAreClosed`: any graph and audience.
* `ProjectionsTellWhatIsAuthorized`: any graph of pairs, if the turn, its scene and
  the companion's bond are not themselves evidence. The projector shows those three
  without looking at their kind, so the hypothesis is needed. Stale entries of the
  predicate index do no harm, since the records are read again (`KnownIsRecorded`,
  `RevealedIsRecorded`).
* `AcceptedPackagesArePlayable`: in any package the loader accepts, the timeline is an
  order without gap or tie, and the casekeeper can be shown the first turn.
  Hypotheses: the package is as parsed (`IsPackage`), its campaign begins with the
  player's character in its first scene (`Begins`), at most thirty names are in play
  (`Small`: the projection has a bound, the loader has none), and the believers are
  suspects, no more than a scope may name (`MaxCasekeeperTargetActors`): the last is
  the gap at `world/mystery.go:323`. That distinct positions with none missing make an
  order is an induction on the size of the timeline; it is done with a set of numbers
  and its least element, since an operator cannot be passed to the library's induction
  theorem.

**Only model-checked.** Liveness under fairness is out of the prover's reach:
`TurnEnds`, `EveryNotificationSettles`, `ShutdownEndsEverySocket`, `BootSettles`,
`NotifiedIsArchived`. So are the counterexamples: `LoopStall`, `BootAfterMove`, and
those that show a hypothesis above to be needed.

## 5. Not modelled, and why

Wire payloads and their encoding (pure conversions, covered by table tests); the
prompts and scene text, and what a model answers (not determined by the code); the
arithmetic of the dice bands and the derivation of seeds and identities (hash
functions, taken as injective names); the browser client; commands, harnesses and the
mock model. The graph store and the streaming substrate are external and appear only
as the round trips and deliveries the engine sees; the ack floors behind the two-part
snapshot of `resume/pending.go` are reduced to what the pass concludes from them.
Storage growth, timeouts as durations and logging are left out.

## 6. Plan

Done: all modules of section 2, their runs, and the proofs of section 4.

Next, in order of what matters:

1. `CampaignBoot`: the safety half of `BootSettles`, that what a waiting process
   waits for can still happen or its wait can still expire.
2. `TurnLoop` in a mystery: `PlainTurnNeverStrands` for turns no barrier fails, whose
   accusations may wait for the case to move.
3. `CaseFlow` as the environment of the barriers of `TurnLoop`: one refinement mapping
   instead of the nondeterministic choice each makes there.
