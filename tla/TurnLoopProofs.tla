--------------------------- MODULE TurnLoopProofs ---------------------------
(***************************************************************************)
(* The turn loop of TurnLoop, for any verdicts, retry budget, deliveries,  *)
(* queue bound and number of failures.                                     *)
(***************************************************************************)
EXTENDS TurnLoop, FiniteSetTheorems, TLAPS

(* What the types rest on: a barrier never enters a phase, a task that     *)
(* waits has a delivery left, and a roll or a batch is planned from a      *)
(* verdict.                                                                *)
Shapes ==
  /\ \A s \in Barriers : worker[s].pc # "enter"
  /\ \A k \in TaskIds : task[k].st = "none" => task[k].n = 0
  /\ \A k \in TaskIds : task[k].st = "queued" => task[k].n < MaxDeliver
  /\ \A s \in {"resolving", "applying"} : worker[s].pc = "commit" => worker[s].v # None

LoopTyped == TypeOK /\ Shapes

(* The record a stage's trigger presupposes.                               *)
Backed(s) ==
  /\ StagesOwedBy(s) \subseteq facts
  /\ s \in {"resolving", "applying", "companion", "narrating", "complete"} => verdict # None
  /\ s \in {"companion", "narrating", "complete"} => batch # None

(* No trigger is ahead of the record: what makes RecordPrecedesPhase       *)
(* inductive, for a stage enters its phase on a trigger alone.             *)
RecordInv ==
  /\ Backed(phase)
  /\ \A s \in StagePhases : queue[s] > 0 => Backed(s)
  /\ "batch" \in facts => batch # None

(* A task on the AGENT stream was spawned under the attempt the turn is    *)
(* on: the pass counts a new one only where it saw no task.                *)
TaskInv ==
  /\ \A k \in Unfinished : k[2] = attempts
  /\ boot \in {"pass", "decide"} => snap # "unread"
  /\ boot = "decide" /\ snap = "empty" => Unfinished = {}
  /\ boot = "abandon" => Unfinished = {}

(* A companion reference, its stage record and its decision are claimed in *)
(* the opposite order.                                                     *)
SpokenInv ==
  Warning =>
    /\ "companion" \in facts => outcome # None
    /\ outcome # None => said # None
    /\ \A k \in TaskIds : task[k].st = "claimed" => said # None

(* A turn whose dice or effects have been reached is past the stages that  *)
(* judge it, for good: no consumer can take it back there.                 *)
Early == {"accepted", "interpreting", "adjudicating"}
Late == {"applying", "companion", "narrating", "complete"}
Entering(s) == worker[s].pc = "enter"
Past == phase \notin Early /\ ~Entering("interpreting") /\ ~Entering("adjudicating")
DiceReached ==
  \/ roll # None \/ batch # None
  \/ \E s \in {"resolving", "applying"} : worker[s].pc \in {"body", "commit"}

(* Up to the judgment one consumer at a time is between its read of the    *)
(* phase and its write, and the phase it read is still there unless the    *)
(* turn was failed since.                                                  *)
EarlyInv ==
  /\ Entering("interpreting") => phase \in {"accepted", "failed"}
  /\ Entering("adjudicating") => phase \in {"interpreting", "failed"}
  /\ \A s \in {"interpreting", "adjudicating"}, o \in StagePhases : Entering(s) /\ Entering(o) => s = o
  /\ \A o \in StagePhases \ {"interpreting", "adjudicating"} : Entering(o) => phase \notin {"accepted", "interpreting"}
  /\ DiceReached => Past

(* Judgments that agree on the dice.                                       *)
AlwaysRolls == \A v \in Verdicts : RequiresRoll[v]
NeverRolls == \A v \in Verdicts : ~RequiresRoll[v]
Steady == AlwaysRolls \/ NeverRolls

(* With such judgments the same holds all the way: the resolving and the   *)
(* applying consumers never both find the turn adjudicated.                *)
HopInv ==
  /\ \A s \in StagePhases : Entering(s) => phase \in Predecessors[s] \cup {"failed"}
  /\ \A s, o \in StagePhases : Entering(s) /\ Entering(o) => s = o
  /\ NeverRolls => queue["resolving"] = 0 /\ phase # "resolving"
  /\ AlwaysRolls =>
       /\ phase \in Late => roll # None
       /\ \A s \in Late : queue[s] > 0 => roll # None

(* Without that assumption, the judgments are counted: the adjudication    *)
(* task is delivered twice at most, so a second judgment is the last.      *)
JudgeIds == {k \in TaskIds : k[1] = "adjudicating"}
Final ==
  \A k \in JudgeIds : \/ task[k].st \in {"none", "done"}
                      \/ task[k].st \in {"claimed", "committed"} /\ task[k].n >= MaxDeliver
JudgeInv ==
  /\ \A k \in JudgeIds : task[k].st \in {"running", "claimed", "committed"} => task[k].n >= 1
  /\ verdict # None =>
       \A k \in JudgeIds : /\ task[k].st = "queued" => task[k].n >= 1
                           /\ task[k].st = "running" => task[k].n >= 2

(* The dice cannot be thrown any more: the resolver is not about to record *)
(* a roll, and will not be, because the last judgment declined the dice or *)
(* because it has no trigger and will get none.                            *)
Unrolled ==
  /\ roll = None /\ worker["resolving"].pc # "commit"
  /\ \/ Final /\ verdict # None /\ ~RequiresRoll[verdict]
     \/ queue["resolving"] = 0 /\ phase # "resolving"

(* The effects that are applied or about to be.                            *)
Effected(v) == v \in Verdicts /\ (batch = v \/ (worker["applying"].pc = "commit" /\ worker["applying"].v = v))

NotLate == phase \notin Late /\ \A s \in Late : queue[s] = 0

(* A first judgment decides alone which of the two consumers may work; a   *)
(* second leaves what the first began in agreement.                        *)
DiceInv ==
  /\ verdict = None => /\ roll = None /\ batch = None
                       /\ \A s \in {"resolving", "applying"} : worker[s].pc # "commit"
  /\ verdict # None /\ ~Final =>
       IF RequiresRoll[verdict] THEN roll # None \/ NotLate
       ELSE roll = None /\ queue["resolving"] = 0 /\ phase # "resolving"
  /\ worker["resolving"].pc = "commit" =>
       roll # None \/ NotLate \/ (Final /\ verdict # None /\ RequiresRoll[verdict])
  /\ \A v \in Verdicts : Effected(v) => IF RequiresRoll[v] THEN roll # None ELSE Unrolled

-----------------------------------------------------------------------------
(* What the operators do.                                                  *)

Pcs == {"idle", "enter", "body", "commit", "fail"}
WorkerStates == [pc : Pcs, v : Verdicts \cup {None}]
TaskStates == [st : {"none", "queued", "running", "claimed", "committed", "done"}, n : 0 .. MaxDeliver]

(* A consumer is done with its delivery, acknowledged or not, or is at     *)
(* another place with it.                                                  *)
Others(s) == \A o \in Subjects : o # s => queue'[o] = queue[o] /\ worker'[o] = worker[o]
Settles(s) == Others(s) /\ queue'[s] \in {queue[s], queue[s] - 1} /\ worker'[s] = Idle
Moves(s, pc, v) == Others(s) /\ queue'[s] = queue[s] /\ worker'[s] = [pc |-> pc, v |-> v]

QueuesTyped ==
  /\ queue \in [Subjects -> 0 .. MaxQueued]
  /\ worker \in [Subjects -> WorkerStates]
  /\ \A s \in Subjects : worker[s].pc # "idle" => queue[s] > 0 /\ boot = "up"

LEMMA SubjectNames ==
  /\ Barriers \subseteq Subjects /\ StagePhases \subseteq Subjects
  /\ \A s \in Barriers : s \notin StagePhases
  /\ \A s \in Subjects : s \in StagePhases \/ s \in Barriers
  /\ StagePhases \subseteq Phases
  /\ Spawning \subseteq StagePhases
BY DEF Barriers, StagePhases, Subjects, Phases, Spawning

LEMMA BoundsAreNat ==
  /\ MaxAttempts \in Nat /\ MaxAttempts > 0 /\ MaxDeliver \in Nat /\ MaxDeliver > 0
  /\ MaxQueued \in Nat /\ MaxQueued > 0 /\ MaxFaults \in Nat
BY LoopAssumption

LEMMA IdleTyped == Idle \in WorkerStates /\ Idle.pc = "idle" /\ Idle.v = None
BY DEF Idle, WorkerStates, Pcs

LEMMA TypeParts ==
  ASSUME TypeOK
  PROVE  /\ QueuesTyped
         /\ task \in [TaskIds -> TaskStates]
         /\ \A s \in Subjects : /\ queue[s] \in 0 .. MaxQueued
                                /\ worker[s] \in WorkerStates
                                /\ worker[s].pc \in Pcs
                                /\ worker[s].v \in Verdicts \cup {None}
BY DEF TypeOK, QueuesTyped, TaskStates, WorkerStates, Pcs

LEMMA SettleEffect ==
  ASSUME TypeOK, NEW s \in Subjects, worker[s].pc # "idle" \/ queue[s] > 0,
         Ack(s) \/ NakDelivery(s), UNCHANGED boot
  PROVE  Settles(s) /\ QueuesTyped'
<1>1. QueuesTyped /\ queue[s] \in 0 .. MaxQueued /\ queue[s] > 0
  BY TypeParts DEF QueuesTyped
<1>2. worker' = [worker EXCEPT ![s] = Idle]
  BY DEF Ack, NakDelivery
<1>3. queue' = queue \/ queue' = [queue EXCEPT ![s] = queue[s] - 1]
  BY DEF Ack, NakDelivery
<1>4. queue[s] - 1 \in 0 .. MaxQueued
  BY <1>1, BoundsAreNat
<1>5. Settles(s)
  BY <1>1, <1>2, <1>3 DEF Settles, Others, QueuesTyped
<1>6. queue' \in [Subjects -> 0 .. MaxQueued]
  BY <1>1, <1>3, <1>4 DEF QueuesTyped
<1>7. worker' \in [Subjects -> WorkerStates]
  BY <1>1, <1>2, IdleTyped DEF QueuesTyped
<1> QED
  BY <1>1, <1>5, <1>6, <1>7, IdleTyped DEF QueuesTyped, Settles, Others

LEMMA MoveEffect ==
  ASSUME TypeOK, NEW s \in Subjects, NEW pc \in Pcs, NEW v \in Verdicts \cup {None},
         boot = "up", queue[s] > 0, Goto(s, pc, v), UNCHANGED boot
  PROVE  Moves(s, pc, v) /\ QueuesTyped' /\ worker'[s].pc = pc /\ worker'[s].v = v
<1>1. QueuesTyped
  BY TypeParts
<1> DEFINE r == [pc |-> pc, v |-> v]
<1>2. r \in WorkerStates /\ r.pc = pc /\ r.v = v
  BY DEF WorkerStates
<1>3. queue' = queue /\ worker' = [worker EXCEPT ![s] = r]
  BY DEF Goto
<1> HIDE DEF r
<1>4. worker' \in [Subjects -> WorkerStates] /\ worker'[s] = r /\ \A o \in Subjects : o # s => worker'[o] = worker[o]
  BY <1>1, <1>2, <1>3 DEF QueuesTyped
<1>5. Moves(s, pc, v)
  BY <1>3, <1>4 DEF Moves, Others, r
<1> QED
  BY <1>1, <1>2, <1>3, <1>4, <1>5 DEF QueuesTyped

(* Publishing never takes a trigger away.                                  *)
LEMMA EnqueueEffect ==
  ASSUME TypeOK, NEW S, Enqueue(S), UNCHANGED worker, boot' = boot \/ boot # "up"
  PROVE  /\ QueuesTyped'
         /\ \A s \in Subjects : queue'[s] > 0 => queue[s] > 0 \/ s \in S
         /\ \A s \in Subjects : s \notin S => queue'[s] = queue[s]
<1>1. QueuesTyped /\ \A s \in Subjects : queue[s] \in 0 .. MaxQueued
  BY TypeParts
<1>2. \A s \in Subjects : queue'[s] = IF s \in S /\ queue[s] < MaxQueued THEN queue[s] + 1 ELSE queue[s]
  BY DEF Enqueue
<1>3. \A s \in Subjects : queue'[s] \in 0 .. MaxQueued /\ queue'[s] >= queue[s]
  BY <1>1, <1>2, BoundsAreNat
<1>4. queue' \in [Subjects -> 0 .. MaxQueued]
  BY <1>3 DEF Enqueue
<1>5. \A s \in Subjects : worker[s].pc # "idle" => queue'[s] > 0 /\ boot' = "up"
  BY <1>1, <1>3 DEF QueuesTyped
<1> QED
  BY <1>1, <1>2, <1>4, <1>5 DEF QueuesTyped

LEMMA SetTaskEffect ==
  ASSUME task \in [TaskIds -> TaskStates], NEW k \in TaskIds,
         NEW st \in {"queued", "running", "claimed", "committed", "done"}, SetTask(k, st)
  PROVE  /\ task' \in [TaskIds -> TaskStates]
         /\ task'[k].st = st /\ task'[k].n = task[k].n
         /\ \A o \in TaskIds : o # k => task'[o] = task[o]
<1> DEFINE r == [task[k] EXCEPT !.st = st]
<1>1. task' = [task EXCEPT ![k] = r]
  BY DEF SetTask
<1>2. task[k] \in TaskStates
  OBVIOUS
<1>3. r \in TaskStates
  BY <1>2 DEF TaskStates
<1>4. r.st = st /\ r.n = task[k].n
  BY <1>2 DEF TaskStates
<1> HIDE DEF r
<1>5. task' \in [TaskIds -> TaskStates]
  BY <1>1, <1>3
<1>6. task'[k] = r /\ \A o \in TaskIds : o # k => task'[o] = task[o]
  BY <1>1
<1> QED
  BY <1>4, <1>5, <1>6

LEMMA RunTaskEffect ==
  ASSUME task \in [TaskIds -> TaskStates], NEW k \in TaskIds, task[k].n < MaxDeliver,
         task' = [task EXCEPT ![k] = [st |-> "running", n |-> @.n + 1]]
  PROVE  /\ task' \in [TaskIds -> TaskStates]
         /\ task'[k].st = "running" /\ task'[k].n = task[k].n + 1
         /\ \A o \in TaskIds : o # k => task'[o] = task[o]
<1> DEFINE r == [st |-> "running", n |-> task[k].n + 1]
<1>1. task[k].n \in 0 .. MaxDeliver
  BY DEF TaskStates
<1>2. r \in TaskStates /\ r.st = "running" /\ r.n = task[k].n + 1
  BY <1>1, BoundsAreNat DEF TaskStates
<1>3. task' = [task EXCEPT ![k] = r]
  OBVIOUS
<1> HIDE DEF r
<1> QED
  BY <1>2, <1>3

(* A task taken from its loop waits for its next delivery or is over.      *)
LEMMA RedeliverEffect ==
  ASSUME NEW t \in TaskStates
  PROVE  /\ Redelivered(t) \in TaskStates
         /\ Redelivered(t).n = t.n
         /\ Redelivered(t).st = "none" => t.st = "none"
         /\ Redelivered(t).st = "queued" => t.st = "queued" \/ t.n < MaxDeliver
         /\ Redelivered(t).st \notin {"running", "claimed", "committed"}
         /\ Redelivered(t).st = "queued" => t.st \in {"queued", "running", "claimed", "committed"}
         /\ t.st = "none" => Redelivered(t).st = "none"
<1> DEFINE q == [t EXCEPT !.st = "queued"]
           d == [t EXCEPT !.st = "done"]
<1>1. q \in TaskStates /\ q.st = "queued" /\ q.n = t.n
  BY DEF TaskStates
<1>2. d \in TaskStates /\ d.st = "done" /\ d.n = t.n
  BY DEF TaskStates
<1>3. \/ t.st \notin {"running", "claimed", "committed"} /\ Redelivered(t) = t
      \/ t.st \in {"running", "claimed", "committed"} /\ t.n < MaxDeliver /\ Redelivered(t) = q
      \/ t.st \in {"running", "claimed", "committed"} /\ Redelivered(t) = d
  BY DEF Redelivered
<1>4. t.st \in {"none", "queued", "running", "claimed", "committed", "done"}
  BY DEF TaskStates
<1> HIDE DEF q, d
<1> QED
  BY <1>1, <1>2, <1>3, <1>4

LEMMA PublishTaskEffect ==
  ASSUME task \in [TaskIds -> TaskStates], attempts \in Attempts, NEW s \in Spawning, PublishTask(s)
  PROVE  /\ task' \in [TaskIds -> TaskStates]
         /\ <<s, attempts>> \in TaskIds
         /\ \A k \in TaskIds :
              \/ task'[k] = task[k]
              \/ k = <<s, attempts>> /\ task[k].st = "none" /\ task'[k].st = "queued" /\ task'[k].n = task[k].n
<1>1. <<s, attempts>> \in TaskIds
  BY DEF TaskIds
<1>2. CASE task[<<s, attempts>>].st = "none"
  <2> DEFINE k == <<s, attempts>>
  <2>1. SetTask(k, "queued")
    BY <1>2 DEF PublishTask, SetTask
  <2>2. k \in TaskIds
    BY <1>1
  <2> HIDE DEF k
  <2>3. /\ task' \in [TaskIds -> TaskStates] /\ task'[k].st = "queued" /\ task'[k].n = task[k].n
        /\ \A o \in TaskIds : o # k => task'[o] = task[o]
    BY <2>1, <2>2, SetTaskEffect
  <2> QED
    BY <1>1, <1>2, <2>3 DEF k
<1>3. CASE task[<<s, attempts>>].st # "none"
  BY <1>1, <1>3 DEF PublishTask
<1> QED
  BY <1>2, <1>3

(* What a consumer read before it waits to write.                          *)
LEMMA ClassifyMeans ==
  ASSUME phase \in Phases, NEW s \in StagePhases
  PROVE  /\ Classify(phase, s) = "advanced" => phase \in Predecessors[s] /\ phase \notin TerminalPhases
         /\ Classify(phase, s) = "resumed" => phase = s
<1>1. s \in Phases
  BY SubjectNames
<1> QED
  BY <1>1 DEF Classify, IsTerminal, PhaseFollows

Placed(s) ==
  \/ worker'[s] = Idle /\ queue'[s] \in {queue[s], queue[s] - 1}
  \/ /\ queue'[s] = queue[s] /\ worker'[s].pc = "enter" /\ worker[s].pc = "idle"
     /\ s \in StagePhases /\ phase \in Predecessors[s] /\ phase \notin TerminalPhases
     /\ UNCHANGED turnVars
  \/ queue'[s] = queue[s] /\ worker'[s].pc = "body" /\ (s \in Barriers \/ phase' = s)
  \/ /\ queue'[s] = queue[s] /\ worker'[s].pc = "commit" /\ worker[s].pc = "body" /\ worker'[s].v = verdict
     /\ verdict \in Verdicts /\ UNCHANGED turnVars
     /\ \/ s = "resolving" /\ RequiresRoll[verdict] /\ roll = None
        \/ s = "applying" /\ "batch" \notin facts /\ (RequiresRoll[verdict] = (roll # None))
  \/ queue'[s] = queue[s] /\ worker'[s].pc = "fail" /\ worker[s].pc = "body" /\ UNCHANGED turnVars

(* What a consumer's step does to the queues and to the consumers.         *)
LEMMA StageQueue ==
  ASSUME LoopTyped, NEW s \in Subjects, StageStep(s) \/ StageFails(s)
  PROVE  QueuesTyped' /\ Others(s) /\ Placed(s) /\ UNCHANGED boot
<1> USE DEF LoopTyped
<1>0. UNCHANGED boot
  BY DEF StageStep, Deliver, EnterPhase, Spawn, RecordFailure, ReadVerdict, RecordRoll, PlanBatch, CommitBatch,
     RunCompanion, RunKnowledge, RunAccusation, RunCaseProgress, StageFails, bootVars
<1> SUFFICES QueuesTyped' /\ Others(s) /\ Placed(s)
  BY <1>0
<1>b. worker[s].pc # "idle" => queue[s] > 0 /\ boot = "up"
  BY DEF TypeOK
<1>t. phase \in Phases /\ verdict \in Verdicts \cup {None} /\ None \in Verdicts \cup {None}
  BY DEF TypeOK
<1>s. ASSUME worker[s].pc # "idle" \/ queue[s] > 0, Ack(s) \/ NakDelivery(s)
      PROVE  QueuesTyped' /\ Others(s) /\ Placed(s)
  BY <1>0, <1>s, SettleEffect DEF Settles, Placed
<1>m. ASSUME boot = "up", queue[s] > 0, NEW pc \in Pcs, NEW v \in Verdicts \cup {None}, Goto(s, pc, v)
      PROVE  QueuesTyped' /\ Others(s) /\ queue'[s] = queue[s] /\ worker'[s].pc = pc /\ worker'[s].v = v
  BY <1>0, <1>m, MoveEffect DEF Moves
<1>f. ASSUME worker[s].pc = "body", FailTurn(s), UNCHANGED turnVars
      PROVE  QueuesTyped' /\ Others(s) /\ Placed(s)
  <2>1. CASE Ack(s)
    BY <1>f, <1>s, <2>1
  <2>2. CASE Goto(s, "fail", None)
    BY <1>f, <1>b, <1>m, <1>t, <2>2 DEF Placed, Pcs
  <2> QED
    BY <1>f, <2>1, <2>2 DEF FailTurn
<1>1. CASE Deliver(s)
  <2>0. boot = "up" /\ queue[s] > 0 /\ worker[s].pc = "idle" /\ UNCHANGED turnVars /\ UNCHANGED phase
    BY <1>1 DEF Deliver, turnVars
  <2>1. CASE s \in Barriers
    <3>1. Goto(s, "body", None)
      BY <1>1, <2>1 DEF Deliver
    <3> QED
      BY <1>m, <1>t, <2>0, <2>1, <3>1 DEF Placed, Pcs
  <2>2. CASE s \in StagePhases
    <3>0. s \notin Barriers
      BY <2>2, SubjectNames
    <3>1. CASE Classify(phase, s) = "advanced" /\ Goto(s, "enter", None)
      <4>1. phase \in Predecessors[s] /\ phase \notin TerminalPhases
        BY <1>t, <2>2, <3>1, ClassifyMeans
      <4>2. QueuesTyped' /\ Others(s) /\ queue'[s] = queue[s] /\ worker'[s].pc = "enter"
        BY <1>m, <1>t, <2>0, <3>1 DEF Pcs
      <4> QED
        BY <2>0, <2>2, <4>1, <4>2 DEF Placed
    <3>2. CASE Classify(phase, s) = "resumed" /\ Goto(s, "body", None)
      <4>1. phase' = s
        BY <1>t, <2>0, <2>2, <3>2, ClassifyMeans
      <4>2. QueuesTyped' /\ Others(s) /\ queue'[s] = queue[s] /\ worker'[s].pc = "body"
        BY <1>m, <1>t, <2>0, <3>2 DEF Pcs
      <4> QED
        BY <4>1, <4>2 DEF Placed
    <3>3. CASE Ack(s)
      BY <1>s, <2>0, <3>3
    <3> QED
      BY <1>1, <3>0, <3>1, <3>2, <3>3 DEF Deliver
  <2> QED
    BY <2>1, <2>2, SubjectNames
<1>2. CASE EnterPhase(s)
  <2>1. worker[s].pc = "enter" /\ phase' = s
    BY <1>2 DEF EnterPhase
  <2>2. CASE Ack(s) \/ NakDelivery(s)
    BY <1>s, <2>1, <2>2
  <2>3. CASE Goto(s, "body", None)
    BY <1>b, <1>m, <1>t, <2>1, <2>3 DEF Placed, Pcs
  <2> QED
    BY <1>2, <2>2, <2>3 DEF EnterPhase, Returns
<1>3. CASE Spawn(s) \/ RecordFailure(s) \/ StageFails(s)
  <2>1. worker[s].pc # "idle" /\ (Ack(s) \/ NakDelivery(s))
    BY <1>3 DEF Spawn, RecordFailure, StageFails, Returns
  <2> QED
    BY <1>s, <2>1
<1>4. CASE s = "resolving" /\ ReadVerdict
  <2>1. worker[s].pc = "body" /\ UNCHANGED turnVars
    BY <1>4 DEF ReadVerdict
  <2>2. CASE Ack(s) \/ NakDelivery(s)
    BY <1>s, <2>1, <2>2
  <2>3. CASE verdict # None /\ RequiresRoll[verdict] /\ roll = None /\ Goto(s, "commit", verdict)
    <3>1. verdict \in Verdicts
      BY <1>t, <2>3
    <3>2. QueuesTyped' /\ Others(s) /\ queue'[s] = queue[s] /\ worker'[s].pc = "commit" /\ worker'[s].v = verdict
      BY <1>b, <1>m, <1>t, <2>1, <2>3 DEF Pcs
    <3> QED
      BY <1>4, <2>1, <2>3, <3>1, <3>2 DEF Placed
  <2> QED
    BY <1>4, <2>2, <2>3 DEF ReadVerdict
<1>5. CASE (s = "resolving" /\ RecordRoll) \/ (s = "applying" /\ CommitBatch) \/ (s = "companion" /\ RunCompanion)
  <2>1. worker[s].pc # "idle" /\ (Ack(s) \/ NakDelivery(s))
    BY <1>5 DEF RecordRoll, CommitBatch, RunCompanion, Returns
  <2> QED
    BY <1>s, <2>1
<1>6. CASE s = "applying" /\ PlanBatch
  <2>1. worker[s].pc = "body" /\ UNCHANGED turnVars
    BY <1>6 DEF PlanBatch
  <2>2. CASE Ack(s) \/ NakDelivery(s)
    BY <1>s, <2>1, <2>2
  <2>3. CASE verdict # None /\ (RequiresRoll[verdict] = (roll # None)) /\ "batch" \notin facts /\ Goto(s, "commit", verdict)
    <3>1. verdict \in Verdicts
      BY <1>t, <2>3
    <3>2. QueuesTyped' /\ Others(s) /\ queue'[s] = queue[s] /\ worker'[s].pc = "commit" /\ worker'[s].v = verdict
      BY <1>b, <1>m, <1>t, <2>1, <2>3 DEF Pcs
    <3> QED
      BY <1>6, <2>1, <2>3, <3>1, <3>2 DEF Placed
  <2>4. CASE FailTurn(s)
    BY <1>f, <2>1, <2>4
  <2> QED
    BY <1>6, <2>2, <2>3, <2>4 DEF PlanBatch
<1>7. CASE (s = "knowledge" /\ RunKnowledge) \/ (s = "accusation" /\ RunAccusation) \/ (s = "case-progress" /\ RunCaseProgress)
  <2>1. worker[s].pc = "body"
    BY <1>7 DEF RunKnowledge, RunAccusation, RunCaseProgress
  <2>2. CASE Ack(s) \/ NakDelivery(s)
    BY <1>s, <2>1, <2>2
  <2>3. CASE FailTurn(s) /\ UNCHANGED facts
    <3>1. UNCHANGED turnVars
      BY <1>7, <2>3 DEF RunKnowledge, RunAccusation, RunCaseProgress, turnVars
    <3> QED
      BY <1>f, <2>1, <2>3, <3>1
  <2> QED
    BY <1>7, <2>2, <2>3 DEF RunKnowledge, RunAccusation, RunCaseProgress, LandFact, LandNothing, Returns
<1> QED
  BY <1>0, <1>1, <1>2, <1>3, <1>4, <1>5, <1>6, <1>7 DEF StageStep

-----------------------------------------------------------------------------
(* The types.                                                              *)

(* The turn entity, the tasks, and the rest, apart from the queues.        *)
TurnTyped ==
  /\ phase \in Phases
  /\ facts \subseteq Facts
  /\ verdict \in Verdicts \cup {None} /\ roll \in Verdicts \cup {None} /\ batch \in Verdicts \cup {None}
  /\ said \in Voices \cup {None}
  /\ outcome \in {"decision", "exhausted", "direct", None}
  /\ attempts \in Attempts

TasksTyped ==
  /\ task \in [TaskIds -> TaskStates]
  /\ \A k \in TaskIds : task[k].st = "none" => task[k].n = 0
  /\ \A k \in TaskIds : task[k].st = "queued" => task[k].n < MaxDeliver

WorkersShaped ==
  /\ \A s \in Barriers : worker[s].pc # "enter"
  /\ \A s \in {"resolving", "applying"} : worker[s].pc = "commit" => worker[s].v # None

RestTyped ==
  /\ matched \subseteq Rules
  /\ dirty \in BOOLEAN
  /\ failures \subseteq Spawning \X {"cap", "loop"}
  /\ watcher \in (Spawning \X {"cap", "loop"}) \cup {None}
  /\ boot \in {"down", "rules", "pass", "decide", "republish", "abandon", "catchup", "up"}
  /\ snap \in {"unread", "queued", "empty"}
  /\ faults \in 0 .. MaxFaults

LEMMA TypedIsParts == LoopTyped <=> TurnTyped /\ QueuesTyped /\ TasksTyped /\ WorkersShaped /\ RestTyped
<1>1. {verdict, roll, batch} \subseteq Verdicts \cup {None} <=>
      verdict \in Verdicts \cup {None} /\ roll \in Verdicts \cup {None} /\ batch \in Verdicts \cup {None}
  OBVIOUS
<1> QED
  BY <1>1, Zenon DEF LoopTyped, TypeOK, Shapes, TurnTyped, QueuesTyped, TasksTyped, WorkersShaped, RestTyped,
     TaskStates, WorkerStates, Pcs, Rules

LEMMA TurnUnchanged == TurnTyped /\ UNCHANGED turnVars => TurnTyped'
BY DEF TurnTyped, turnVars, spoken

LEMMA TurnStepTyped ==
  ASSUME LoopTyped, Next
  PROVE  TurnTyped'
<1>0. TurnTyped /\ QueuesTyped /\ WorkersShaped /\ TypeOK
  BY TypedIsParts DEF LoopTyped
<1>1. ASSUME NEW s \in Subjects, StageStep(s) \/ StageFails(s)
      PROVE  TurnTyped'
  <2>1. CASE Deliver(s) \/ StageFails(s)
    BY <1>0, <2>1, TurnUnchanged DEF Deliver, StageFails
  <2>2. CASE EnterPhase(s)
    <3>1. s \in Phases
      BY <1>0, <2>2, SubjectNames DEF EnterPhase, WorkersShaped
    <3> QED
      BY <1>0, <2>2, <3>1 DEF EnterPhase, TurnTyped, spoken
  <2>3. CASE Spawn(s)
    BY <1>0, <2>3 DEF Spawn, TurnTyped, spoken, Facts
  <2>4. CASE RecordFailure(s)
    BY <1>0, <2>4 DEF RecordFailure, TurnTyped, spoken, Phases
  <2>5. CASE ReadVerdict \/ PlanBatch
    BY <1>0, <2>5, TurnUnchanged DEF ReadVerdict, PlanBatch
  <2>6. CASE RecordRoll
    <3>1. worker["resolving"].v \in Verdicts \cup {None}
      BY <1>0, TypeParts DEF Subjects, StagePhases
    <3> QED
      BY <1>0, <2>6, <3>1 DEF RecordRoll, TurnTyped, spoken
  <2>7. CASE CommitBatch
    <3>1. worker["applying"].v \in Verdicts \cup {None}
      BY <1>0, TypeParts DEF Subjects, StagePhases
    <3> QED
      BY <1>0, <2>7, <3>1 DEF CommitBatch, TurnTyped, spoken, Facts
  <2>8. CASE RunCompanion
    BY <1>0, <2>8 DEF RunCompanion, TurnTyped, Facts
  <2>9. CASE RunKnowledge \/ RunAccusation \/ RunCaseProgress
    BY <1>0, <2>9 DEF RunKnowledge, RunAccusation, RunCaseProgress, LandFact, LandNothing, TurnTyped, spoken,
       Facts, Barriers
  <2> QED
    BY <1>1, <2>1, <2>2, <2>3, <2>4, <2>5, <2>6, <2>7, <2>8, <2>9 DEF StageStep
<1>2. ASSUME NEW k \in TaskIds, TaskStep(k) \/ RedeliverTask(k)
      PROVE  TurnTyped'
  <2>1. CASE RunTask(k) \/ FinishTask(k) \/ FailTask(k) \/ RedeliverTask(k)
    BY <1>0, <2>1, TurnUnchanged DEF RunTask, FinishTask, FailTask, RedeliverTask
  <2>2. CASE CommitVerdict(k)
    BY <1>0, <2>2 DEF CommitVerdict, TurnTyped, spoken
  <2>3. CASE CommitDecision(k) \/ CommitNarration(k)
    BY <1>0, <2>3 DEF CommitDecision, CommitNarration, CommitReference, TurnTyped, spoken, Facts
  <2>4. CASE ClaimDecision(k)
    BY <1>0, <2>4 DEF ClaimDecision, TurnTyped
  <2>5. CASE CommitCompanion(k)
    BY <1>0, <2>5 DEF CommitCompanion, TurnTyped, Facts
  <2> QED
    BY <1>2, <2>1, <2>2, <2>3, <2>4, <2>5 DEF TaskStep
<1>3. CASE WatcherStep
  <2>1. CASE RecordLoopFailure
    BY <1>0, <2>1 DEF RecordLoopFailure, TurnTyped, spoken, Phases
  <2>2. ASSUME NEW e \in failures, HandleFailure(e)
        PROVE  TurnTyped'
    BY <1>0, <2>2, TurnUnchanged DEF HandleFailure
  <2>3. ASSUME NEW e \in failures, ExhaustCompanion(e)
        PROVE  TurnTyped'
    BY <1>0, <2>3 DEF ExhaustCompanion, TurnTyped, Facts, Voices
  <2> QED
    BY <1>3, <2>1, <2>2, <2>3 DEF WatcherStep
<1>4. CASE EvaluateRules \/ Crash \/ Restart
  BY <1>0, <1>4, TurnUnchanged DEF EvaluateRules, Crash, Restart, Down
<1>5. CASE BootStep
  <2>1. CASE StartRules \/ ReadStageQueues \/ ReadTaskQueue \/ RepublishTrigger \/ StartStages
    BY <1>0, <2>1, TurnUnchanged DEF StartRules, ReadStageQueues, ReadTaskQueue, RepublishTrigger, StartStages
  <2>2. CASE ReconcileTurn
    <3>1. attempts' \in Attempts
      <4>1. attempts' = attempts \/ (~(attempts >= MaxAttempts) /\ attempts' = attempts + 1)
        BY <2>2 DEF ReconcileTurn
      <4>2. attempts \in 0 .. MaxAttempts
        BY <1>0 DEF TurnTyped, Attempts
      <4> QED
        BY <4>1, <4>2, BoundsAreNat DEF Attempts
    <3> QED
      BY <1>0, <2>2, <3>1 DEF ReconcileTurn, TurnTyped, spoken
  <2>3. CASE Abandon
    BY <1>0, <2>3 DEF Abandon, TurnTyped, spoken, Phases
  <2> QED
    BY <1>5, <2>1, <2>2, <2>3 DEF BootStep
<1> QED
  BY <1>1, <1>2, <1>3, <1>4, <1>5 DEF Next

LEMMA FaultTyped == RestTyped /\ (Fault \/ NoFault) => faults' \in 0 .. MaxFaults
<1> SUFFICES ASSUME RestTyped, Fault \/ NoFault
             PROVE  faults' \in 0 .. MaxFaults
  OBVIOUS
<1>1. faults \in 0 .. MaxFaults /\ (faults' = faults \/ (faults < MaxFaults /\ faults' = faults + 1))
  BY DEF RestTyped, Fault, NoFault
<1> QED
  BY <1>1, BoundsAreNat

(* The tasks move one at a time, or all at once when the process dies.     *)
LEMMA TasksStepTyped ==
  ASSUME LoopTyped, Next
  PROVE  TasksTyped'
<1>0. TurnTyped /\ TasksTyped
  BY TypedIsParts
<1>u. ASSUME UNCHANGED task
      PROVE  TasksTyped'
  BY <1>0, <1>u DEF TasksTyped
<1>p. ASSUME NEW s \in Spawning, PublishTask(s)
      PROVE  TasksTyped'
  BY <1>0, <1>p, PublishTaskEffect, BoundsAreNat DEF TasksTyped, TurnTyped
<1>s. ASSUME NEW k \in TaskIds, NEW st \in {"running", "claimed", "committed", "done"}, SetTask(k, st)
      PROVE  TasksTyped'
  BY <1>0, <1>s, SetTaskEffect DEF TasksTyped
<1>1. ASSUME NEW s \in Subjects, StageStep(s) \/ StageFails(s)
      PROVE  TasksTyped'
  <2>1. CASE Spawn(s)
    BY <1>u, <1>p, <2>1 DEF Spawn
  <2>2. CASE RunCompanion
    <3>1. "companion" \in Spawning
      BY DEF Spawning
    <3> QED
      BY <1>u, <1>p, <2>2, <3>1 DEF RunCompanion
  <2>3. CASE ~Spawn(s) /\ ~RunCompanion
    BY <1>1, <1>u, <2>3 DEF StageStep, Deliver, EnterPhase, RecordFailure, ReadVerdict, RecordRoll, PlanBatch,
       CommitBatch, RunKnowledge, RunAccusation, RunCaseProgress, StageFails, agentVars
  <2> QED
    BY <2>1, <2>2, <2>3
<1>2. ASSUME NEW k \in TaskIds, TaskStep(k) \/ RedeliverTask(k)
      PROVE  TasksTyped'
  <2>1. CASE RunTask(k)
    BY <1>0, <2>1, RunTaskEffect DEF RunTask, TasksTyped
  <2>2. CASE RedeliverTask(k)
    <3>1. task' = [task EXCEPT ![k] = Redelivered(task[k])] /\ task[k] \in TaskStates
      BY <1>0, <2>2 DEF RedeliverTask, TasksTyped
    <3>2. /\ task' \in [TaskIds -> TaskStates] /\ task'[k] = Redelivered(task[k])
          /\ \A o \in TaskIds : o # k => task'[o] = task[o]
      BY <1>0, <3>1, RedeliverEffect DEF TasksTyped
    <3> QED
      BY <1>0, <3>1, <3>2, RedeliverEffect DEF TasksTyped
  <2>3. CASE ~RunTask(k) /\ ~RedeliverTask(k)
    BY <1>2, <1>s, <2>3 DEF TaskStep, CommitVerdict, CommitDecision, CommitNarration, CommitReference, ClaimDecision,
       CommitCompanion, FinishTask, FailTask
  <2> QED
    BY <2>1, <2>2, <2>3
<1>3. CASE WatcherStep
  BY <1>3, <1>u DEF WatcherStep, RecordLoopFailure, HandleFailure, ExhaustCompanion
<1>4. CASE Crash \/ Restart
  <2>1. task' = [k \in TaskIds |-> Redelivered(task[k])]
    BY <1>4 DEF Crash, Restart, Down
  <2>2. \A k \in TaskIds : task'[k] = Redelivered(task[k]) /\ task[k] \in TaskStates
    BY <1>0, <2>1 DEF TasksTyped
  <2>3. task' \in [TaskIds -> TaskStates]
    BY <2>1, <2>2, RedeliverEffect
  <2> QED
    BY <1>0, <2>2, <2>3, RedeliverEffect DEF TasksTyped
<1>5. CASE EvaluateRules \/ BootStep
  BY <1>5, <1>u DEF EvaluateRules, BootStep, StartRules, ReadStageQueues, ReadTaskQueue, ReconcileTurn,
     RepublishTrigger, Abandon, StartStages, agentVars
<1> QED
  BY <1>1, <1>2, <1>3, <1>4, <1>5 DEF Next

LEMMA WorkersUnchanged ==
  ASSUME QueuesTyped, WorkersShaped, UNCHANGED <<queue, worker>>, boot' = boot \/ boot # "up"
  PROVE  QueuesTyped' /\ WorkersShaped'
BY DEF QueuesTyped, WorkersShaped

LEMMA WorkersStepTyped ==
  ASSUME LoopTyped, Next
  PROVE  QueuesTyped' /\ WorkersShaped'
<1>0. TypeOK /\ QueuesTyped /\ WorkersShaped
  BY TypedIsParts DEF LoopTyped
<1>1. ASSUME NEW s \in Subjects, StageStep(s) \/ StageFails(s)
      PROVE  QueuesTyped' /\ WorkersShaped'
  <2>1. QueuesTyped' /\ Others(s) /\ Placed(s)
    BY <1>1, StageQueue
  <2>2. \A o \in Barriers : worker'[o].pc # "enter"
    BY <1>0, <2>1, SubjectNames, IdleTyped DEF Others, Placed, WorkersShaped
  <2>3. {"resolving", "applying"} \subseteq Subjects
    BY DEF Subjects, StagePhases
  <2>4. \A o \in {"resolving", "applying"} : worker'[o].pc = "commit" => worker'[o].v # None
    BY <1>0, <2>1, <2>3, IdleTyped, LoopAssumption DEF Others, Placed, WorkersShaped
  <2> QED
    BY <2>1, <2>2, <2>4 DEF WorkersShaped
<1>2. ASSUME NEW k \in TaskIds, TaskStep(k) \/ RedeliverTask(k)
      PROVE  QueuesTyped' /\ WorkersShaped'
  <2>1. UNCHANGED <<queue, worker, boot>>
    BY <1>2 DEF TaskStep, RunTask, CommitVerdict, CommitDecision, CommitNarration, CommitReference, ClaimDecision,
       CommitCompanion, FinishTask, FailTask, RedeliverTask, bootVars
  <2> QED
    BY <1>0, <2>1, WorkersUnchanged
<1>3. CASE WatcherStep
  <2>1. UNCHANGED <<queue, worker, boot>>
    BY <1>3 DEF WatcherStep, RecordLoopFailure, HandleFailure, ExhaustCompanion, bootVars
  <2> QED
    BY <1>0, <2>1, WorkersUnchanged
<1>4. CASE Crash \/ Restart
  <2>1. queue' = queue /\ worker' = [s \in Subjects |-> Idle]
    BY <1>4 DEF Crash, Restart, Down
  <2>2. \A s \in Subjects : worker'[s] = Idle
    BY <2>1
  <2> QED
    BY <1>0, <2>1, <2>2, IdleTyped, SubjectNames DEF QueuesTyped, WorkersShaped, Subjects, StagePhases
<1>5. CASE EvaluateRules
  <2>1. UNCHANGED worker /\ boot' = boot /\ \E S : Enqueue(S)
    BY <1>5 DEF EvaluateRules, bootVars
  <2> QED
    BY <1>0, <2>1, EnqueueEffect DEF WorkersShaped
<1>6. CASE BootStep
  <2>1. UNCHANGED worker /\ boot # "up"
    BY <1>6 DEF BootStep, StartRules, ReadStageQueues, ReadTaskQueue, ReconcileTurn, RepublishTrigger, Abandon, StartStages
  <2>2. UNCHANGED queue \/ \E S : Enqueue(S)
    BY <1>6 DEF BootStep, StartRules, ReadStageQueues, ReadTaskQueue, ReconcileTurn, RepublishTrigger, Abandon, StartStages
  <2>3. CASE UNCHANGED queue
    BY <1>0, <2>1, <2>3, WorkersUnchanged
  <2>4. CASE \E S : Enqueue(S)
    BY <1>0, <2>1, <2>4, EnqueueEffect DEF WorkersShaped
  <2> QED
    BY <2>2, <2>3, <2>4
<1> QED
  BY <1>1, <1>2, <1>3, <1>4, <1>5, <1>6 DEF Next

LEMMA RestStepTyped ==
  ASSUME LoopTyped, Next
  PROVE  RestTyped'
<1>0. RestTyped
  BY TypedIsParts
<1>f. ASSUME Fault \/ NoFault
      PROVE  faults' \in 0 .. MaxFaults
  BY <1>0, <1>f, FaultTyped
<1>1. ASSUME NEW s \in Subjects, StageStep(s) \/ StageFails(s)
      PROVE  RestTyped'
  <2>1. UNCHANGED <<matched, failures, watcher, boot, snap>> /\ dirty' \in {dirty, TRUE} /\ (Fault \/ NoFault)
    BY <1>1 DEF StageStep, Deliver, EnterPhase, Spawn, RecordFailure, ReadVerdict, RecordRoll, PlanBatch, CommitBatch,
       RunCompanion, RunKnowledge, RunAccusation, RunCaseProgress, StageFails, bootVars, agentVars, ruleVars, Returns,
       LandFact, LandNothing, NoFault
  <2> QED
    BY <1>0, <1>f, <2>1 DEF RestTyped
<1>2. ASSUME NEW k \in TaskIds, TaskStep(k) \/ RedeliverTask(k)
      PROVE  RestTyped'
  <2>1. UNCHANGED <<matched, watcher, boot, snap>> /\ dirty' \in {dirty, TRUE} /\ (Fault \/ NoFault)
    BY <1>2 DEF TaskStep, RunTask, CommitVerdict, CommitDecision, CommitNarration, CommitReference, ClaimDecision,
       CommitCompanion, FinishTask, FailTask, RedeliverTask, bootVars, ruleVars, NoFault
  <2>2. failures' = failures \/ \E kind \in {"cap", "loop"} : failures' = failures \cup {<<k[1], kind>>}
    BY <1>2 DEF TaskStep, RunTask, CommitVerdict, CommitDecision, CommitNarration, CommitReference, ClaimDecision,
       CommitCompanion, FinishTask, FailTask, RedeliverTask
  <2>3. k[1] \in Spawning
    BY DEF TaskIds
  <2>4. failures' \subseteq Spawning \X {"cap", "loop"}
    BY <1>0, <2>2, <2>3 DEF RestTyped
  <2> QED
    BY <1>0, <1>f, <2>1, <2>4 DEF RestTyped
<1>3. CASE WatcherStep
  <2>1. UNCHANGED <<matched, boot, snap>> /\ dirty' \in {dirty, TRUE} /\ (Fault \/ NoFault)
        /\ failures' \subseteq failures /\ watcher' \in failures \cup {watcher, None}
    BY <1>3 DEF WatcherStep, RecordLoopFailure, HandleFailure, ExhaustCompanion, bootVars, ruleVars, NoFault
  <2> QED
    BY <1>0, <1>f, <2>1 DEF RestTyped
<1>4. CASE Crash \/ Restart
  <2>1. UNCHANGED <<matched, dirty, failures>> /\ watcher' = None /\ boot' = "down" /\ snap' = "unread" /\ (Fault \/ NoFault)
    BY <1>4 DEF Crash, Restart, Down, ruleVars
  <2> QED
    BY <1>0, <1>f, <2>1 DEF RestTyped
<1>5. CASE EvaluateRules
  <2>1. /\ matched' \subseteq Rules /\ dirty' = FALSE /\ UNCHANGED <<failures, watcher, boot, snap>>
        /\ (Fault \/ NoFault)
    BY <1>5 DEF EvaluateRules, agentVars, bootVars
  <2> QED
    BY <1>0, <1>f, <2>1 DEF RestTyped
<1>6. CASE BootStep
  <2>1. matched' = matched \/ matched' = {r \in Rules : Matches(r)}
    BY <1>6 DEF BootStep, StartRules, ReadStageQueues, ReadTaskQueue, ReconcileTurn, RepublishTrigger, Abandon,
       StartStages, ruleVars
  <2>2. dirty' \in {dirty, TRUE, FALSE} /\ UNCHANGED <<failures, watcher>>
    BY <1>6 DEF BootStep, StartRules, ReadStageQueues, ReadTaskQueue, ReconcileTurn, RepublishTrigger, Abandon,
       StartStages, ruleVars, agentVars
  <2>3. Fault \/ NoFault
    BY <1>6 DEF BootStep, StartRules, ReadStageQueues, ReadTaskQueue, ReconcileTurn, RepublishTrigger, Abandon,
       StartStages, NoFault
  <2>4. boot' \in {"rules", "pass", "decide", "republish", "abandon", "catchup", "up"}
    BY <1>6 DEF BootStep, StartRules, ReadStageQueues, ReadTaskQueue, ReconcileTurn, RepublishTrigger, Abandon, StartStages
  <2>5. snap' \in {snap, "unread", "queued", "empty"}
    BY <1>6 DEF BootStep, StartRules, ReadStageQueues, ReadTaskQueue, ReconcileTurn, RepublishTrigger, Abandon, StartStages
  <2>6. faults' \in 0 .. MaxFaults
    BY <1>f, <2>3
  <2> QED
    BY <1>0, <2>1, <2>2, <2>4, <2>5, <2>6 DEF RestTyped
<1> QED
  BY <1>1, <1>2, <1>3, <1>4, <1>5, <1>6 DEF Next

LEMMA LoopInitTyped == Init => LoopTyped
<1> SUFFICES ASSUME Init
             PROVE  LoopTyped
  OBVIOUS
<1>1. TurnTyped
  BY BoundsAreNat DEF Init, TurnTyped, Phases, Attempts
<1>2. QueuesTyped /\ WorkersShaped
  <2>1. \A s \in Subjects : queue[s] = 0 /\ worker[s] = Idle
    BY DEF Init
  <2>2. queue \in [Subjects -> 0 .. MaxQueued]
    BY BoundsAreNat DEF Init
  <2>3. worker \in [Subjects -> WorkerStates]
    BY IdleTyped DEF Init
  <2> QED
    BY <2>1, <2>2, <2>3, IdleTyped, SubjectNames DEF QueuesTyped, WorkersShaped, Subjects, StagePhases
<1>3. TasksTyped
  <2>1. Unpublished \in TaskStates /\ Unpublished.st = "none" /\ Unpublished.n = 0
    BY BoundsAreNat DEF Unpublished, TaskStates
  <2>2. task \in [TaskIds -> TaskStates] /\ \A k \in TaskIds : task[k] = Unpublished
    BY <2>1 DEF Init
  <2> QED
    BY <2>1, <2>2 DEF TasksTyped
<1>4. RestTyped
  BY BoundsAreNat DEF Init, RestTyped
<1> QED
  BY <1>1, <1>2, <1>3, <1>4, TypedIsParts

LEMMA LoopStepTyped == LoopTyped /\ [Next]_vars => LoopTyped'
<1>1. ASSUME LoopTyped, Next
      PROVE  LoopTyped'
  <2>1. TurnTyped' /\ QueuesTyped' /\ TasksTyped' /\ WorkersShaped' /\ RestTyped'
    BY <1>1, TurnStepTyped, TasksStepTyped, WorkersStepTyped, RestStepTyped
  <2> QED
    BY <2>1, TypedIsParts, PTL
<1>2. ASSUME LoopTyped, UNCHANGED vars
      PROVE  LoopTyped'
  <2>1. TurnTyped /\ QueuesTyped /\ TasksTyped /\ WorkersShaped /\ RestTyped
    BY <1>2, TypedIsParts
  <2>2. TurnTyped'
    BY <1>2, <2>1, TurnUnchanged DEF vars
  <2>3. UNCHANGED <<queue, worker, boot, task, matched, dirty, failures, watcher, snap, faults>>
    BY <1>2 DEF vars, ruleVars, agentVars, bootVars
  <2>4. QueuesTyped' /\ WorkersShaped' /\ TasksTyped' /\ RestTyped'
    BY <2>1, <2>3, WorkersUnchanged DEF TasksTyped, RestTyped
  <2> QED
    BY <2>2, <2>4, TypedIsParts, PTL
<1> QED
  BY <1>1, <1>2

(* The loop is type correct, and a consumer works only on a trigger it has *)
(* not acknowledged, while the process is up.                              *)
THEOREM LoopTypeCorrect == Spec => []TypeOK
<1>1. LoopTyped => TypeOK
  BY DEF LoopTyped
<1> QED
  BY <1>1, LoopInitTyped, LoopStepTyped, PTL DEF Spec

-----------------------------------------------------------------------------
(* The record.                                                             *)

(* What a step does to the turn entity: the record grows, and the phase is *)
(* written by a consumer that entered on a trigger, or by a failure.       *)
EntersPhase(s) == Entering(s) /\ phase' = s /\ worker'[s].pc # "enter" /\ Others(s)

LEMMA TurnMoves ==
  ASSUME LoopTyped, Next
  PROVE  /\ facts \subseteq facts'
         /\ verdict' = verdict \/ verdict' \in Verdicts
         /\ batch' = batch \/ (batch' \in Verdicts /\ worker["applying"].pc = "commit" /\ batch' = worker["applying"].v)
         /\ roll' = roll \/ (roll' \in Verdicts /\ worker["resolving"].pc = "commit" /\ roll' = worker["resolving"].v)
         /\ "batch" \in facts' => "batch" \in facts \/ batch' \in Verdicts
         /\ phase' # phase => UNCHANGED <<facts, verdict, roll, batch>>
         /\ phase' = phase \/ phase' = "failed" \/ \E s \in StagePhases : EntersPhase(s)
<1> DEFINE Fine == /\ facts \subseteq facts'
                   /\ verdict' = verdict \/ verdict' \in Verdicts
                   /\ batch' = batch \/ (batch' \in Verdicts /\ worker["applying"].pc = "commit" /\ batch' = worker["applying"].v)
                   /\ roll' = roll \/ (roll' \in Verdicts /\ worker["resolving"].pc = "commit" /\ roll' = worker["resolving"].v)
                   /\ "batch" \in facts' => "batch" \in facts \/ batch' \in Verdicts
                   /\ phase' # phase => UNCHANGED <<facts, verdict, roll, batch>>
                   /\ phase' = phase \/ phase' = "failed" \/ \E s \in StagePhases : EntersPhase(s)
<1>0. WorkersShaped /\ TypeOK
  BY TypedIsParts DEF LoopTyped
<1>u. ASSUME UNCHANGED turnVars
      PROVE  Fine
  BY <1>u DEF turnVars
<1>1. ASSUME NEW s \in Subjects, StageStep(s) \/ StageFails(s)
      PROVE  Fine
  <2>1. CASE Deliver(s) \/ StageFails(s) \/ ReadVerdict \/ PlanBatch
    BY <1>u, <2>1 DEF Deliver, StageFails, ReadVerdict, PlanBatch
  <2>2. CASE EnterPhase(s)
    <3>1. s \in StagePhases /\ Entering(s) /\ phase' = s /\ UNCHANGED <<facts, verdict, roll, batch>>
      BY <1>0, <2>2, SubjectNames DEF EnterPhase, WorkersShaped, Entering
    <3>2. Others(s) /\ worker'[s].pc # "enter"
      BY <1>1, <3>1, StageQueue, IdleTyped DEF Placed, Entering
    <3> QED
      BY <3>1, <3>2 DEF EntersPhase
  <2>3. CASE Spawn(s)
    BY <2>3 DEF Spawn
  <2>4. CASE RecordFailure(s)
    BY <2>4 DEF RecordFailure
  <2>5. CASE RecordRoll
    <3>1. worker["resolving"].v \in Verdicts
      BY <1>0, <2>5, TypeParts DEF RecordRoll, WorkersShaped, Subjects, StagePhases
    <3> QED
      BY <2>5, <3>1 DEF RecordRoll
  <2>6. CASE CommitBatch
    <3>1. worker["applying"].v \in Verdicts
      BY <1>0, <2>6, TypeParts DEF CommitBatch, WorkersShaped, Subjects, StagePhases
    <3> QED
      BY <2>6, <3>1 DEF CommitBatch
  <2>7. CASE RunCompanion
    BY <2>7 DEF RunCompanion
  <2>8. CASE RunKnowledge \/ RunAccusation \/ RunCaseProgress
    BY <2>8 DEF RunKnowledge, RunAccusation, RunCaseProgress, LandFact, LandNothing
  <2> QED
    BY <1>1, <2>1, <2>2, <2>3, <2>4, <2>5, <2>6, <2>7, <2>8 DEF StageStep
<1>2. ASSUME NEW k \in TaskIds, TaskStep(k) \/ RedeliverTask(k)
      PROVE  Fine
  BY <1>2, <1>u DEF TaskStep, RunTask, CommitVerdict, CommitDecision, CommitNarration, CommitReference, ClaimDecision,
     CommitCompanion, FinishTask, FailTask, RedeliverTask
<1>3. CASE WatcherStep
  BY <1>3, <1>u DEF WatcherStep, RecordLoopFailure, HandleFailure, ExhaustCompanion
<1>4. CASE EvaluateRules \/ Crash \/ Restart
  BY <1>4, <1>u DEF EvaluateRules, Crash, Restart, Down
<1>5. CASE BootStep
  BY <1>5, <1>u DEF BootStep, StartRules, ReadStageQueues, ReadTaskQueue, ReconcileTurn, RepublishTrigger, Abandon, StartStages
<1> QED
  BY <1>1, <1>2, <1>3, <1>4, <1>5 DEF Next

(* Where a trigger comes from: a rule whose conditions hold, or the pass,  *)
(* which repeats the trigger of the phase the turn is in.                  *)
Republishes(s) == boot = "republish" /\ s = (IF phase = "accepted" THEN "interpreting" ELSE phase)

LEMMA TriggerOrigin ==
  ASSUME LoopTyped, Next, NEW s \in Subjects, queue'[s] > 0, ~(queue[s] > 0)
  PROVE  /\ UNCHANGED turnVars /\ UNCHANGED worker
         /\ \/ \E r \in Rules : Matches(r) /\ s \in Publishes[r]
            \/ Republishes(s)
<1>0. TypeOK /\ queue[s] = 0
  BY TypeParts DEF LoopTyped
<1>1. ASSUME NEW o \in Subjects, StageStep(o) \/ StageFails(o)
      PROVE  FALSE
  <2>1. queue'[s] \in {queue[s], queue[s] - 1}
    BY <1>1, StageQueue DEF Others, Placed
  <2> QED
    BY <1>0, <2>1
<1>2. ASSUME UNCHANGED queue
      PROVE  FALSE
  BY <1>2
<1>3. CASE EvaluateRules
  <2>1. \E S : S \subseteq UNION {Publishes[r] : r \in matched' \ matched} /\ Enqueue(S)
    BY <1>3 DEF EvaluateRules
  <2>2. UNCHANGED turnVars /\ UNCHANGED worker /\ boot' = boot /\ matched' = {r \in Rules : Matches(r)}
    BY <1>3 DEF EvaluateRules, bootVars
  <2>3. s \in UNION {Publishes[r] : r \in matched' \ matched}
    BY <1>0, <2>1, <2>2, EnqueueEffect
  <2> QED
    BY <2>2, <2>3
<1>4. CASE StartRules
  <2>1. \E S : S \subseteq (IF dirty THEN UNION {Publishes[r] : r \in matched'} ELSE {}) /\ Enqueue(S)
    BY <1>4 DEF StartRules
  <2>2. UNCHANGED turnVars /\ UNCHANGED worker /\ boot # "up" /\ (dirty => matched' = {r \in Rules : Matches(r)})
    BY <1>4 DEF StartRules
  <2>3. s \in (IF dirty THEN UNION {Publishes[r] : r \in matched'} ELSE {})
    BY <1>0, <2>1, <2>2, EnqueueEffect
  <2>4. dirty /\ s \in UNION {Publishes[r] : r \in matched'}
    BY <2>3
  <2> QED
    BY <2>2, <2>4
<1>5. CASE RepublishTrigger
  <2>1. CASE Enqueue({IF phase = "accepted" THEN "interpreting" ELSE phase})
    <3>1. UNCHANGED turnVars /\ UNCHANGED worker /\ boot # "up" /\ boot = "republish"
      BY <1>5 DEF RepublishTrigger
    <3> QED
      BY <1>0, <2>1, <3>1, EnqueueEffect DEF Republishes
  <2> QED
    BY <1>2, <1>5, <2>1 DEF RepublishTrigger
<1>6. CASE \E k \in TaskIds : TaskStep(k) \/ RedeliverTask(k)
  BY <1>2, <1>6 DEF TaskStep, RunTask, CommitVerdict, CommitDecision, CommitNarration, CommitReference, ClaimDecision,
     CommitCompanion, FinishTask, FailTask, RedeliverTask
<1>7. CASE WatcherStep \/ Crash \/ Restart
  BY <1>2, <1>7 DEF WatcherStep, RecordLoopFailure, HandleFailure, ExhaustCompanion, Crash, Restart, Down
<1>8. CASE ReadStageQueues \/ ReadTaskQueue \/ ReconcileTurn \/ Abandon \/ StartStages
  BY <1>2, <1>8 DEF ReadStageQueues, ReadTaskQueue, ReconcileTurn, Abandon, StartStages
<1> QED
  BY <1>1, <1>3, <1>4, <1>5, <1>6, <1>7, <1>8 DEF Next, BootStep

(* A rule publishes for a stage only when the record the stage presupposes *)
(* is there.                                                               *)
LEMMA RulesAreBacked ==
  ASSUME RecordInv, NEW r \in Rules, Matches(r), NEW s \in Publishes[r], s \in StagePhases
  PROVE  Backed(s)
<1>1. CASE r = "accepted"
  BY <1>1 DEF Rules, Publishes, Backed, StagesOwedBy
<1>2. CASE r = "interpreted"
  <2>1. s = "adjudicating" /\ "case-decision" \in facts
    BY <1>2 DEF Rules, Publishes, Matches, StagePhases
  <2> QED
    BY <2>1 DEF Backed, StagesOwedBy
<1>3. CASE r \in {"roll", "no-roll"}
  <2>1. s \in {"resolving", "applying"} /\ phase = "adjudicating" /\ verdict # None
    BY <1>3 DEF Rules, Publishes, Matches
  <2> QED
    BY <2>1 DEF RecordInv, Backed, StagesOwedBy
<1>4. CASE r = "rolled"
  <2>1. s = "applying" /\ phase = "resolving"
    BY <1>4 DEF Rules, Publishes, Matches
  <2> QED
    BY <2>1 DEF RecordInv, Backed, StagesOwedBy
<1>5. CASE r = "progress"
  BY <1>5 DEF Rules, Publishes, StagePhases
<1>6. CASE r = "applied"
  <2>1. s = "companion" /\ phase = "applying" /\ {"batch", "knowledge", "accusation", "case-progress"} \subseteq facts
    BY <1>6 DEF Rules, Publishes, Matches
  <2> QED
    BY <2>1 DEF RecordInv, Backed, StagesOwedBy, Barriers
<1>7. CASE r = "accompanied"
  <2>1. s = "narrating" /\ phase = "companion" /\ "companion" \in facts
    BY <1>7 DEF Rules, Publishes, Matches
  <2> QED
    BY <2>1 DEF RecordInv, Backed, StagesOwedBy
<1>8. CASE r = "narrated"
  <2>1. s = "complete" /\ phase = "narrating" /\ "narration" \in facts
    BY <1>8 DEF Rules, Publishes, Matches
  <2> QED
    BY <2>1 DEF RecordInv, Backed, StagesOwedBy
<1> QED
  BY <1>1, <1>2, <1>3, <1>4, <1>5, <1>6, <1>7, <1>8 DEF Rules

LEMMA RecordStep == LoopTyped /\ RecordInv /\ [Next]_vars => RecordInv'
<1>1. ASSUME LoopTyped, RecordInv, Next
      PROVE  RecordInv'
  <2>1. facts \subseteq facts' /\ (verdict # None => verdict' # None) /\ (batch # None => batch' # None)
    BY <1>1, TurnMoves, LoopAssumption
  <2>2. \A s : Backed(s) => Backed(s)'
    BY <2>1 DEF Backed
  <2>3. "batch" \in facts' => batch' # None
    BY <1>1, TurnMoves, LoopAssumption DEF RecordInv
  <2>4. \A s \in StagePhases : queue[s] > 0 => Backed(s)'
    BY <1>1, <2>2 DEF RecordInv
  <2>5. ASSUME NEW s \in StagePhases, queue'[s] > 0, ~(queue[s] > 0)
        PROVE  Backed(s)'
    <3>0. s \in Subjects
      BY SubjectNames
    <3>1. CASE \E r \in Rules : Matches(r) /\ s \in Publishes[r]
      BY <1>1, <2>2, <3>1, RulesAreBacked
    <3>2. CASE Republishes(s)
      <4>1. Backed(phase) /\ (phase = "accepted" => Backed("interpreting"))
        BY <1>1 DEF RecordInv, Backed, StagesOwedBy
      <4> QED
        BY <2>2, <3>2, <4>1 DEF Republishes
    <3> QED
      BY <1>1, <2>5, <3>0, <3>1, <3>2, TriggerOrigin
  <2>6. Backed(phase)'
    <3>1. CASE phase' = phase
      BY <1>1, <2>2, <3>1 DEF RecordInv
    <3>2. CASE phase' = "failed"
      BY <3>2 DEF Backed, StagesOwedBy
    <3>3. ASSUME NEW s \in StagePhases, EntersPhase(s)
          PROVE  Backed(s)' /\ phase' = s
      <4>1. queue[s] > 0
        BY <1>1, <3>3, SubjectNames DEF LoopTyped, TypeOK, EntersPhase, Entering
      <4> QED
        BY <2>4, <3>3, <4>1 DEF EntersPhase
    <3> QED
      BY <1>1, <3>1, <3>2, <3>3, TurnMoves
  <2> QED
    BY <2>3, <2>4, <2>5, <2>6 DEF RecordInv
<1>2. ASSUME RecordInv, UNCHANGED vars
      PROVE  RecordInv'
  BY <1>2 DEF RecordInv, Backed, vars, turnVars
<1> QED
  BY <1>1, <1>2

(* The turn never runs ahead of its record, whatever is lost, repeated or  *)
(* interrupted.                                                            *)
THEOREM RecordComesFirst == Spec => []RecordPrecedesPhase
<1>1. Init => RecordInv
  BY SubjectNames DEF Init, RecordInv, Backed, StagesOwedBy
<1>2. RecordInv => RecordPrecedesPhase
  BY DEF RecordInv, Backed, RecordPrecedesPhase
<1> QED
  BY <1>1, <1>2, LoopInitTyped, LoopStepTyped, RecordStep, PTL DEF Spec

-----------------------------------------------------------------------------
(* The persona tasks.                                                      *)

(* What a step does to the tasks and to the count of attempts: a task is   *)
(* published under the attempt the turn is on, by a stage that is up, and  *)
(* a new attempt is counted only by a pass that saw nothing queued.        *)
LEMMA TaskMoves ==
  ASSUME LoopTyped, Next
  PROVE  /\ \A k \in Unfinished' : k \in Unfinished \/ (k[2] = attempts /\ boot = "up" /\ boot' = "up")
         /\ \/ attempts' = attempts
            \/ boot = "decide" /\ snap # "queued" /\ UNCHANGED task /\ boot' \in {"catchup", "republish"}
<1> DEFINE Kept == \A k \in Unfinished' : k \in Unfinished \/ (k[2] = attempts /\ boot = "up" /\ boot' = "up")
           Live == {"queued", "running", "claimed", "committed"}
<1>0. TypeOK /\ TurnTyped /\ TasksTyped
  BY TypedIsParts DEF LoopTyped
<1>u. ASSUME UNCHANGED task
      PROVE  Kept
  BY <1>u DEF Unfinished
<1>w. ASSUME NEW k \in TaskIds, k \in Unfinished, \A o \in TaskIds : o # k => task'[o] = task[o]
      PROVE  Kept
  BY <1>w DEF Unfinished
<1>p. ASSUME NEW s \in Spawning, PublishTask(s), worker[s].pc # "idle", UNCHANGED boot
      PROVE  Kept
  <2>1. boot = "up"
    BY <1>0, <1>p, SubjectNames DEF TypeOK
  <2>2. \A k \in TaskIds : task'[k] = task[k] \/ k = <<s, attempts>>
    BY <1>0, <1>p, PublishTaskEffect DEF TasksTyped, TurnTyped
  <2> QED
    BY <1>p, <2>1, <2>2 DEF Unfinished
<1>1. ASSUME NEW s \in Subjects, StageStep(s) \/ StageFails(s)
      PROVE  Kept /\ attempts' = attempts
  <2>0. UNCHANGED boot
    BY <1>1, StageQueue
  <2>1. attempts' = attempts
    BY <1>1 DEF StageStep, Deliver, EnterPhase, Spawn, RecordFailure, ReadVerdict, RecordRoll, PlanBatch,
       CommitBatch, RunCompanion, RunKnowledge, RunAccusation, RunCaseProgress, StageFails, turnVars
  <2>2. CASE Spawn(s)
    BY <1>p, <1>u, <2>0, <2>1, <2>2 DEF Spawn
  <2>3. CASE RunCompanion
    <3>1. "companion" \in Spawning
      BY DEF Spawning
    <3> QED
      BY <1>p, <1>u, <2>0, <2>1, <2>3, <3>1 DEF RunCompanion
  <2>4. CASE ~Spawn(s) /\ ~RunCompanion
    <3>1. UNCHANGED task
      BY <1>1, <2>4 DEF StageStep, Deliver, EnterPhase, RecordFailure, ReadVerdict, RecordRoll, PlanBatch,
         CommitBatch, RunKnowledge, RunAccusation, RunCaseProgress, StageFails, agentVars
    <3> QED
      BY <1>u, <2>1, <3>1
  <2> QED
    BY <2>2, <2>3, <2>4
<1>2. ASSUME NEW k \in TaskIds, TaskStep(k) \/ RedeliverTask(k)
      PROVE  Kept /\ attempts' = attempts
  <2>1. k \in Unfinished /\ attempts' = attempts
    BY <1>2 DEF TaskStep, RunTask, CommitVerdict, CommitDecision, CommitNarration, CommitReference, ClaimDecision,
       CommitCompanion, FinishTask, FailTask, RedeliverTask, turnVars, Unfinished
  <2>2. (\E st \in {"claimed", "committed", "done"} : SetTask(k, st)) \/ RunTask(k) \/ RedeliverTask(k)
    BY <1>2 DEF TaskStep, CommitVerdict, CommitDecision, CommitNarration, CommitReference, ClaimDecision,
       CommitCompanion, FinishTask, FailTask
  <2>3. \A o \in TaskIds : o # k => task'[o] = task[o]
    BY <1>0, <2>2 DEF SetTask, RunTask, RedeliverTask, TasksTyped
  <2> QED
    BY <1>w, <2>1, <2>3
<1>3. CASE WatcherStep
  BY <1>3, <1>u DEF WatcherStep, RecordLoopFailure, HandleFailure, ExhaustCompanion, turnVars
<1>4. CASE Crash \/ Restart
  <2>1. task' = [k \in TaskIds |-> Redelivered(task[k])] /\ attempts' = attempts
    BY <1>4 DEF Crash, Restart, Down, turnVars
  <2>2. \A k \in TaskIds : task'[k] = Redelivered(task[k]) /\ task[k] \in TaskStates
    BY <1>0, <2>1 DEF TasksTyped
  <2>3. \A k \in TaskIds : task'[k].st \in Live => task[k].st \in Live
    BY <2>2, RedeliverEffect
  <2> QED
    BY <2>1, <2>3 DEF Unfinished
<1>5. CASE EvaluateRules \/ (BootStep /\ ~ReconcileTurn)
  BY <1>5, <1>u DEF EvaluateRules, BootStep, StartRules, ReadStageQueues, ReadTaskQueue,
     RepublishTrigger, Abandon, StartStages, agentVars, turnVars
<1>6. CASE ReconcileTurn
  BY <1>6, <1>u DEF ReconcileTurn, agentVars
<1> QED
  BY <1>1, <1>2, <1>3, <1>4, <1>5, <1>6 DEF Next

LEMMA BootMoves ==
  ASSUME LoopTyped, Next
  PROVE  \/ boot' = "down"
         \/ boot' = boot /\ UNCHANGED snap
         \/ boot = "down" /\ boot' = "rules"
         \/ boot = "rules" /\ boot' = "pass" /\ snap' \in {"queued", "empty"}
         \/ boot = "pass" /\ boot' = "decide" /\ snap' = IF Unfinished # {} THEN "queued" ELSE snap
         \/ boot = "decide" /\ boot' = "abandon" /\ snap # "queued"
         \/ boot = "decide" /\ boot' = "republish" /\ snap # "queued"
         \/ boot # "up" /\ boot' = "catchup"
         \/ boot = "catchup" /\ boot' = "up"
<1>1. ASSUME NEW s \in Subjects, StageStep(s) \/ StageFails(s)
      PROVE  UNCHANGED <<boot, snap>>
  BY <1>1 DEF StageStep, Deliver, EnterPhase, Spawn, RecordFailure, ReadVerdict, RecordRoll, PlanBatch, CommitBatch,
     RunCompanion, RunKnowledge, RunAccusation, RunCaseProgress, StageFails, bootVars
<1>2. ASSUME NEW k \in TaskIds, TaskStep(k) \/ RedeliverTask(k)
      PROVE  UNCHANGED <<boot, snap>>
  BY <1>2 DEF TaskStep, RunTask, CommitVerdict, CommitDecision, CommitNarration, CommitReference, ClaimDecision,
     CommitCompanion, FinishTask, FailTask, RedeliverTask, bootVars
<1>3. CASE WatcherStep \/ EvaluateRules
  BY <1>3 DEF WatcherStep, RecordLoopFailure, HandleFailure, ExhaustCompanion, EvaluateRules, bootVars
<1>4. CASE Crash \/ Restart
  BY <1>4 DEF Crash, Restart, Down
<1>5. CASE BootStep
  BY <1>5 DEF BootStep, StartRules, ReadStageQueues, ReadTaskQueue, ReconcileTurn, RepublishTrigger, Abandon, StartStages
<1> QED
  BY <1>1, <1>2, <1>3, <1>4, <1>5 DEF Next

LEMMA TaskInvStep == LoopTyped /\ TaskInv /\ [Next]_vars => TaskInv'
<1>1. ASSUME LoopTyped, TaskInv, Next
      PROVE  TaskInv'
  <2>0. snap \in {"unread", "queued", "empty"}
    BY <1>1 DEF LoopTyped, TypeOK
  <2>1. boot' \in {"pass", "decide"} => snap' # "unread"
    BY <1>1, <2>0, BootMoves DEF TaskInv
  <2>2. boot' # "up" => Unfinished' \subseteq Unfinished
    BY <1>1, TaskMoves
  <2>3. boot' = "decide" /\ snap' = "empty" => Unfinished' = {}
    BY <1>1, <2>2, BootMoves DEF TaskInv
  <2>4. boot' = "abandon" => Unfinished' = {}
    BY <1>1, <2>0, <2>2, BootMoves DEF TaskInv
  <2>5. ASSUME NEW k \in Unfinished'
        PROVE  k[2] = attempts'
    <3>1. CASE attempts' = attempts
      BY <1>1, <2>5, <3>1, TaskMoves DEF TaskInv
    <3>2. CASE boot = "decide" /\ snap # "queued" /\ UNCHANGED task
      <4>1. Unfinished = {}
        BY <1>1, <2>0, <3>2 DEF TaskInv
      <4>2. Unfinished' = Unfinished
        BY <3>2 DEF Unfinished
      <4> QED
        BY <2>5, <4>1, <4>2
    <3> QED
      BY <1>1, <3>1, <3>2, TaskMoves
  <2> QED
    BY <2>1, <2>3, <2>4, <2>5 DEF TaskInv
<1>2. ASSUME TaskInv, UNCHANGED vars
      PROVE  TaskInv'
  BY <1>2 DEF TaskInv, Unfinished, vars, turnVars, agentVars, bootVars
<1> QED
  BY <1>1, <1>2

LEMMA TaskInvInit == Init => TaskInv
<1> SUFFICES ASSUME Init
             PROVE  TaskInv
  OBVIOUS
<1>1. \A k \in TaskIds : task[k].st = "none"
  BY DEF Init, Unpublished
<1>2. Unfinished = {}
  BY <1>1 DEF Unfinished
<1> QED
  BY <1>2 DEF Init, TaskInv

(* No stage of the turn is worked on by two persona loops at once.         *)
THEOREM OneLoop == Spec => []OneLoopPerStage
<1>1. ASSUME TaskInv
      PROVE  OneLoopPerStage
  <2> SUFFICES ASSUME NEW s \in Spawning
               PROVE  Cardinality({a \in Attempts : <<s, a>> \in Unfinished}) <= 1
    BY DEF OneLoopPerStage
  <2> DEFINE A == {a \in Attempts : <<s, a>> \in Unfinished}
  <2>1. \A a \in A : a = attempts
    BY <1>1 DEF TaskInv
  <2>2. A = {} \/ A = {attempts}
    BY <2>1
  <2>3. Cardinality({}) = 0 /\ Cardinality({attempts}) = 1
    BY FS_EmptySet, FS_Singleton
  <2> HIDE DEF A
  <2>4. Cardinality(A) <= 1
    BY <2>2, <2>3
  <2> QED
    BY <2>4 DEF A
<1> QED
  BY <1>1, TaskInvInit, TaskInvStep, LoopInitTyped, LoopStepTyped, PTL DEF Spec

(* The stranded-turn pass never ends a turn a persona is still working on. *)
THEOREM AbandonsNoTask == Spec => AbandonedHadNoTask
<1>1. TaskInv /\ [Next]_vars => [boot = "abandon" /\ boot' = "catchup" => Unfinished = {}]_vars
  BY DEF TaskInv
<1> QED
  BY <1>1, TaskInvInit, TaskInvStep, LoopInitTyped, LoopStepTyped, PTL DEF Spec, AbandonedHadNoTask

-----------------------------------------------------------------------------
(* The companion.                                                          *)

LEMMA SpokenStep ==
  ASSUME LoopTyped, SpokenInv, Warning, Next
  PROVE  SpokenInv' /\ ("companion" \in facts => UNCHANGED spoken)
<1> DEFINE Goal == SpokenInv' /\ ("companion" \in facts => UNCHANGED spoken)
<1>0. TurnTyped /\ TasksTyped
  BY TypedIsParts
<1>i. /\ "companion" \in facts => outcome # None
      /\ outcome # None => said # None
      /\ \A k \in TaskIds : task[k].st = "claimed" => said # None
  BY DEF SpokenInv
<1>n. \A x \in Voices \cup {"decision", "exhausted", "direct"} : x # None
  BY NoneAssumption
<1>g. ASSUME /\ "companion" \in facts => UNCHANGED spoken
             /\ "companion" \in facts' => outcome' # None
             /\ outcome' # None => said' # None
             /\ \A k \in TaskIds : task'[k].st = "claimed" => said' # None
      PROVE  Goal
  BY <1>g DEF SpokenInv
<1>u. ASSUME UNCHANGED spoken, "companion" \in facts' => "companion" \in facts,
             \A k \in TaskIds : task'[k].st = "claimed" => task[k].st = "claimed"
      PROVE  Goal
  <2>1. said' = said /\ outcome' = outcome
    BY <1>u DEF spoken
  <2> QED
    BY <1>g, <1>i, <1>u, <2>1
<1>p. ASSUME NEW s \in Spawning, PublishTask(s)
      PROVE  \A k \in TaskIds : task'[k].st = "claimed" => task[k].st = "claimed"
  BY <1>0, <1>p, PublishTaskEffect DEF TasksTyped, TurnTyped
<1>s. ASSUME NEW k \in TaskIds, NEW st \in {"running", "claimed", "committed", "done"}, SetTask(k, st)
      PROVE  task'[k].st = st /\ \A o \in TaskIds : o # k => task'[o] = task[o]
  BY <1>0, <1>s, SetTaskEffect DEF TasksTyped
<1>1. ASSUME NEW s \in Subjects, StageStep(s) \/ StageFails(s)
      PROVE  Goal
  <2>1. CASE Spawn(s)
    <3>1. UNCHANGED spoken /\ (facts' = facts \/ facts' = facts \cup {"case-decision"})
      BY <2>1 DEF Spawn
    <3>2. \A k \in TaskIds : task'[k].st = "claimed" => task[k].st = "claimed"
      BY <1>p, <2>1 DEF Spawn
    <3> QED
      BY <1>u, <3>1, <3>2
  <2>2. CASE RunCompanion
    <3>0. said' = said
      BY <2>2 DEF RunCompanion
    <3>1. CASE Artifact("companion")
      <4>1. UNCHANGED <<facts, outcome, task>>
        BY <2>2, <3>1 DEF RunCompanion
      <4> QED
        BY <1>u, <3>0, <4>1 DEF spoken
    <3>2. CASE ~Artifact("companion") /\ UNCHANGED task
      <4>1. "companion" \notin facts
        BY <3>2 DEF Artifact
      <4>2. \/ outcome' = outcome /\ facts' = facts
            \/ outcome # None /\ outcome' = outcome
            \/ said # None /\ outcome' = "decision"
        BY <2>2, <3>2 DEF RunCompanion
      <4> QED
        BY <1>g, <1>i, <1>n, <3>0, <3>2, <4>1, <4>2
    <3>3. CASE PublishTask("companion") /\ UNCHANGED <<facts, outcome>>
      <4>1. "companion" \in Spawning
        BY DEF Spawning
      <4> QED
        BY <1>u, <1>p, <3>0, <3>3, <4>1 DEF spoken
    <3> QED
      BY <2>2, <3>1, <3>2, <3>3 DEF RunCompanion
  <2>3. CASE ~Spawn(s) /\ ~RunCompanion
    <3>1. UNCHANGED <<task, spoken>> /\ (facts' = facts \/ \E f \in {"batch"} \cup Barriers : facts' = facts \cup {f})
      BY <1>1, <2>3 DEF StageStep, Deliver, EnterPhase, RecordFailure, ReadVerdict, RecordRoll, PlanBatch,
         CommitBatch, RunKnowledge, RunAccusation, RunCaseProgress, StageFails, agentVars, turnVars, LandFact, LandNothing,
         Barriers
    <3> QED
      BY <1>u, <3>1 DEF Barriers
  <2> QED
    BY <2>1, <2>2, <2>3
<1>2. ASSUME NEW k \in TaskIds, TaskStep(k) \/ RedeliverTask(k)
      PROVE  Goal
  <2>1. CASE RunTask(k)
    <3>1. UNCHANGED <<facts, spoken>>
      BY <2>1 DEF RunTask, turnVars
    <3>2. task'[k].st = "running" /\ \A o \in TaskIds : o # k => task'[o] = task[o]
      BY <1>0, <2>1, RunTaskEffect DEF RunTask, TasksTyped
    <3> QED
      BY <1>u, <3>1, <3>2
  <2>2. CASE RedeliverTask(k)
    <3>1. UNCHANGED <<facts, spoken>>
      BY <2>2 DEF RedeliverTask, turnVars
    <3>2. task'[k] = Redelivered(task[k]) /\ task[k] \in TaskStates /\ \A o \in TaskIds : o # k => task'[o] = task[o]
      BY <1>0, <2>2 DEF RedeliverTask, TasksTyped
    <3> QED
      BY <1>u, <3>1, <3>2, RedeliverEffect
  <2>3. CASE CommitVerdict(k) \/ FinishTask(k) \/ FailTask(k)
    <3>1. UNCHANGED <<facts, spoken>> /\ \E st \in {"committed", "done"} : SetTask(k, st)
      BY <2>3 DEF CommitVerdict, FinishTask, FailTask, turnVars
    <3> QED
      BY <1>s, <1>u, <3>1
  <2>4. CASE CommitDecision(k) \/ CommitNarration(k)
    <3>1. /\ UNCHANGED spoken /\ SetTask(k, "committed")
          /\ facts' = facts \cup {"case-decision"} \/ facts' = facts \cup {"narration"}
      BY <2>4 DEF CommitDecision, CommitNarration, CommitReference
    <3> QED
      BY <1>s, <1>u, <3>1
  <2>5. CASE ClaimDecision(k)
    <3>1. said' \in Voices /\ said \in {None, said'} /\ UNCHANGED <<facts, outcome>> /\ SetTask(k, "claimed")
      BY <2>5 DEF ClaimDecision, Claims
    <3> QED
      BY <1>g, <1>i, <1>n, <1>s, <3>1 DEF spoken
  <2>6. CASE CommitCompanion(k)
    <3>1. /\ outcome' = "decision" /\ outcome \in {None, "decision"} /\ UNCHANGED said /\ SetTask(k, "committed")
          /\ task[k].st = "claimed"
      BY <2>6 DEF CommitCompanion, Claims
    <3> QED
      BY <1>g, <1>i, <1>n, <1>s, <3>1 DEF spoken
  <2> QED
    BY <1>2, <2>1, <2>2, <2>3, <2>4, <2>5, <2>6 DEF TaskStep
<1>3. CASE WatcherStep
  <2>1. ASSUME NEW e \in failures, ExhaustCompanion(e)
        PROVE  Goal
    <3>1. /\ said' = "silent" /\ said \in {None, "silent"} /\ UNCHANGED task
          /\ \/ outcome' = "exhausted" /\ outcome \in {None, "exhausted"}
             \/ UNCHANGED <<outcome, facts>>
      BY <2>1 DEF ExhaustCompanion, Claims
    <3>2. said' # None /\ "exhausted" # None
      BY <1>n, <3>1 DEF Voices
    <3> QED
      BY <1>g, <1>i, <3>1, <3>2 DEF spoken
  <2>2. CASE RecordLoopFailure \/ \E e \in failures : HandleFailure(e)
    BY <1>u, <2>2 DEF RecordLoopFailure, HandleFailure, turnVars
  <2> QED
    BY <1>3, <2>1, <2>2 DEF WatcherStep
<1>4. CASE Crash \/ Restart
  <2>1. task' = [k \in TaskIds |-> Redelivered(task[k])] /\ UNCHANGED <<facts, spoken>>
    BY <1>4 DEF Crash, Restart, Down, turnVars
  <2>2. \A k \in TaskIds : task'[k] = Redelivered(task[k]) /\ task[k] \in TaskStates
    BY <1>0, <2>1 DEF TasksTyped
  <2> QED
    BY <1>u, <2>1, <2>2, RedeliverEffect
<1>5. CASE EvaluateRules \/ BootStep
  <2>1. UNCHANGED <<task, facts, spoken>>
    BY <1>5 DEF EvaluateRules, BootStep, StartRules, ReadStageQueues, ReadTaskQueue, ReconcileTurn,
       RepublishTrigger, Abandon, StartStages, agentVars, turnVars
  <2> QED
    BY <1>u, <2>1
<1> QED
  BY <1>1, <1>2, <1>3, <1>4, <1>5 DEF Next

(* What a companion said is never replaced.                                *)
THEOREM SpeaksOnce == Spec => SpokenOnce
<1>1. Init => SpokenInv
  BY DEF Init, SpokenInv, Unpublished
<1>2. LoopTyped /\ SpokenInv /\ [Next]_vars => SpokenInv'
  <2>1. ASSUME SpokenInv, UNCHANGED vars
        PROVE  SpokenInv'
    BY <2>1 DEF SpokenInv, vars, turnVars, spoken, agentVars
  <2>2. ~Warning => SpokenInv'
    BY DEF SpokenInv
  <2> QED
    BY <2>1, <2>2, SpokenStep
<1>3. LoopTyped /\ SpokenInv /\ [Next]_vars => [Warning /\ "companion" \in facts => UNCHANGED spoken]_vars
  BY SpokenStep
<1> QED
  BY <1>1, <1>2, <1>3, LoopInitTyped, LoopStepTyped, PTL DEF Spec, SpokenOnce

-----------------------------------------------------------------------------
(* The hops between phases.                                                *)

LEMMA PredecessorsAre ==
  /\ Predecessors["interpreting"] = {"accepted"} /\ Predecessors["adjudicating"] = {"interpreting"}
  /\ Predecessors["resolving"] = {"adjudicating"} /\ Predecessors["applying"] = {"adjudicating", "resolving"}
  /\ Predecessors["companion"] = {"applying"} /\ Predecessors["narrating"] = {"companion"}
  /\ Predecessors["complete"] = {"narrating"}
BY DEF Predecessors, Phases

(* What a step does to one consumer.                                       *)
LEMMA WorkerMoves ==
  ASSUME LoopTyped, Next, NEW s \in Subjects
  PROVE  worker'[s] = worker[s] \/ worker'[s] = Idle \/ (Others(s) /\ Placed(s))
<1>1. ASSUME NEW o \in Subjects, StageStep(o) \/ StageFails(o)
      PROVE  worker'[s] = worker[s] \/ (Others(s) /\ Placed(s))
  <2>1. Others(o) /\ Placed(o)
    BY <1>1, StageQueue
  <2>2. CASE o = s
    BY <2>1, <2>2
  <2>3. CASE o # s
    BY <2>1, <2>3 DEF Others
  <2> QED
    BY <2>2, <2>3
<1>2. CASE \E k \in TaskIds : TaskStep(k) \/ RedeliverTask(k)
  BY <1>2 DEF TaskStep, RunTask, CommitVerdict, CommitDecision, CommitNarration, CommitReference, ClaimDecision,
     CommitCompanion, FinishTask, FailTask, RedeliverTask
<1>3. CASE WatcherStep \/ EvaluateRules
  BY <1>3 DEF WatcherStep, RecordLoopFailure, HandleFailure, ExhaustCompanion, EvaluateRules
<1>4. CASE Crash \/ Restart
  BY <1>4 DEF Crash, Restart, Down
<1>5. CASE BootStep
  BY <1>5 DEF BootStep, StartRules, ReadStageQueues, ReadTaskQueue, ReconcileTurn, RepublishTrigger, Abandon, StartStages
<1> QED
  BY <1>1, <1>2, <1>3, <1>4, <1>5 DEF Next

(* A consumer begins to enter on a phase it may follow, while every other  *)
(* one stays where it is.                                                  *)
LEMMA EnteringMoves ==
  ASSUME LoopTyped, Next, NEW s \in StagePhases, Entering(s)', ~Entering(s)
  PROVE  /\ phase \in Predecessors[s] /\ phase \notin TerminalPhases /\ UNCHANGED turnVars
         /\ \A o \in StagePhases : o # s => worker'[o] = worker[o]
<1>1. s \in Subjects /\ worker'[s].pc = "enter" /\ worker[s].pc # "enter" /\ \A o \in StagePhases : o \in Subjects
  BY SubjectNames DEF Entering
<1>2. Others(s) /\ Placed(s) /\ worker'[s] # Idle
  BY <1>1, WorkerMoves, IdleTyped
<1> QED
  BY <1>1, <1>2 DEF Others, Placed

(* The resolver or the effector begins its work with the turn in its       *)
(* phase.                                                                  *)
LEMMA BodyMoves ==
  ASSUME LoopTyped, Next, NEW s \in {"resolving", "applying"}, worker'[s].pc \in {"body", "commit"},
         worker[s].pc \notin {"body", "commit"}
  PROVE  phase' = s /\ worker'[s].pc = "body" /\ \A o \in StagePhases : o # s => worker'[o] = worker[o]
<1>1. s \in Subjects /\ s \notin Barriers /\ \A o \in StagePhases : o \in Subjects
  BY SubjectNames DEF Subjects, StagePhases, Barriers
<1>2. Others(s) /\ Placed(s) /\ worker'[s] # Idle
  BY <1>1, WorkerMoves, IdleTyped
<1> QED
  BY <1>1, <1>2 DEF Others, Placed

(* A turn that is past its judgment stays past it.                         *)
LEMMA PastIsStable ==
  ASSUME LoopTyped, Next, Past
  PROVE  Past'
<1>0. {"interpreting", "adjudicating"} \subseteq StagePhases /\ "accepted" \notin StagePhases
  BY DEF StagePhases
<1>1. phase' \notin Early
  BY <1>0, TurnMoves DEF Past, EntersPhase, Early
<1>2. ~Entering("interpreting")' /\ ~Entering("adjudicating")'
  BY <1>0, EnteringMoves, PredecessorsAre DEF Past, Early
<1> QED
  BY <1>1, <1>2 DEF Past

LEMMA EarlyStep == LoopTyped /\ EarlyInv /\ [Next]_vars => EarlyInv'
<1>1. ASSUME LoopTyped, EarlyInv, Next
      PROVE  EarlyInv'
  <2> DEFINE F == {"interpreting", "adjudicating"}
  <2>0. F \subseteq StagePhases /\ "accepted" \notin StagePhases /\ "failed" \notin StagePhases
    BY DEF StagePhases
  <2>i. /\ Entering("interpreting") => phase \in {"accepted", "failed"}
        /\ Entering("adjudicating") => phase \in {"interpreting", "failed"}
        /\ \A s \in F, o \in StagePhases : Entering(s) /\ Entering(o) => s = o
        /\ \A o \in StagePhases \ F : Entering(o) => phase \notin {"accepted", "interpreting"}
        /\ DiceReached => Past
    BY <1>1 DEF EarlyInv
  <2>m. phase' = phase \/ phase' = "failed" \/ \E o \in StagePhases : EntersPhase(o)
    BY <1>1, TurnMoves
  <2>n. \A s \in StagePhases : Entering(s)' /\ ~Entering(s) =>
          /\ phase \in Predecessors[s] /\ phase \notin TerminalPhases /\ phase' = phase
          /\ \A o \in StagePhases : o # s => worker'[o] = worker[o]
    BY <1>1, EnteringMoves DEF turnVars
  <2>1. ASSUME NEW s \in F, Entering(s)', NEW o \in StagePhases, EntersPhase(o)
        PROVE  FALSE
    <3>1. s # o
      BY <2>1 DEF EntersPhase, Entering
    <3>2. CASE Entering(s)
      BY <2>0, <2>1, <2>i, <3>1, <3>2 DEF EntersPhase
    <3>3. CASE ~Entering(s)
      <4>1. phase \in Predecessors[s] /\ phase' = phase
        BY <2>0, <2>1, <2>n, <3>3
      <4>2. phase = o /\ Entering(o)
        BY <2>1, <4>1 DEF EntersPhase
      <4>3. CASE o \in F
        BY <2>i, <4>2, <4>3
      <4>4. CASE o \notin F
        BY <2>0, <4>1, <4>2, <4>4, PredecessorsAre
      <4> QED
        BY <4>3, <4>4
    <3> QED
      BY <3>2, <3>3
  <2>2. Entering("interpreting")' => phase' \in {"accepted", "failed"}
    BY <2>0, <2>1, <2>i, <2>m, <2>n, PredecessorsAre
  <2>3. Entering("adjudicating")' => phase' \in {"interpreting", "failed"}
    BY <2>0, <2>1, <2>i, <2>m, <2>n, PredecessorsAre
  <2>4. ASSUME NEW s \in F, NEW o \in StagePhases, Entering(s)', Entering(o)', s # o
        PROVE  FALSE
    <3>1. CASE Entering(s) /\ Entering(o)
      BY <2>4, <2>i, <3>1
    <3>2. CASE ~Entering(s)
      <4>1. /\ phase \in Predecessors[s] /\ phase \notin TerminalPhases /\ Entering(o)
        BY <2>0, <2>4, <2>n, <3>2 DEF Entering
      <4> QED
        BY <2>4, <2>i, <4>1, PredecessorsAre DEF TerminalPhases
    <3>3. CASE ~Entering(o)
      <4>1. /\ phase \in Predecessors[o] /\ phase \notin TerminalPhases /\ Entering(s)
        BY <2>0, <2>4, <2>n, <3>3 DEF Entering
      <4> QED
        BY <2>4, <2>i, <4>1, PredecessorsAre DEF TerminalPhases, StagePhases
    <3> QED
      BY <3>1, <3>2, <3>3
  <2>5. ASSUME NEW o \in StagePhases \ F, Entering(o)'
        PROVE  phase' \notin {"accepted", "interpreting"}
    <3>1. CASE ~Entering(o)
      BY <2>5, <2>n, <3>1, PredecessorsAre DEF StagePhases
    <3>2. CASE Entering(o)
      BY <2>0, <2>5, <2>i, <2>m, <3>2 DEF EntersPhase
    <3> QED
      BY <3>1, <3>2
  <2>6. ASSUME DiceReached'
        PROVE  Past'
    <3>1. CASE DiceReached
      BY <1>1, <2>i, <3>1, PastIsStable
    <3>2. CASE ~DiceReached
      <4>1. roll' = roll /\ batch' = batch
        BY <1>1, <3>2, TurnMoves DEF DiceReached
      <4>2. PICK s \in {"resolving", "applying"} : worker'[s].pc \in {"body", "commit"}
        BY <2>6, <3>2, <4>1 DEF DiceReached
      <4>3. phase' = s /\ \A o \in StagePhases : o # s => worker'[o] = worker[o]
        BY <1>1, <3>2, <4>2, BodyMoves DEF DiceReached
      <4>4. ASSUME NEW o \in F, Entering(o)'
            PROVE  FALSE
        <5>1. Entering(o)
          BY <2>0, <4>2, <4>3, <4>4 DEF Entering
        <5>2. phase # s
          BY <2>i, <4>2, <5>1
        <5>3. PICK p \in StagePhases : EntersPhase(p)
          BY <2>m, <4>2, <4>3, <5>2
        <5> QED
          BY <2>1, <4>4, <5>3
      <4> QED
        BY <4>2, <4>3, <4>4 DEF Past, Early
    <3> QED
      BY <3>1, <3>2
  <2> QED
    BY <2>2, <2>3, <2>4, <2>5, <2>6 DEF EarlyInv
<1>2. ASSUME EarlyInv, UNCHANGED vars
      PROVE  EarlyInv'
  BY <1>2 DEF EarlyInv, DiceReached, Past, Entering, vars, turnVars
<1> QED
  BY <1>1, <1>2

LEMMA EarlyInit == Init => EarlyInv
<1> SUFFICES ASSUME Init
             PROVE  EarlyInv
  OBVIOUS
<1>1. \A s \in Subjects : worker[s].pc = "idle"
  BY IdleTyped DEF Init
<1>2. \A s \in StagePhases : worker[s].pc = "idle"
  BY <1>1, SubjectNames
<1> QED
  BY <1>2 DEF Init, EarlyInv, DiceReached, Entering, StagePhases

(* A trigger of the resolver, and one of the effector or a later stage:    *)
(* what the turn looked like when it was published.                        *)
LEMMA LateTriggers ==
  ASSUME LoopTyped, Next, NEW s \in StagePhases, queue'[s] > 0, ~(queue[s] > 0)
  PROVE  /\ UNCHANGED turnVars
         /\ s = "resolving" =>
              \/ phase = "adjudicating" /\ verdict \in Verdicts /\ RequiresRoll[verdict]
              \/ phase = "resolving"
         /\ s \in Late =>
              \/ phase = "adjudicating" /\ verdict \in Verdicts /\ ~RequiresRoll[verdict]
              \/ roll # None
              \/ phase \in Late
<1>0. s \in Subjects /\ verdict \in Verdicts \cup {None}
  BY SubjectNames DEF LoopTyped, TypeOK
<1>1. UNCHANGED turnVars /\ ((\E r \in Rules : Matches(r) /\ s \in Publishes[r]) \/ Republishes(s))
  BY <1>0, TriggerOrigin
<1>2. CASE Republishes(s)
  BY <1>1, <1>2 DEF Republishes, Late
<1>3. ASSUME NEW r \in Rules, Matches(r), s \in Publishes[r]
      PROVE  /\ s = "resolving" => phase = "adjudicating" /\ verdict # None /\ RequiresRoll[verdict]
             /\ s \in Late =>
                  \/ phase = "adjudicating" /\ verdict # None /\ ~RequiresRoll[verdict]
                  \/ roll # None
                  \/ phase \in Late
  <2>1. CASE r \in {"accepted", "interpreted", "progress"}
    BY <1>3, <2>1 DEF Publishes, Rules, Late, StagePhases
  <2>2. CASE r \in {"roll", "no-roll", "rolled"}
    BY <1>3, <2>2 DEF Publishes, Rules, Late, Matches
  <2>3. CASE r \in {"applied", "accompanied", "narrated"}
    BY <1>3, <2>3 DEF Publishes, Rules, Late, Matches
  <2> QED
    BY <2>1, <2>2, <2>3 DEF Rules
<1> QED
  BY <1>0, <1>1, <1>2, <1>3

LEMMA EnteringHasTrigger ==
  ASSUME LoopTyped, NEW s \in StagePhases, Entering(s)
  PROVE  queue[s] > 0
BY SubjectNames DEF LoopTyped, TypeOK, Entering

LEMMA HopStep ==
  ASSUME Steady
  PROVE  LoopTyped /\ LoopTyped' /\ EarlyInv /\ HopInv /\ [Next]_vars => HopInv'
<1>1. ASSUME LoopTyped, LoopTyped', EarlyInv, HopInv, Next
      PROVE  HopInv'
  <2>0. Late \subseteq StagePhases /\ "resolving" \in StagePhases /\ "resolving" \notin Late /\ "failed" \notin Late
        /\ \A s \in StagePhases : queue[s] \in Nat
    BY <1>1, SubjectNames, BoundsAreNat DEF Late, StagePhases, LoopTyped, TypeOK
  <2>p. \A s \in StagePhases : queue'[s] \in Nat
    BY <1>1, SubjectNames, BoundsAreNat DEF LoopTyped, TypeOK
  <2>m. phase' = phase \/ phase' = "failed" \/ \E o \in StagePhases : EntersPhase(o)
    BY <1>1, TurnMoves
  <2>1. ASSUME NeverRolls
        PROVE  queue'["resolving"] = 0 /\ phase' # "resolving"
    <3>0. queue["resolving"] = 0 /\ phase # "resolving"
      BY <1>1, <2>1 DEF HopInv
    <3>1. ~(queue'["resolving"] > 0)
      BY <1>1, <2>0, <2>1, <3>0, LateTriggers DEF NeverRolls
    <3>2. phase' # "resolving"
      BY <1>1, <2>0, <2>m, <3>0, EnteringHasTrigger DEF EntersPhase
    <3> QED
      BY <2>0, <2>p, <3>1, <3>2
  <2>2. ASSUME AlwaysRolls
        PROVE  /\ phase' \in Late => roll' # None
               /\ \A s \in Late : queue'[s] > 0 => roll' # None
    <3>0. /\ phase \in Late => roll # None
          /\ \A s \in Late : queue[s] > 0 => roll # None
      BY <1>1, <2>2 DEF HopInv
    <3>r. roll # None => roll' # None
      BY <1>1, TurnMoves, LoopAssumption
    <3>1. ASSUME NEW s \in Late, queue'[s] > 0, ~(queue[s] > 0)
          PROVE  roll # None
      BY <1>1, <2>0, <2>2, <3>0, <3>1, LateTriggers DEF AlwaysRolls
    <3>2. phase' \in Late => roll # None
      BY <1>1, <2>0, <2>m, <3>0, EnteringHasTrigger DEF EntersPhase
    <3> QED
      BY <3>0, <3>1, <3>2, <3>r
  <2>n. \A s \in StagePhases : Entering(s)' /\ ~Entering(s) =>
          /\ phase \in Predecessors[s] /\ phase \notin TerminalPhases /\ UNCHANGED turnVars /\ phase' = phase
          /\ \A o \in StagePhases : o # s => worker'[o] = worker[o]
    BY <1>1, EnteringMoves DEF turnVars
  <2>3. ASSUME NEW s \in StagePhases, Entering(s)'
        PROVE  phase' \in Predecessors[s] \cup {"failed"}
    <3>1. CASE ~Entering(s)
      BY <2>3, <2>n, <3>1
    <3>2. CASE Entering(s)
      <4>1. ASSUME NEW o \in StagePhases, EntersPhase(o)
            PROVE  FALSE
        BY <1>1, <2>3, <3>2, <4>1 DEF EntersPhase, Entering, HopInv
      <4> QED
        BY <1>1, <2>m, <3>2, <4>1 DEF HopInv
    <3> QED
      BY <3>1, <3>2
  <2>4. ASSUME NEW s \in StagePhases, NEW o \in StagePhases, Entering(s)', ~Entering(s), Entering(o)', s # o
        PROVE  FALSE
    <3>1. phase \in Predecessors[s] /\ phase \notin TerminalPhases /\ UNCHANGED turnVars /\ Entering(o)
      BY <2>4, <2>n DEF Entering
    <3>2. phase \in Predecessors[o]
      BY <1>1, <3>1 DEF HopInv, TerminalPhases
    <3>3. phase = "adjudicating" /\ (s = "resolving" \/ o = "resolving") /\ (s = "applying" \/ o = "applying")
      BY <2>4, <3>1, <3>2, PredecessorsAre DEF StagePhases
    <3>4. queue'[s] > 0 /\ queue'[o] > 0
      BY <1>1, <2>4, SubjectNames DEF LoopTyped, TypeOK, Entering
    <3>5. ~NeverRolls
      BY <2>1, <3>3, <3>4
    <3>6. ~AlwaysRolls
      <4>1. SUFFICES ASSUME AlwaysRolls
                     PROVE  FALSE
        OBVIOUS
      <4>2. roll' # None
        BY <2>2, <3>3, <3>4, <4>1 DEF Late
      <4>3. roll # None
        BY <3>1, <4>2 DEF turnVars
      <4> QED
        BY <1>1, <3>3, <4>3 DEF EarlyInv, DiceReached, Past, Early
    <3> QED
      BY <3>5, <3>6 DEF Steady
  <2>5. \A s, o \in StagePhases : Entering(s)' /\ Entering(o)' => s = o
    BY <1>1, <2>4 DEF HopInv
  <2> QED
    BY <2>1, <2>2, <2>3, <2>5 DEF HopInv
<1>2. ASSUME HopInv, UNCHANGED vars
      PROVE  HopInv'
  BY <1>2 DEF HopInv, Entering, vars, turnVars
<1> QED
  BY <1>1, <1>2

(* What the turn carries, as TurnProgress sees it.                         *)
Carried == facts \cup (IF verdict = None THEN {} ELSE {"verdict"})

LEMMA OwedIsBacked ==
  ASSUME NEW s \in StagePhases, Backed(s)
  PROVE  Progress!Owed[s] \subseteq Carried
BY DEF StagePhases, Backed, StagesOwedBy, Progress!Owed, Progress!AfterApplying, Progress!Phases, Barriers, Carried

LEMMA ProgressStep ==
  ASSUME LoopTyped, RecordInv, HopInv, Next
  PROVE  [Progress!Next]_<<phase, Carried>>
<1>1. Carried \subseteq Carried'
  BY TurnMoves, LoopAssumption DEF Carried
<1>2. CASE phase' = phase
  BY <1>1, <1>2 DEF Progress!Next, Progress!Deposit, Carried
<1>3. CASE phase' # phase
  <2>1. Carried' = Carried
    BY <1>3, TurnMoves DEF Carried
  <2>2. CASE phase' = "failed"
    BY <1>3, <2>1, <2>2 DEF Progress!Next, Progress!Fail, Carried
  <2>3. ASSUME NEW s \in StagePhases, EntersPhase(s)
        PROVE  Progress!Next
    <3>1. phase' = s /\ phase \in Predecessors[s] \cup {"failed"} /\ s \notin {"accepted", "failed"} /\ s \in Phases
      BY <2>3, SubjectNames DEF EntersPhase, HopInv, StagePhases
    <3>2. Backed(s)
      BY <2>3, EnteringHasTrigger DEF EntersPhase, RecordInv
    <3>3. Progress!Owed[s] \subseteq Carried
      BY <3>2, OwedIsBacked
    <3>4. Progress!Phases = Phases /\ Progress!Predecessors = Predecessors
      BY DEF Progress!Phases, Phases, Progress!Predecessors, Predecessors, Progress!TerminalPhases, TerminalPhases
    <3>5. CASE phase = "failed"
      <4>1. Progress!Revive(s)
        BY <2>1, <3>1, <3>3, <3>5 DEF Progress!Revive, Carried
      <4> QED
        BY <3>1, <3>4, <4>1 DEF Progress!Next
    <3>6. CASE phase \in Predecessors[s]
      <4>1. Progress!Enter(s)
        BY <2>1, <3>1, <3>3, <3>4, <3>6 DEF Progress!Enter, Progress!PhaseFollows, Carried
      <4> QED
        BY <3>1, <3>4, <4>1 DEF Progress!Next
    <3> QED
      BY <3>1, <3>5, <3>6
  <2> QED
    BY <1>3, <2>2, <2>3, TurnMoves
<1> QED
  BY <1>2, <1>3

(* The engine implements TurnProgress when repeated judgments agree on the *)
(* dice.                                                                   *)
THEOREM LoopImplementsProgress == ASSUME Steady PROVE Spec => ImplementsProgress
<1>1. Init => HopInv
  <2> SUFFICES ASSUME Init
               PROVE  HopInv
    OBVIOUS
  <2>1. \A s \in Subjects : queue[s] = 0 /\ worker[s].pc = "idle"
    BY IdleTyped DEF Init
  <2>2. \A s \in StagePhases : queue[s] = 0 /\ worker[s].pc = "idle"
    BY <2>1, SubjectNames
  <2> QED
    BY <2>2 DEF Init, HopInv, Entering, Late, StagePhases
<1>2. Init => Progress!Init
  BY DEF Init, Progress!Init
<1>3. LoopTyped /\ RecordInv /\ HopInv /\ [Next]_vars =>
        [Progress!Next]_<<phase, facts \cup (IF verdict = None THEN {} ELSE {"verdict"})>>
  BY ProgressStep DEF Carried, vars, turnVars
<1>4. Init => RecordInv
  BY SubjectNames DEF Init, RecordInv, Backed, StagesOwedBy
<1> QED
  BY <1>1, <1>2, <1>3, <1>4, LoopInitTyped, LoopStepTyped, RecordStep, EarlyInit, EarlyStep, HopStep, PTL
     DEF Spec, ImplementsProgress, Progress!Spec

(* A turn that is not failed never goes back to an earlier stage, and is   *)
(* moved to a stage it is not past only from one that may precede it.      *)
MovesForward ==
  [][phase # "failed" /\ phase' \notin {phase, "failed"} =>
       PhaseFollows(phase, phase') /\ Rank[phase] < Rank[phase']]_phase

(* TurnProgress carried over by the refinement: through crashes, repeated  *)
(* tasks and restarts, Recorder.Advance only ever moves a living turn on.  *)
THEOREM LiveTurnMovesForward == ASSUME Steady PROVE Spec => MovesForward
<1>1. [Progress!Next]_<<phase, facts \cup (IF verdict = None THEN {} ELSE {"verdict"})>> =>
        [phase # "failed" /\ phase' \notin {phase, "failed"} =>
           PhaseFollows(phase, phase') /\ Rank[phase] < Rank[phase']]_phase
  <2> SUFFICES ASSUME NEW p \in Phases, Progress!PhaseFollows(phase, p), p # "failed"
               PROVE  PhaseFollows(phase, p) /\ Rank[phase] < Rank[p]
    BY DEF Progress!Next, Progress!Deposit, Progress!Fail, Progress!Enter, Progress!Revive, Progress!Phases, Phases
  <2>1. Progress!Predecessors = Predecessors
    BY DEF Phases, Progress!Phases, Progress!Predecessors, Predecessors, Progress!TerminalPhases, TerminalPhases
  <2>2. phase \in Predecessors[p]
    BY <2>1 DEF Progress!PhaseFollows
  <2> QED
    BY <2>2 DEF PhaseFollows, Predecessors, Rank, Phases
<1> QED
  BY <1>1, LoopImplementsProgress, PTL DEF ImplementsProgress, Progress!Spec, MovesForward

-----------------------------------------------------------------------------
(* The judgments, and the agreement of the world with the dice.            *)

LEMMA TaskCounts ==
  ASSUME TasksTyped, NEW k \in TaskIds
  PROVE  task[k].n \in Nat /\ task[k].n <= MaxDeliver /\ task[k] \in TaskStates
BY BoundsAreNat DEF TasksTyped, TaskStates

(* One unfinished adjudication at a time.                                  *)
LEMMA OneJudge ==
  ASSUME TaskInv, NEW k \in JudgeIds, NEW o \in JudgeIds, k \in Unfinished, o \in Unfinished
  PROVE  k = o
<1>1. k[2] = attempts /\ o[2] = attempts /\ k[1] = "adjudicating" /\ o[1] = "adjudicating"
  BY DEF TaskInv, JudgeIds
<1>2. k = <<k[1], k[2]>> /\ o = <<o[1], o[2]>>
  BY DEF JudgeIds, TaskIds
<1> QED
  BY <1>1, <1>2

(* What a step does to one adjudication task.                              *)
JudgeMove(k) ==
  \/ task'[k] = task[k]
  \/ task[k].st = "none" /\ task'[k].st = "queued" /\ task'[k].n = task[k].n /\ verdict = None
  \/ task[k].st = "queued" /\ task'[k].st = "running" /\ task'[k].n = task[k].n + 1
  \/ task[k].st \in {"running", "claimed"} /\ task'[k].st = "committed" /\ task'[k].n = task[k].n
  \/ task[k].st \in {"running", "claimed", "committed"} /\ task'[k].st = "done"
  \/ /\ task[k].st \in {"running", "claimed", "committed"} /\ task'[k].st = "queued"
     /\ task'[k].n = task[k].n /\ task[k].n < MaxDeliver

LEMMA JudgeMoves ==
  ASSUME LoopTyped, Next
  PROVE  /\ \A k \in JudgeIds : JudgeMove(k)
         /\ \/ verdict' = verdict
            \/ \E k \in JudgeIds : task[k].st = "running" /\ task'[k].st = "committed" /\ task'[k].n = task[k].n
                                   /\ \A o \in JudgeIds : o # k => task'[o] = task[o]
<1> DEFINE Same == (\A k \in JudgeIds : JudgeMove(k)) /\ verdict' = verdict
<1>0. TurnTyped /\ TasksTyped /\ \A k \in JudgeIds : k \in TaskIds /\ k[1] = "adjudicating"
  BY TypedIsParts DEF JudgeIds
<1>u. ASSUME UNCHANGED <<task, verdict>>
      PROVE  Same
  BY <1>u DEF JudgeMove
<1>p. ASSUME NEW s \in Spawning, PublishTask(s), s = "adjudicating" => verdict = None, UNCHANGED verdict
      PROVE  Same
  <2>1. \A k \in TaskIds :
          \/ task'[k] = task[k]
          \/ k = <<s, attempts>> /\ task[k].st = "none" /\ task'[k].st = "queued" /\ task'[k].n = task[k].n
    BY <1>0, <1>p, PublishTaskEffect DEF TasksTyped, TurnTyped
  <2> QED
    BY <1>0, <1>p, <2>1 DEF JudgeMove
<1>1. ASSUME NEW s \in Subjects, StageStep(s) \/ StageFails(s)
      PROVE  Same
  <2>0. verdict' = verdict
    BY <1>1 DEF StageStep, Deliver, EnterPhase, Spawn, RecordFailure, ReadVerdict, RecordRoll, PlanBatch,
       CommitBatch, RunCompanion, RunKnowledge, RunAccusation, RunCaseProgress, StageFails, turnVars
  <2>1. CASE Spawn(s)
    <3>1. UNCHANGED task \/ (s \in Spawning /\ PublishTask(s) /\ ~Artifact(s))
      BY <2>1 DEF Spawn
    <3>2. ~Artifact(s) /\ s = "adjudicating" => verdict = None
      BY DEF Artifact
    <3> QED
      BY <1>u, <1>p, <2>0, <3>1, <3>2
  <2>2. CASE RunCompanion
    <3>1. "companion" \in Spawning
      BY DEF Spawning
    <3> QED
      BY <1>u, <1>p, <2>0, <2>2, <3>1 DEF RunCompanion
  <2>3. CASE ~Spawn(s) /\ ~RunCompanion
    <3>1. UNCHANGED task
      BY <1>1, <2>3 DEF StageStep, Deliver, EnterPhase, RecordFailure, ReadVerdict, RecordRoll, PlanBatch,
         CommitBatch, RunKnowledge, RunAccusation, RunCaseProgress, StageFails, agentVars
    <3> QED
      BY <1>u, <2>0, <3>1
  <2> QED
    BY <2>1, <2>2, <2>3
<1>r. ASSUME NEW k \in TaskIds, task[k].st \in {"running", "claimed", "committed"},
             task'[k] = Redelivered(task[k])
      PROVE  JudgeMove(k)
  <2>1. task[k] \in TaskStates /\ task[k].n <= MaxDeliver
    BY <1>0, TaskCounts
  <2>2. \/ task[k].n < MaxDeliver /\ task'[k] = [task[k] EXCEPT !.st = "queued"]
        \/ task'[k] = [task[k] EXCEPT !.st = "done"]
    BY <1>r DEF Redelivered
  <2>3. \/ task[k].n < MaxDeliver /\ task'[k].st = "queued" /\ task'[k].n = task[k].n
        \/ task'[k].st = "done"
    BY <2>1, <2>2 DEF TaskStates
  <2> QED
    BY <1>r, <2>3 DEF JudgeMove
<1>2. ASSUME NEW k \in TaskIds, TaskStep(k) \/ RedeliverTask(k)
      PROVE  \/ Same
             \/ /\ \A o \in JudgeIds : JudgeMove(o)
                /\ k \in JudgeIds /\ task[k].st = "running" /\ task'[k].st = "committed" /\ task'[k].n = task[k].n
                /\ \A o \in JudgeIds : o # k => task'[o] = task[o]
  <2>1. CASE RunTask(k)
    <3>1. task'[k].st = "running" /\ task'[k].n = task[k].n + 1 /\ \A o \in TaskIds : o # k => task'[o] = task[o]
      BY <1>0, <2>1, RunTaskEffect DEF RunTask, TasksTyped
    <3>2. task[k].st = "queued" /\ verdict' = verdict
      BY <2>1 DEF RunTask, turnVars
    <3> QED
      BY <1>0, <3>1, <3>2 DEF JudgeMove
  <2>2. CASE RedeliverTask(k)
    <3>1. /\ task[k].st \in {"running", "claimed", "committed"} /\ verdict' = verdict
          /\ task'[k] = Redelivered(task[k]) /\ \A o \in TaskIds : o # k => task'[o] = task[o]
      BY <1>0, <2>2 DEF RedeliverTask, TasksTyped, turnVars
    <3>2. JudgeMove(k)
      BY <1>r, <3>1
    <3>3. \A o \in TaskIds : o # k => JudgeMove(o)
      BY <3>1 DEF JudgeMove
    <3> QED
      BY <1>0, <3>1, <3>2, <3>3
  <2>3. CASE CommitVerdict(k)
    <3>1. k[1] = "adjudicating" /\ task[k].st = "running" /\ verdict' \in Verdicts /\ SetTask(k, "committed")
      BY <2>3 DEF CommitVerdict
    <3>2. task'[k].st = "committed" /\ task'[k].n = task[k].n /\ \A o \in TaskIds : o # k => task'[o] = task[o]
      BY <1>0, <3>1, SetTaskEffect DEF TasksTyped
    <3> QED
      BY <1>0, <3>1, <3>2 DEF JudgeMove, JudgeIds
  <2>4. CASE FinishTask(k) \/ FailTask(k)
    <3>1. task[k].st \in {"running", "claimed", "committed"} /\ verdict' = verdict /\ SetTask(k, "done")
      BY <2>4 DEF FinishTask, FailTask, turnVars
    <3>2. task'[k].st = "done" /\ \A o \in TaskIds : o # k => task'[o] = task[o]
      BY <1>0, <3>1, SetTaskEffect DEF TasksTyped
    <3> QED
      BY <1>0, <3>1, <3>2 DEF JudgeMove
  <2>5. CASE CommitDecision(k) \/ CommitNarration(k) \/ ClaimDecision(k)
    <3>1. k[1] # "adjudicating" /\ verdict' = verdict /\ \E st \in {"claimed", "committed"} : SetTask(k, st)
      BY <2>5 DEF CommitDecision, CommitNarration, CommitReference, ClaimDecision
    <3>2. \A o \in TaskIds : o # k => task'[o] = task[o]
      BY <1>0, <3>1, SetTaskEffect DEF TasksTyped
    <3> QED
      BY <1>0, <3>1, <3>2 DEF JudgeMove
  <2>6. CASE CommitCompanion(k)
    <3>1. verdict' = verdict /\ task[k].st = "claimed" /\ SetTask(k, "committed")
      BY <2>6 DEF CommitCompanion
    <3>2. task'[k].st = "committed" /\ task'[k].n = task[k].n /\ \A o \in TaskIds : o # k => task'[o] = task[o]
      BY <1>0, <3>1, SetTaskEffect DEF TasksTyped
    <3> QED
      BY <1>0, <3>1, <3>2 DEF JudgeMove
  <2> QED
    BY <1>2, <2>1, <2>2, <2>3, <2>4, <2>5, <2>6 DEF TaskStep
<1>3. CASE WatcherStep
  BY <1>3, <1>u DEF WatcherStep, RecordLoopFailure, HandleFailure, ExhaustCompanion, turnVars
<1>4. CASE Crash \/ Restart
  <2>1. task' = [k \in TaskIds |-> Redelivered(task[k])] /\ verdict' = verdict
    BY <1>4 DEF Crash, Restart, Down, turnVars
  <2>2. \A k \in TaskIds : task'[k] = Redelivered(task[k])
    BY <2>1
  <2>3. \A k \in TaskIds : task[k].st \notin {"running", "claimed", "committed"} => task'[k] = task[k]
    BY <2>2 DEF Redelivered
  <2>4. \A k \in TaskIds : JudgeMove(k)
    BY <1>r, <2>2, <2>3 DEF JudgeMove
  <2> QED
    BY <1>0, <2>1, <2>4
<1>5. CASE EvaluateRules \/ BootStep
  <2>1. UNCHANGED <<task, verdict>>
    BY <1>5 DEF EvaluateRules, BootStep, StartRules, ReadStageQueues, ReadTaskQueue, ReconcileTurn,
       RepublishTrigger, Abandon, StartStages, agentVars, turnVars
  <2> QED
    BY <1>u, <2>1
<1> QED
  BY <1>1, <1>2, <1>3, <1>4, <1>5 DEF Next

(* Judgments are counted by the deliveries of their task; with two at most *)
(* the second is final, and a final one is never replaced.                 *)
LEMMA JudgeStep ==
  ASSUME MaxDeliver <= 2, LoopTyped, TaskInv, JudgeInv, Next
  PROVE  /\ JudgeInv'
         /\ verdict # None /\ Final => Final' /\ verdict' = verdict
         /\ verdict # None /\ verdict' # verdict => Final'
<1>0. TasksTyped /\ \A k \in JudgeIds : k \in TaskIds /\ task[k].n \in Nat /\ task[k].n <= MaxDeliver
  BY TypedIsParts, TaskCounts DEF JudgeIds
<1>t. \A k \in JudgeIds : task[k].st = "none" => task[k].n = 0
  BY <1>0 DEF TasksTyped
<1>m. \A k \in JudgeIds : JudgeMove(k)
  BY JudgeMoves
<1>i. \A k \in JudgeIds : task[k].st \in {"running", "claimed", "committed"} => task[k].n >= 1
  BY DEF JudgeInv
<1>j. verdict # None =>
        \A k \in JudgeIds : (task[k].st = "queued" => task[k].n >= 1) /\ (task[k].st = "running" => task[k].n >= 2)
  BY DEF JudgeInv
<1>o. ASSUME verdict' # verdict
      PROVE  \E k \in JudgeIds : /\ task[k].st = "running" /\ task'[k].st = "committed" /\ task'[k].n = task[k].n
                                 /\ \A o \in JudgeIds : o # k => task'[o] = task[o] /\ task[o].st \in {"none", "done"}
  <2>1. PICK k \in JudgeIds : /\ task[k].st = "running" /\ task'[k].st = "committed" /\ task'[k].n = task[k].n
                              /\ \A o \in JudgeIds : o # k => task'[o] = task[o]
    BY <1>o, JudgeMoves
  <2>2. \A o \in JudgeIds : o # k => o \notin Unfinished
    BY <1>0, <2>1, OneJudge DEF Unfinished
  <2>3. \A o \in JudgeIds : task[o].st \in {"none", "queued", "running", "claimed", "committed", "done"}
    BY <1>0 DEF TasksTyped, TaskStates
  <2>4. \A o \in JudgeIds : o # k => task[o].st \in {"none", "done"}
    BY <1>0, <2>2, <2>3 DEF Unfinished
  <2> QED
    BY <2>1, <2>4
<1>1. ASSUME NEW k \in JudgeIds, task'[k].st \in {"running", "claimed", "committed"}
      PROVE  task'[k].n >= 1
  BY <1>0, <1>1, <1>i, <1>m DEF JudgeMove
<1>2. ASSUME verdict' # None, NEW k \in JudgeIds
      PROVE  (task'[k].st = "queued" => task'[k].n >= 1) /\ (task'[k].st = "running" => task'[k].n >= 2)
  <2>1. CASE verdict' = verdict
    <3>1. verdict # None /\ task[k].n \in Nat /\ JudgeMove(k)
      BY <1>0, <1>2, <1>m, <2>1
    <3>2. /\ task[k].st \in {"running", "claimed", "committed"} => task[k].n >= 1
          /\ task[k].st = "queued" => task[k].n >= 1
          /\ task[k].st = "running" => task[k].n >= 2
      BY <1>i, <1>j, <3>1
    <3> QED
      BY <3>1, <3>2 DEF JudgeMove
  <2>2. CASE verdict' # verdict
    BY <1>o, <2>2
  <2> QED
    BY <2>1, <2>2
<1>3. ASSUME verdict # None, Final
      PROVE  Final' /\ verdict' = verdict
  <2>1. verdict' = verdict
    BY <1>3, <1>o DEF Final
  <2>2. ASSUME NEW k \in JudgeIds
        PROVE  task'[k].st \in {"none", "done"} \/ (task'[k].st \in {"claimed", "committed"} /\ task'[k].n >= MaxDeliver)
    <3>1. task[k].st \in {"none", "done"} \/ (task[k].st \in {"claimed", "committed"} /\ task[k].n >= MaxDeliver)
      BY <1>3 DEF Final
    <3> QED
      BY <1>0, <1>3, <1>m, <3>1, BoundsAreNat DEF JudgeMove
  <2> QED
    BY <2>1, <2>2 DEF Final
<1>4. ASSUME verdict # None, verdict' # verdict
      PROVE  Final'
  <2>1. PICK k \in JudgeIds : /\ task[k].st = "running" /\ task'[k].st = "committed" /\ task'[k].n = task[k].n
                              /\ \A o \in JudgeIds : o # k => task'[o] = task[o] /\ task[o].st \in {"none", "done"}
    BY <1>4, <1>o
  <2>2. task'[k].n >= MaxDeliver
    BY <1>0, <1>4, <1>j, <2>1, BoundsAreNat
  <2> QED
    BY <2>1, <2>2 DEF Final
<1> QED
  BY <1>1, <1>2, <1>3, <1>4 DEF JudgeInv

LEMMA QueueNat ==
  /\ LoopTyped => \A s \in StagePhases : queue[s] \in Nat
  /\ LoopTyped' => \A s \in StagePhases : queue'[s] \in Nat
BY SubjectNames, BoundsAreNat DEF LoopTyped, TypeOK

LEMMA LateNames ==
  /\ Late \subseteq StagePhases /\ "resolving" \in StagePhases /\ "applying" \in Late
  /\ "resolving" \notin Late /\ "failed" \notin Late /\ "adjudicating" \notin Late
BY DEF Late, StagePhases

(* Without a roll, the effector gets its trigger only from a judgment that *)
(* declined the dice, while the turn is adjudicated ...                    *)
LEMMA StaysNotLate ==
  ASSUME LoopTyped, LoopTyped', Next, NotLate, roll = None,
         Past \/ verdict' # verdict \/ (verdict \in Verdicts /\ RequiresRoll[verdict])
  PROVE  NotLate'
<1>1. ASSUME NEW s \in Late, queue'[s] > 0
      PROVE  FALSE
  <2>1. s \in StagePhases /\ ~(queue[s] > 0)
    BY LateNames DEF NotLate
  <2>2. UNCHANGED turnVars /\ phase = "adjudicating" /\ verdict \in Verdicts /\ ~RequiresRoll[verdict]
    BY <1>1, <2>1, LateTriggers DEF NotLate
  <2> QED
    BY <2>2 DEF Past, Early, turnVars
<1>2. phase' \notin Late
  <2>1. \A s \in Late : ~(queue[s] > 0)
    BY DEF NotLate
  <2> QED
    BY <2>1, LateNames, TurnMoves, EnteringHasTrigger DEF NotLate, EntersPhase
<1> QED
  BY <1>1, <1>2, QueueNat, LateNames DEF NotLate

(* ... and the resolver its own only from one that asked for them.         *)
LEMMA StaysUndiced ==
  ASSUME LoopTyped, LoopTyped', Next, queue["resolving"] = 0, phase # "resolving",
         Past \/ verdict' # verdict \/ (verdict \in Verdicts /\ ~RequiresRoll[verdict])
  PROVE  queue'["resolving"] = 0 /\ phase' # "resolving"
<1>1. ASSUME queue'["resolving"] > 0
      PROVE  FALSE
  <2>1. UNCHANGED turnVars /\ phase = "adjudicating" /\ verdict \in Verdicts /\ RequiresRoll[verdict]
    BY <1>1, LateNames, LateTriggers
  <2> QED
    BY <2>1 DEF Past, Early, turnVars
<1>2. phase' # "resolving"
  BY LateNames, TurnMoves, EnteringHasTrigger DEF EntersPhase
<1>3. queue'["resolving"] \in Nat
  BY LateNames, QueueNat
<1> QED
  BY <1>1, <1>2, <1>3

(* What the resolver or the effector read when it goes on to its write.    *)
LEMMA CommitMoves ==
  ASSUME LoopTyped, Next, NEW s \in {"resolving", "applying"}, worker'[s].pc = "commit", worker[s].pc # "commit"
  PROVE  /\ worker[s].pc = "body" /\ queue[s] > 0 /\ worker'[s].v = verdict
         /\ verdict \in Verdicts /\ UNCHANGED turnVars
         /\ \A o \in StagePhases : queue'[o] = queue[o] /\ (o # s => worker'[o] = worker[o])
         /\ s = "resolving" => RequiresRoll[verdict] /\ roll = None
         /\ s = "applying" => (RequiresRoll[verdict] = (roll # None))
<1>1. s \in Subjects /\ \A o \in StagePhases : o \in Subjects
  BY SubjectNames DEF Subjects, StagePhases
<1>2. Others(s) /\ Placed(s) /\ worker'[s] # Idle
  BY <1>1, WorkerMoves, IdleTyped
<1>3. worker[s].pc = "body" => queue[s] > 0
  BY <1>1 DEF LoopTyped, TypeOK
<1> QED
  BY <1>1, <1>2, <1>3 DEF Others, Placed

LEMMA DiceStep ==
  ASSUME MaxDeliver <= 2
  PROVE  LoopTyped /\ LoopTyped' /\ RecordInv /\ TaskInv /\ JudgeInv /\ EarlyInv /\ DiceInv /\ Next => DiceInv'
<1> SUFFICES ASSUME LoopTyped, LoopTyped', RecordInv, TaskInv, JudgeInv, EarlyInv, DiceInv, Next
             PROVE  DiceInv'
  OBVIOUS
<1>j. /\ verdict # None /\ Final => Final' /\ verdict' = verdict
      /\ verdict # None /\ verdict' # verdict => Final'
  BY JudgeStep
<1>m. /\ verdict' = verdict \/ verdict' \in Verdicts
      /\ batch' = batch \/ (batch' \in Verdicts /\ worker["applying"].pc = "commit" /\ batch' = worker["applying"].v)
      /\ roll' = roll \/ (roll' \in Verdicts /\ worker["resolving"].pc = "commit")
      /\ verdict' # verdict => phase' = phase
  BY TurnMoves
<1>n. None \notin Verdicts /\ verdict \in Verdicts \cup {None}
  BY LoopAssumption DEF LoopTyped, TypeOK
<1>r. roll # None => roll' # None
  BY <1>m, <1>n
<1>c. \A s \in {"resolving", "applying"} : worker[s].pc # "idle" => queue[s] > 0
  BY SubjectNames, LateNames DEF LoopTyped, TypeOK
<1>p. DiceReached => Past
  BY DEF EarlyInv
<1>d0. verdict = None => /\ roll = None /\ batch = None
                         /\ worker["resolving"].pc # "commit" /\ worker["applying"].pc # "commit"
  BY DEF DiceInv
<1>d1. verdict # None /\ ~Final /\ RequiresRoll[verdict] => roll # None \/ NotLate
  BY DEF DiceInv
<1>d2. verdict # None /\ ~Final /\ ~RequiresRoll[verdict] => roll = None /\ queue["resolving"] = 0 /\ phase # "resolving"
  BY DEF DiceInv
<1>d3. worker["resolving"].pc = "commit" => roll # None \/ NotLate \/ (Final /\ verdict # None /\ RequiresRoll[verdict])
  BY DEF DiceInv
<1>d4. \A v \in Verdicts : Effected(v) => IF RequiresRoll[v] THEN roll # None ELSE Unrolled
  BY DEF DiceInv
<1>1. ASSUME verdict' = None
      PROVE  roll' = None /\ batch' = None /\ \A s \in {"resolving", "applying"} : worker'[s].pc # "commit"
  <2>1. verdict = None
    BY <1>1, <1>m, <1>n
  <2>2. roll' = None /\ batch' = None
    BY <1>d0, <1>m, <2>1
  <2>3. \A s \in {"resolving", "applying"} : worker'[s].pc # "commit"
    BY <1>d0, <1>n, <2>1, CommitMoves
  <2> QED
    BY <2>2, <2>3
<1>2. ASSUME verdict' # None, ~Final'
      PROVE  IF RequiresRoll[verdict'] THEN roll' # None \/ NotLate'
             ELSE roll' = None /\ queue'["resolving"] = 0 /\ phase' # "resolving"
  <2>1. CASE verdict # None
    <3>1. ~Final /\ verdict' = verdict /\ verdict \in Verdicts
      BY <1>2, <1>j, <1>n, <2>1
    <3>2. CASE RequiresRoll[verdict]
      <4>1. CASE roll # None
        BY <1>r, <3>1, <3>2, <4>1
      <4>2. CASE roll = None
        <5>1. NotLate
          BY <1>d1, <2>1, <3>1, <3>2, <4>2
        <5>2. NotLate'
          BY <3>1, <3>2, <4>2, <5>1, StaysNotLate
        <5> QED
          BY <3>1, <3>2, <5>2
      <4> QED
        BY <4>1, <4>2
    <3>3. CASE ~RequiresRoll[verdict]
      <4>1. roll = None /\ queue["resolving"] = 0 /\ phase # "resolving"
        BY <1>d2, <2>1, <3>1, <3>3
      <4>2. queue'["resolving"] = 0 /\ phase' # "resolving"
        BY <3>1, <3>3, <4>1, StaysUndiced
      <4>3. roll' = None
        BY <1>c, <1>m, <4>1
      <4> QED
        BY <3>1, <3>3, <4>2, <4>3
    <3> QED
      BY <3>2, <3>3
  <2>2. CASE verdict = None
    <3>1. verdict' # verdict
      BY <1>2, <2>2
    <3>2. NotLate /\ queue["resolving"] = 0 /\ phase # "resolving"
      <4>1. ~Backed("resolving") /\ \A s \in Late : ~Backed(s)
        BY <2>2 DEF Backed, Late
      <4> QED
        BY <4>1, QueueNat, LateNames DEF RecordInv, NotLate
    <3>3. NotLate'
      BY <1>d0, <2>2, <3>1, <3>2, StaysNotLate
    <3>4. queue'["resolving"] = 0 /\ phase' # "resolving"
      BY <3>1, <3>2, StaysUndiced
    <3>5. roll' = None
      BY <1>d0, <1>m, <2>2
    <3> QED
      BY <3>3, <3>4, <3>5
  <2> QED
    BY <2>1, <2>2
<1>3. ASSUME worker'["resolving"].pc = "commit"
      PROVE  roll' # None \/ NotLate' \/ (Final' /\ verdict' # None /\ RequiresRoll[verdict'])
  <2>1. CASE worker["resolving"].pc = "commit"
    <3>1. Past
      BY <1>p, <2>1 DEF DiceReached
    <3>2. CASE roll # None
      BY <1>r, <3>2
    <3>3. CASE NotLate /\ roll = None
      BY <3>1, <3>3, StaysNotLate
    <3>4. CASE Final /\ verdict # None /\ RequiresRoll[verdict]
      BY <1>j, <3>4
    <3> QED
      BY <1>d3, <2>1, <3>2, <3>3, <3>4
  <2>2. CASE worker["resolving"].pc # "commit"
    <3>1. /\ verdict \in Verdicts /\ UNCHANGED turnVars /\ RequiresRoll[verdict] /\ roll = None
          /\ \A o \in StagePhases : queue'[o] = queue[o]
      BY <1>3, <2>2, CommitMoves
    <3>2. UNCHANGED <<verdict, phase>> /\ verdict # None
      BY <1>n, <3>1 DEF turnVars
    <3>3. CASE Final
      BY <1>j, <3>1, <3>2, <3>3
    <3>4. CASE ~Final
      <4>1. NotLate
        BY <1>d1, <3>1, <3>2, <3>4
      <4> QED
        BY <3>1, <3>2, <4>1, LateNames DEF NotLate
    <3> QED
      BY <3>3, <3>4
  <2> QED
    BY <2>1, <2>2
<1>4. ASSUME NEW v \in Verdicts, Effected(v)'
      PROVE  IF RequiresRoll[v] THEN roll' # None ELSE Unrolled'
  <2>1. CASE Effected(v)
    <3>1. CASE RequiresRoll[v]
      BY <1>d4, <1>r, <2>1, <3>1
    <3>2. CASE ~RequiresRoll[v]
      <4>1. /\ roll = None /\ worker["resolving"].pc # "commit"
            /\ \/ Final /\ verdict # None /\ ~RequiresRoll[verdict]
               \/ queue["resolving"] = 0 /\ phase # "resolving"
        BY <1>d4, <2>1, <3>2 DEF Unrolled
      <4>2. roll' = None
        BY <1>m, <4>1
      <4>3. worker'["resolving"].pc # "commit"
        BY <4>1, CommitMoves
      <4>4. Past
        BY <1>n, <1>p, <2>1 DEF DiceReached, Effected
      <4>5. \/ Final' /\ verdict' # None /\ ~RequiresRoll[verdict']
            \/ queue'["resolving"] = 0 /\ phase' # "resolving"
        BY <1>j, <4>1, <4>4, StaysUndiced
      <4> QED
        BY <3>2, <4>2, <4>3, <4>5 DEF Unrolled
    <3> QED
      BY <3>1, <3>2
  <2>2. CASE ~Effected(v)
    <3>0. worker'["applying"].pc = "commit" /\ worker'["applying"].v = v /\ worker["applying"].pc # "commit"
      <4>1. batch' # v
        BY <1>4, <1>m, <2>2 DEF Effected
      <4>2. worker'["applying"].pc = "commit" /\ worker'["applying"].v = v
        BY <1>4, <4>1 DEF Effected
      <4>3. worker["applying"].pc # "commit"
        <5> SUFFICES ASSUME worker["applying"].pc = "commit"
                     PROVE  FALSE
          OBVIOUS
        <5>1. "applying" \in Subjects /\ "applying" \notin Barriers
          BY SubjectNames, LateNames
        <5>2. worker'["applying"] # worker["applying"]
          BY <2>2, <4>2 DEF Effected
        <5>3. Placed("applying") /\ worker'["applying"] # Idle
          BY <4>2, <5>1, <5>2, WorkerMoves, IdleTyped
        <5> QED
          BY <4>2, <5>3 DEF Placed
      <4> QED
        BY <4>2, <4>3
    <3>1. /\ queue["applying"] > 0 /\ verdict = v /\ UNCHANGED turnVars
          /\ \A o \in StagePhases : queue'[o] = queue[o] /\ (o # "applying" => worker'[o] = worker[o])
          /\ RequiresRoll[verdict] = (roll # None)
      BY <3>0, CommitMoves
    <3>2. UNCHANGED <<roll, verdict, phase>> /\ verdict # None
      BY <1>n, <3>1 DEF turnVars
    <3>3. CASE RequiresRoll[v]
      BY <3>1, <3>2, <3>3
    <3>4. CASE ~RequiresRoll[v]
      <4>1. roll = None /\ roll' = None
        BY <3>1, <3>2, <3>4
      <4>2. worker'["resolving"].pc # "commit"
        <5>1. worker'["resolving"] = worker["resolving"]
          BY <3>1, LateNames
        <5>2. ~NotLate
          BY <3>1, LateNames, QueueNat DEF NotLate
        <5> QED
          BY <1>d3, <3>1, <3>4, <4>1, <5>1, <5>2
      <4>3. \/ Final' /\ verdict' # None /\ ~RequiresRoll[verdict']
            \/ queue'["resolving"] = 0 /\ phase' # "resolving"
        BY <1>d2, <1>j, <3>1, <3>2, <3>4, LateNames
      <4> QED
        BY <3>4, <4>1, <4>2, <4>3 DEF Unrolled
    <3> QED
      BY <3>3, <3>4
  <2> QED
    BY <2>1, <2>2
<1> QED
  BY <1>1, <1>2, <1>3, <1>4 DEF DiceInv

(* The world and the dice agree, whatever a second judgment says: the      *)
(* AGENT stream delivers an adjudication twice at most.  A third delivery  *)
(* breaks it.                                                              *)
THEOREM EffectsFollowDice == ASSUME MaxDeliver <= 2 PROVE Spec => []EffectsAgreeWithDice
<1>1. Init => JudgeInv /\ DiceInv /\ RecordInv
  <2> SUFFICES ASSUME Init
               PROVE  JudgeInv /\ DiceInv /\ RecordInv
    OBVIOUS
  <2>1. \A s \in Subjects : queue[s] = 0 /\ worker[s].pc = "idle"
    BY IdleTyped DEF Init
  <2>2. "resolving" \in Subjects /\ "applying" \in Subjects
    BY SubjectNames, LateNames
  <2>3. \A k \in TaskIds : task[k].st = "none"
    BY DEF Init, Unpublished
  <2>4. JudgeInv
    BY <2>3 DEF JudgeInv, JudgeIds, Init
  <2>5. DiceInv
    BY <2>1, <2>2, LoopAssumption DEF DiceInv, Effected, Init
  <2>6. RecordInv
    BY <2>1, SubjectNames DEF Init, RecordInv, Backed, StagesOwedBy
  <2> QED
    BY <2>4, <2>5, <2>6
<1>2. LoopTyped /\ TaskInv /\ JudgeInv /\ [Next]_vars => JudgeInv'
  BY JudgeStep DEF JudgeInv, vars, turnVars, agentVars
<1>3. LoopTyped /\ LoopTyped' /\ RecordInv /\ TaskInv /\ JudgeInv /\ EarlyInv /\ DiceInv /\ [Next]_vars => DiceInv'
  <2>1. ASSUME DiceInv, UNCHANGED vars
        PROVE  DiceInv'
    BY <2>1 DEF DiceInv, Effected, Unrolled, NotLate, Final, vars, turnVars, agentVars
  <2> QED
    BY <2>1, DiceStep
<1>4. LoopTyped /\ DiceInv => EffectsAgreeWithDice
  BY DEF LoopTyped, TypeOK, DiceInv, Effected, Unrolled, EffectsAgreeWithDice
<1> QED
  BY <1>1, <1>2, <1>3, <1>4, LoopInitTyped, LoopStepTyped, RecordStep, TaskInvInit, TaskInvStep, EarlyInit, EarlyStep, PTL
     DEF Spec

-----------------------------------------------------------------------------
(* While nothing fails: the turn goes from hand to hand.                   *)

(* The rule that moves a turn out of a phase, and the stage it starts.     *)
Due(p, v) == CASE p = "accepted"     -> "accepted"
               [] p = "interpreting" -> "interpreted"
               [] p = "adjudicating" -> IF v # None /\ RequiresRoll[v] THEN "roll" ELSE "no-roll"
               [] p = "resolving"    -> "rolled"
               [] p = "applying"     -> "applied"
               [] p = "companion"    -> "accompanied"
               [] OTHER              -> "narrated"
Successor(p, v) == CASE p = "accepted"     -> "interpreting"
                     [] p = "interpreting" -> "adjudicating"
                     [] p = "adjudicating" -> IF v # None /\ RequiresRoll[v] THEN "resolving" ELSE "applying"
                     [] p = "resolving"    -> "applying"
                     [] p = "applying"     -> "companion"
                     [] p = "companion"    -> "narrating"
                     [] OTHER              -> "complete"
RulePhase(r) == CASE r = "accepted"                -> "accepted"
                  [] r = "interpreted"             -> "interpreting"
                  [] r \in {"roll", "no-roll"}     -> "adjudicating"
                  [] r = "rolled"                  -> "resolving"
                  [] r \in {"progress", "applied"} -> "applying"
                  [] r = "accompanied"             -> "companion"
                  [] OTHER                         -> "narrating"

(* Who has the turn: a stage whose trigger waits, whose persona works or   *)
(* whose loop has failed; and who should: the stage of the phase until its *)
(* artifact is there, then the stage the phase's rule has started.         *)
Judged(s) == <<s, 0>>
Working(s) == s \in Spawning /\ task[Judged(s)].st \in {"queued", "running", "claimed"}
Lost(s) == \E e \in failures : e[1] = s
Carries(s) == queue[s] > 0 \/ Working(s) \/ Lost(s)
Expected(s) == /\ phase \notin TerminalPhases
               /\ \/ s = phase /\ ~Artifact(phase)
                  \/ Due(phase, verdict) \in matched /\ s = Successor(phase, verdict)

(* While nothing has failed, exactly the expected stage has the turn ...   *)
TokenInv == \A s \in StagePhases : Carries(s) <=> Expected(s)

(* ... in one of the three ways; a consumer between its read of the phase  *)
(* and its write finds the phase as it read it ...                         *)
StageCalm(s) ==
  /\ queue[s] \in {0, 1}
  /\ worker[s].pc = "enter" => phase \in Predecessors[s] /\ phase \notin TerminalPhases
  /\ worker[s].pc \in {"body", "commit", "fail"} => phase = s
PersonaCalm(s) ==
  /\ queue[s] > 0 => task[Judged(s)].st = "none" /\ ~Lost(s)
  /\ Lost(s) => task[Judged(s)].st = "done"
  /\ Working(s) \/ Lost(s) => phase = s
  /\ task[Judged(s)].st # "none" => Rank[s] <= Rank[phase]
  /\ task[Judged(s)].st = "claimed" => s = "companion"
WorkInv ==
  /\ boot = "up" /\ attempts = 0
  /\ \A s \in StagePhases : StageCalm(s)
  /\ \A s \in Spawning : PersonaCalm(s)
  /\ \A e, f \in failures : e = f
  /\ watcher # None => watcher \in failures
  /\ \A b \in Barriers : worker[b].pc # "fail"

(* ... no artifact is ahead of the phase, and the rules have seen what has *)
(* been written, or will ...                                               *)
RulesInv ==
  /\ \A s \in StagePhases : Artifact(s) => Rank[s] <= Rank[phase]
  /\ \A r \in matched : Rank[RulePhase(r)] <= Rank[phase] /\ (RulePhase(r) = phase => Matches(r))
  /\ ~dirty => matched = {r \in Rules : Matches(r)}

(* ... and a barrier that was started has landed its fact or will.         *)
BarrierInv ==
  /\ phase \in {"adjudicating", "resolving", "applying"} \/ "interpreted" \in matched =>
       \A b \in {"knowledge", "accusation"} : b \in facts \/ queue[b] > 0
  /\ "progress" \in matched => "case-progress" \in facts \/ queue["case-progress"] > 0

Calm == TokenInv /\ WorkInv /\ RulesInv /\ BarrierInv

-----------------------------------------------------------------------------
LEMMA Ranks ==
  /\ Rank["accepted"] = 0 /\ Rank["interpreting"] = 1 /\ Rank["adjudicating"] = 2 /\ Rank["resolving"] = 3
  /\ Rank["applying"] = 4 /\ Rank["companion"] = 5 /\ Rank["narrating"] = 6 /\ Rank["complete"] = 7
  /\ Rank["failed"] = 7
BY DEF Rank, Phases

LEMMA RankBound == \A p \in Phases : Rank[p] \in 0 .. 7
BY Ranks DEF Phases

LEMMA Hops ==
  ASSUME NEW p \in Phases \ TerminalPhases, NEW v
  PROVE  /\ Successor(p, v) \in StagePhases /\ Successor(p, v) # p
         /\ p \in Predecessors[Successor(p, v)]
         /\ Rank[p] < Rank[Successor(p, v)]
         /\ Due(p, v) \in Rules /\ RulePhase(Due(p, v)) = p
         /\ Successor(p, v) \in Publishes[Due(p, v)]
<1>1. p \in {"accepted", "interpreting", "adjudicating", "resolving", "applying", "companion", "narrating"}
  BY DEF Phases, TerminalPhases
<1>2. Successor(p, v) \in StagePhases /\ Successor(p, v) # p /\ p \in Predecessors[Successor(p, v)]
  BY <1>1, PredecessorsAre DEF Successor, StagePhases
<1>3. Rank[p] < Rank[Successor(p, v)]
  BY <1>1, Ranks DEF Successor
<1>4. Due(p, v) \in Rules /\ RulePhase(Due(p, v)) = p
  BY <1>1 DEF Due, RulePhase, Rules
<1>5. Successor(p, v) \in Publishes[Due(p, v)]
  BY <1>1 DEF Due, Successor, Publishes, Rules
<1> QED BY <1>2, <1>3, <1>4, <1>5

(* What a matching rule says of the turn.                                  *)
LEMMA MatchMeans ==
  ASSUME NEW r \in Rules, Matches(r)
  PROVE  /\ RulePhase(r) = phase /\ phase \notin TerminalPhases
         /\ r = "progress" \/ (r = Due(phase, verdict) /\ Publishes[r] \subseteq {Successor(phase, verdict)} \cup Barriers)
         /\ phase \in StagePhases => Artifact(phase)
         /\ Publishes["progress"] = {"case-progress"}
<1>1. r \in {"accepted", "interpreted", "roll", "no-roll", "rolled", "progress", "applied", "accompanied", "narrated"}
  BY DEF Rules
<1>2. RulePhase(r) = phase /\ phase \notin TerminalPhases
  BY <1>1 DEF Matches, RulePhase, TerminalPhases
<1>3. r = "progress" \/ r = Due(phase, verdict)
  BY <1>1 DEF Matches, Due
<1>4. r # "progress" => Publishes[r] \subseteq {Successor(phase, verdict)} \cup Barriers
  BY <1>1 DEF Matches, Successor, Publishes, Barriers, Rules
<1>5. phase \in StagePhases => Artifact(phase)
  BY <1>1 DEF Matches, Artifact, StagePhases
<1> QED BY <1>2, <1>3, <1>4, <1>5 DEF Publishes, Rules

(* At most one stage is expected to have the turn.                         *)
LEMMA OneExpected ==
  ASSUME RulesInv, phase \in Phases, matched \subseteq Rules, NEW s \in StagePhases, NEW o \in StagePhases,
         Expected(s), Expected(o)
  PROVE  s = o
<1>1. phase \in Phases \ TerminalPhases
  BY DEF Expected
<1>2. Due(phase, verdict) \in matched /\ phase \in StagePhases => Artifact(phase)
  <2>1. Due(phase, verdict) \in Rules /\ RulePhase(Due(phase, verdict)) = phase
    BY <1>1, Hops
  <2> QED BY <2>1, MatchMeans DEF RulesInv
<1> QED BY <1>2 DEF Expected

LEMMA TypeFacts ==
  ASSUME LoopTyped
  PROVE  /\ phase \in Phases /\ matched \subseteq Rules /\ task \in [TaskIds -> TaskStates]
         /\ \A e \in failures : e \in Spawning \X {"cap", "loop"} /\ e[1] \in Spawning
         /\ \A s \in Subjects : queue[s] \in Nat /\ worker[s].pc \in Pcs /\ (worker[s].pc # "idle" => queue[s] > 0)
         /\ \A s \in StagePhases : s \in Subjects /\ s \in Phases
         /\ \A s \in Spawning : s \in StagePhases /\ Judged(s) \in TaskIds /\ task[Judged(s)] \in TaskStates
         /\ \A s \in StagePhases : Lost(s) => s \in Spawning
<1>1. TypeOK
  BY DEF LoopTyped
<1>2. phase \in Phases /\ matched \subseteq Rules
  BY <1>1 DEF TypeOK, Rules
<1>3. task \in [TaskIds -> TaskStates] /\ \A s \in Subjects : queue[s] \in Nat /\ worker[s].pc \in Pcs
  BY <1>1, TypeParts, BoundsAreNat
<1>4. \A s \in Subjects : worker[s].pc # "idle" => queue[s] > 0
  BY <1>1 DEF TypeOK
<1>5. \A e \in failures : e \in Spawning \X {"cap", "loop"} /\ e[1] \in Spawning
  BY <1>1 DEF TypeOK
<1>6. \A s \in Spawning : Judged(s) \in TaskIds
  BY BoundsAreNat DEF Judged, TaskIds, Attempts
<1>7. \A s \in StagePhases : Lost(s) => s \in Spawning
  BY <1>5 DEF Lost
<1> QED BY <1>2, <1>3, <1>4, <1>5, <1>6, <1>7, SubjectNames

(* Only one stage has the turn, and it is the expected one.                *)
LEMMA Alone ==
  ASSUME LoopTyped, Calm, NEW s \in StagePhases, Carries(s)
  PROVE  /\ Expected(s) /\ phase \in Phases \ TerminalPhases
         /\ \A o \in StagePhases : o # s => ~Carries(o) /\ queue[o] = 0 /\ worker[o].pc = "idle"
<1>1. Expected(s) /\ phase \in Phases \ TerminalPhases
  BY TypeFacts DEF Calm, TokenInv, Expected
<1>2. ASSUME NEW o \in StagePhases, o # s PROVE ~Carries(o)
  BY <1>1, <1>2, TypeFacts, OneExpected DEF Calm, TokenInv
<1>3. ASSUME NEW o \in StagePhases, o # s PROVE queue[o] = 0 /\ worker[o].pc = "idle"
  <2>1. ~(queue[o] > 0) /\ queue[o] \in Nat
    BY <1>2, <1>3, TypeFacts DEF Carries
  <2> QED BY <2>1, <1>3, TypeFacts
<1> QED BY <1>1, <1>2, <1>3

(* A stage at work is the stage of the phase, whose artifact is due.       *)
LEMMA AtWork ==
  ASSUME LoopTyped, Calm, NEW s \in StagePhases, worker[s].pc \in {"body", "commit", "fail"}
  PROVE  /\ phase = s /\ s \notin TerminalPhases /\ ~Artifact(s) /\ Carries(s)
         /\ queue[s] = 1 /\ ~Working(s) /\ ~Lost(s)
         /\ s \in Spawning => task[Judged(s)].st = "none"
<1>1. queue[s] > 0 /\ queue[s] = 1 /\ phase = s
  BY TypeFacts DEF Calm, WorkInv, StageCalm
<1>2. Carries(s) /\ Expected(s) /\ phase \in Phases \ TerminalPhases
  BY <1>1, Alone DEF Carries
<1>3. ~Artifact(s)
  BY <1>1, <1>2, Hops DEF Expected
<1>4. s \in Spawning => task[Judged(s)].st = "none" /\ ~Lost(s)
  BY <1>1 DEF Calm, WorkInv, PersonaCalm
<1> QED BY <1>1, <1>2, <1>3, <1>4, TypeFacts DEF Working

(* So is the stage of a persona that works, or has failed.                 *)
LEMMA AtLoop ==
  ASSUME LoopTyped, Calm, NEW s \in Spawning, Working(s) \/ Lost(s)
  PROVE  /\ phase = s /\ s \in StagePhases /\ s \notin TerminalPhases /\ ~Artifact(s) /\ Carries(s)
         /\ queue[s] = 0 /\ worker[s].pc = "idle" /\ ~(Working(s) /\ Lost(s))
<1>1. s \in StagePhases /\ phase = s
  BY TypeFacts DEF Calm, WorkInv, PersonaCalm
<1>2. Carries(s) /\ Expected(s) /\ phase \in Phases \ TerminalPhases
  BY <1>1, Alone DEF Carries
<1>3. ~Artifact(s)
  BY <1>1, <1>2, Hops DEF Expected
<1>4. ~(queue[s] > 0) /\ ~(Working(s) /\ Lost(s))
  BY DEF Calm, WorkInv, PersonaCalm, Working
<1>5. queue[s] = 0 /\ worker[s].pc = "idle"
  BY <1>1, <1>4, TypeFacts
<1> QED BY <1>1, <1>2, <1>3, <1>4, <1>5

(* A stage about to enter is the one its predecessor's rule has started.   *)
LEMMA AtDoor ==
  ASSUME LoopTyped, Calm, NEW s \in StagePhases, worker[s].pc = "enter"
  PROVE  /\ phase \in Predecessors[s] /\ phase \in Phases \ TerminalPhases /\ Carries(s)
         /\ Due(phase, verdict) \in matched /\ s = Successor(phase, verdict)
         /\ queue[s] = 1 /\ ~Working(s) /\ ~Lost(s)
         /\ s \in Spawning => task[Judged(s)].st = "none"
<1>1. queue[s] > 0 /\ queue[s] = 1 /\ phase \in Predecessors[s]
  BY TypeFacts DEF Calm, WorkInv, StageCalm
<1>2. Carries(s) /\ Expected(s) /\ phase \in Phases \ TerminalPhases
  BY <1>1, Alone DEF Carries
<1>3. phase # s
  BY <1>1, PredecessorsAre DEF StagePhases
<1>4. s \in Spawning => task[Judged(s)].st = "none" /\ ~Lost(s)
  BY <1>1 DEF Calm, WorkInv, PersonaCalm
<1> QED BY <1>1, <1>2, <1>3, <1>4, TypeFacts DEF Working, Expected

-----------------------------------------------------------------------------
(* What a step may do to the record, and to who has the turn.              *)

SameRecord == UNCHANGED <<phase, facts, verdict, roll, matched>>
SameCarriers == \A s \in StagePhases : Carries(s)' <=> Carries(s)
NoCarrier == \A s \in StagePhases : ~Carries(s)'

LEMMA ArtifactOf ==
  /\ UNCHANGED <<verdict, roll>> /\ (\E b \in Barriers : facts' = facts \cup {b}) =>
       \A s \in StagePhases : Artifact(s)' <=> Artifact(s)
  /\ UNCHANGED <<verdict, roll, facts>> => \A s \in StagePhases : Artifact(s)' <=> Artifact(s)
BY DEF Artifact, StagePhases, Barriers

LEMMA MatchesGrow ==
  ASSUME UNCHANGED phase, facts \subseteq facts', UNCHANGED <<verdict, roll>>, NEW r \in Rules, Matches(r)
  PROVE  Matches(r)'
BY DEF Matches, Rules

LEMMA Resting ==
  ASSUME LoopTyped, Calm, SameRecord, UNCHANGED dirty, SameCarriers
  PROVE  TokenInv' /\ RulesInv'
<1>1. \A s \in StagePhases : Artifact(s)' <=> Artifact(s)
  BY ArtifactOf DEF SameRecord
<1>2. \A s \in StagePhases : Expected(s)' <=> Expected(s)
  BY DEF SameRecord, Expected, Artifact
<1>3. \A r \in Rules : Matches(r)' <=> Matches(r)
  BY DEF SameRecord, Matches
<1>4. TokenInv'
  BY <1>2 DEF SameCarriers, TokenInv, Calm
<1>5. {r \in Rules : Matches(r)}' = {r \in Rules : Matches(r)}
  BY <1>3
<1> QED BY <1>1, <1>3, <1>4, <1>5, TypeFacts DEF SameRecord, RulesInv, Calm

LEMMA FactLands ==
  ASSUME LoopTyped, Calm, NEW b \in Barriers, facts' = facts \cup {b}, dirty' = TRUE,
         UNCHANGED <<phase, verdict, roll, matched>>, SameCarriers
  PROVE  TokenInv' /\ RulesInv'
<1>1. \A s \in StagePhases : Artifact(s)' <=> Artifact(s)
  BY ArtifactOf
<1>2. \A s \in StagePhases : Expected(s)' <=> Expected(s)
  <2>1. phase \in StagePhases => (Artifact(phase)' <=> Artifact(phase))
    BY <1>1
  <2> QED BY <2>1 DEF Expected
<1>3. \A r \in Rules : Matches(r) => Matches(r)'
  BY MatchesGrow
<1>4. TokenInv'
  BY <1>2 DEF SameCarriers, TokenInv, Calm
<1> QED BY <1>1, <1>3, <1>4, TypeFacts DEF RulesInv, Calm

LEMMA ArtifactLands ==
  ASSUME LoopTyped, Calm, NEW s \in StagePhases \ TerminalPhases, phase = s, ~Artifact(s), UNCHANGED <<phase, matched>>,
         dirty' = TRUE, Artifact(s)', \A o \in StagePhases : o # s => (Artifact(o)' <=> Artifact(o)), NoCarrier
  PROVE  TokenInv' /\ RulesInv'
<1>0. phase \in Phases \ TerminalPhases /\ s \in Phases
  BY TypeFacts
<1>1. \A r \in matched : RulePhase(r) # phase
  BY <1>0, TypeFacts, MatchMeans DEF Calm, RulesInv
<1>2. ASSUME NEW o \in StagePhases PROVE ~Expected(o)'
  <2>1. RulePhase(Due(phase, verdict')) = phase
    BY <1>0, Hops
  <2>2. Due(phase, verdict') \notin matched
    BY <1>1, <2>1
  <2>3. Artifact(phase)' <=> Artifact(s)'
    BY DEF Artifact
  <2> QED BY <2>2, <2>3 DEF Expected
<1>3. TokenInv'
  BY <1>2 DEF NoCarrier, TokenInv
<1>4. Rank[s] \in 0 .. 7
  BY <1>0, RankBound
<1> QED BY <1>1, <1>3, <1>4 DEF RulesInv, Calm

(* The turn ends.                                                          *)
LEMMA TurnOver ==
  ASSUME LoopTyped, Calm, phase' \in TerminalPhases, dirty' = TRUE, UNCHANGED <<facts, verdict, roll, matched>>, NoCarrier
  PROVE  TokenInv' /\ RulesInv'
<1>1. TokenInv'
  BY DEF TokenInv, NoCarrier, Expected
<1>2. Rank[phase'] = 7
  BY Ranks DEF TerminalPhases
<1>3. \A s \in StagePhases : Rank[s] <= Rank[phase']
  BY <1>2, RankBound, SubjectNames
<1>4. \A r \in Rules : RulePhase(r) # phase' /\ RulePhase(r) \in Phases
  BY DEF RulePhase, Rules, TerminalPhases, Phases
<1>5. \A r \in Rules : Rank[RulePhase(r)] <= Rank[phase']
  BY <1>2, <1>4, RankBound
<1> QED BY <1>1, <1>3, <1>4, <1>5, TypeFacts DEF RulesInv

(* Barriers are left where they are while the phase does not move ahead of *)
(* them.                                                                   *)
LEMMA BarriersRest ==
  ASSUME Calm, facts \subseteq facts', UNCHANGED matched,
         \A b \in Barriers : queue'[b] = queue[b] \/ b \in facts',
         \/ phase' = phase \/ phase' \notin {"adjudicating", "resolving", "applying"}
         \/ phase \in {"adjudicating", "resolving"} \/ "interpreted" \in matched
  PROVE  BarrierInv'
BY DEF Calm, BarrierInv, Barriers

-----------------------------------------------------------------------------
(* The work in progress.                                                   *)

Elsewhere == UNCHANGED <<watcher, boot, attempts>>

(* Consumers and personas of stages that do not have the turn.             *)
LEMMA Bystanders ==
  ASSUME LoopTyped, Calm, NEW s \in StagePhases, Carries(s), NEW o \in StagePhases, o # s
  PROVE  /\ queue[o] = 0 /\ worker[o].pc = "idle" /\ ~Working(o) /\ ~Lost(o)
         /\ o \in Spawning => task[Judged(o)].st \notin {"queued", "running", "claimed"}
BY Alone DEF Carries, Working

LEMMA ConsumerMoves ==
  ASSUME LoopTyped, Calm, NEW s \in Subjects, Others(s), UNCHANGED <<phase, task, failures>>, Elsewhere,
         s \in StagePhases => queue'[s] = queue[s] /\ StageCalm(s)',
         s \in Barriers => worker'[s].pc # "fail"
  PROVE  WorkInv' /\ SameCarriers
<1>1. \A o \in StagePhases : queue'[o] = queue[o]
  BY SubjectNames DEF Others
<1>2. SameCarriers
  BY <1>1 DEF SameCarriers, Carries, Working, Lost
<1>3. ASSUME NEW o \in StagePhases PROVE StageCalm(o)'
  <2>1. CASE o = s
    BY <2>1, <1>3
  <2>2. CASE o # s
    BY <1>3, <2>2, SubjectNames DEF Others, StageCalm, Calm, WorkInv
  <2> QED BY <2>1, <2>2
<1>4. ASSUME NEW o \in Spawning PROVE PersonaCalm(o)'
  BY <1>1, SubjectNames DEF PersonaCalm, Working, Lost, Calm, WorkInv
<1>5. \A b \in Barriers : worker'[b].pc # "fail"
  BY SubjectNames DEF Others, Calm, WorkInv
<1> QED BY <1>2, <1>3, <1>4, <1>5 DEF WorkInv, Calm, Elsewhere

(* The stage that has the turn acknowledges its trigger, and nobody has it *)
(* any more.                                                               *)
LEMMA ConsumerDone ==
  ASSUME LoopTyped, Calm, NEW s \in StagePhases, worker[s].pc # "idle", Others(s), queue'[s] = queue[s] - 1, worker'[s] = Idle,
         phase' \in Phases, Rank[phase] <= Rank[phase'], UNCHANGED <<task, failures>>, Elsewhere
  PROVE  WorkInv' /\ NoCarrier
<1>1. /\ queue[s] = 1 /\ ~Working(s) /\ ~Lost(s) /\ Carries(s)
      /\ s \in Spawning => task[Judged(s)].st = "none"
  BY AtWork, AtDoor, TypeFacts DEF Pcs
<1>2. \A o \in StagePhases : queue'[o] = 0 /\ worker'[o].pc = "idle" /\ ~Working(o) /\ ~Lost(o)
  <2>1. queue'[s] = 0 /\ worker'[s].pc = "idle"
    BY <1>1, IdleTyped
  <2>2. ASSUME NEW o \in StagePhases, o # s
        PROVE  queue'[o] = 0 /\ worker'[o].pc = "idle" /\ ~Working(o) /\ ~Lost(o)
    BY <1>1, <2>2, Bystanders, SubjectNames DEF Others
  <2> QED BY <1>1, <2>1, <2>2
<1>3. NoCarrier
  BY <1>2 DEF NoCarrier, Carries, Working, Lost
<1>4. ASSUME NEW o \in Spawning PROVE PersonaCalm(o)'
  <2>1. o \in StagePhases /\ Rank[o] \in 0 .. 7 /\ Rank[phase] \in 0 .. 7 /\ Rank[phase'] \in 0 .. 7
    BY TypeFacts, RankBound
  <2>2. ~Working(o)' /\ ~Lost(o)' /\ ~(queue'[o] > 0)
    BY <1>2, <2>1 DEF Working, Lost
  <2> QED BY <2>1, <2>2 DEF PersonaCalm, Calm, WorkInv
<1>5. \A o \in StagePhases : StageCalm(o)'
  BY <1>2 DEF StageCalm
<1>6. \A b \in Barriers : worker'[b].pc # "fail"
  BY SubjectNames DEF Others, Calm, WorkInv
<1>7. /\ \A e, f \in failures' : e = f
      /\ watcher' # None => watcher' \in failures'
      /\ boot' = "up" /\ attempts' = 0
  BY DEF Calm, WorkInv, Elsewhere
<1> QED BY <1>3, <1>4, <1>5, <1>6, <1>7 DEF WorkInv

(* The stage that has the turn hands it to a persona.                      *)
LEMMA ConsumerSpawns ==
  ASSUME LoopTyped, Calm, NEW s \in Spawning, worker[s].pc = "body", Others(s), queue'[s] = queue[s] - 1, worker'[s] = Idle,
         PublishTask(s), UNCHANGED <<phase, failures>>, Elsewhere
  PROVE  WorkInv' /\ SameCarriers
<1>0. s \in StagePhases
  BY SubjectNames
<1>1. /\ queue[s] = 1 /\ ~Working(s) /\ ~Lost(s) /\ Carries(s) /\ phase = s
      /\ task[Judged(s)].st = "none"
  BY <1>0, AtWork
<1>2. attempts = 0 /\ Judged(s) = <<s, attempts>>
  BY DEF Calm, WorkInv, Judged
<1>3. task' \in [TaskIds -> TaskStates]
  BY TypeFacts, PublishTaskEffect DEF LoopTyped, TypeOK
<1>4. task'[Judged(s)].st = "queued" /\ \A o \in Spawning : o # s => task'[Judged(o)] = task[Judged(o)]
  <2>1. \A k \in TaskIds :
              \/ task'[k] = task[k]
              \/ k = <<s, attempts>> /\ task[k].st = "none" /\ task'[k].st = "queued" /\ task'[k].n = task[k].n
    BY TypeFacts, PublishTaskEffect DEF LoopTyped, TypeOK
  <2>2. task' = [task EXCEPT ![Judged(s)].st = "queued"]
    BY <1>1, <1>2 DEF PublishTask
  <2>3. Judged(s) \in TaskIds /\ task[Judged(s)] \in TaskStates
    BY TypeFacts
  <2>4. task'[Judged(s)].st = "queued"
    BY <2>2, <2>3, TypeFacts DEF TaskStates
  <2>5. ASSUME NEW o \in Spawning, o # s PROVE task'[Judged(o)] = task[Judged(o)]
    <3>1. Judged(o) \in TaskIds /\ Judged(o) # <<s, attempts>>
      BY <2>5, TypeFacts DEF Judged
    <3> QED BY <2>1, <3>1
  <2> QED BY <2>4, <2>5
<1>5. \A o \in StagePhases : o # s => queue'[o] = queue[o] /\ worker'[o] = worker[o]
  BY SubjectNames DEF Others
<1>6. SameCarriers
  <2>1. Carries(s)'
    BY <1>4 DEF Carries, Working
  <2>2. ASSUME NEW o \in StagePhases, o # s PROVE Carries(o)' <=> Carries(o)
    BY <1>4, <1>5, <2>2 DEF Carries, Working, Lost
  <2> QED BY <1>1, <2>1, <2>2 DEF SameCarriers
<1>7. ASSUME NEW o \in StagePhases PROVE StageCalm(o)'
  <2>1. CASE o = s
    BY <1>1, <2>1, IdleTyped DEF StageCalm
  <2>2. CASE o # s
    BY <1>5, <1>7, <2>2 DEF StageCalm, Calm, WorkInv
  <2> QED BY <2>1, <2>2
<1>8. ASSUME NEW o \in Spawning PROVE PersonaCalm(o)'
  <2>1. CASE o = s
    <3>1. queue'[s] = 0 /\ ~Lost(s)' /\ Rank[s] \in 0 .. 7
      BY <1>0, <1>1, TypeFacts, RankBound DEF Lost
    <3> QED BY <1>1, <1>4, <2>1, <3>1 DEF PersonaCalm
  <2>2. CASE o # s
    BY <1>4, <1>5, <1>8, <2>2, SubjectNames DEF PersonaCalm, Calm, WorkInv, Working, Lost
  <2> QED BY <2>1, <2>2
<1>9. \A b \in Barriers : worker'[b].pc # "fail"
  BY <1>0, SubjectNames DEF Others, Calm, WorkInv
<1> QED BY <1>6, <1>7, <1>8, <1>9 DEF WorkInv, Calm, Elsewhere

(* A persona goes on ...                                                   *)
LEMMA PersonaMoves ==
  ASSUME LoopTyped, Calm, NEW s \in Spawning, \A o \in Spawning : o # s => task'[Judged(o)] = task[Judged(o)],
         \/ Working(s) /\ Working(s)' /\ (task'[Judged(s)].st = "claimed" => s = "companion")
         \/ task[Judged(s)].st = "committed" /\ task'[Judged(s)].st = "done",
         UNCHANGED <<phase, queue, worker, failures>>, Elsewhere
  PROVE  WorkInv' /\ SameCarriers
<1>1. SameCarriers
  BY DEF SameCarriers, Carries, Working, Lost
<1>2. ASSUME NEW o \in Spawning PROVE PersonaCalm(o)'
  <2>1. CASE o = s
    BY <2>1 DEF PersonaCalm, Calm, WorkInv, Working, Lost
  <2>2. CASE o # s
    BY <1>2, <2>2 DEF PersonaCalm, Calm, WorkInv, Working, Lost
  <2> QED BY <2>1, <2>2
<1> QED BY <1>1, <1>2 DEF WorkInv, Calm, Elsewhere, StageCalm

(* ... lands its artifact ...                                              *)
LEMMA PersonaLands ==
  ASSUME LoopTyped, Calm, NEW s \in Spawning, \A o \in Spawning : o # s => task'[Judged(o)] = task[Judged(o)],
         Working(s), task'[Judged(s)].st = "committed",
         UNCHANGED <<phase, queue, worker, failures>>, Elsewhere
  PROVE  WorkInv' /\ NoCarrier
<1>1. s \in StagePhases /\ Carries(s) /\ queue[s] = 0 /\ ~Lost(s) /\ phase = s
  BY AtLoop
<1>2. NoCarrier
  <2>1. ~Carries(s)'
    BY <1>1 DEF Carries, Working, Lost
  <2>2. ASSUME NEW o \in StagePhases, o # s PROVE ~Carries(o)'
    BY <1>1, <2>2, Bystanders DEF Carries, Working, Lost
  <2> QED BY <2>1, <2>2 DEF NoCarrier
<1>3. ASSUME NEW o \in Spawning PROVE PersonaCalm(o)'
  <2>1. CASE o = s
    BY <1>1, <2>1, TypeFacts, RankBound DEF PersonaCalm, Working, Lost
  <2>2. CASE o # s
    BY <1>3, <2>2 DEF PersonaCalm, Calm, WorkInv, Working, Lost
  <2> QED BY <2>1, <2>2
<1> QED BY <1>2, <1>3 DEF WorkInv, Calm, Elsewhere, StageCalm

(* ... or fails.                                                           *)
LEMMA PersonaFails ==
  ASSUME LoopTyped, Calm, NEW s \in Spawning, \A o \in Spawning : o # s => task'[Judged(o)] = task[Judged(o)],
         Working(s), task'[Judged(s)].st = "done", NEW kind, failures' = failures \cup {<<s, kind>>},
         UNCHANGED <<phase, queue, worker>>, Elsewhere
  PROVE  WorkInv' /\ SameCarriers
<1>1. s \in StagePhases /\ Carries(s) /\ queue[s] = 0 /\ ~Lost(s) /\ phase = s
  BY AtLoop
<1>2. failures = {}
  <2>1. ASSUME NEW e \in failures PROVE FALSE
    <3>1. e[1] \in Spawning /\ e[1] \in StagePhases /\ Lost(e[1])
      BY <2>1, TypeFacts DEF Lost
    <3> QED BY <1>1, <3>1, Bystanders
  <2> QED BY <2>1
<1>3. \A o \in StagePhases : Lost(o)' <=> o = s
  BY <1>2 DEF Lost
<1>4. \A o \in StagePhases : o # s => ~Lost(o)
  BY <1>2 DEF Lost
<1>5. SameCarriers
  <2>1. Carries(s)'
    BY <1>1, <1>3 DEF Carries
  <2>2. ASSUME NEW o \in StagePhases, o # s PROVE Carries(o)' <=> Carries(o)
    BY <1>3, <1>4, <2>2 DEF Carries, Working
  <2> QED BY <1>1, <2>1, <2>2 DEF SameCarriers
<1>6. ASSUME NEW o \in Spawning PROVE PersonaCalm(o)'
  <2>1. CASE o = s
    BY <1>1, <2>1, TypeFacts, RankBound DEF PersonaCalm, Working
  <2>2. CASE o # s
    BY <1>3, <1>4, <1>6, <2>2, SubjectNames DEF PersonaCalm, Calm, WorkInv, Working
  <2> QED BY <2>1, <2>2
<1>7. /\ \A e, f \in failures' : e = f
      /\ watcher' = None
  BY <1>2 DEF Calm, WorkInv, Elsewhere
<1> QED BY <1>5, <1>6, <1>7 DEF WorkInv, Calm, Elsewhere, StageCalm

(* A failure is dealt with: the turn goes on without it, or ends.          *)
LEMMA FailureDone ==
  ASSUME LoopTyped, Calm, NEW e \in failures, failures' = failures \ {e}, watcher' = None,
         phase' \in Phases, Rank[phase] <= Rank[phase'], UNCHANGED <<queue, worker, task, boot, attempts>>
  PROVE  WorkInv' /\ NoCarrier /\ phase = e[1] /\ e[1] \in StagePhases \ TerminalPhases /\ ~Artifact(e[1])
<1> DEFINE s == e[1]
<1>0. s \in Spawning /\ Lost(s)
  BY TypeFacts DEF Lost
<1> HIDE DEF s
<1>1. s \in StagePhases \ TerminalPhases /\ Carries(s) /\ queue[s] = 0 /\ ~Working(s) /\ phase = s /\ ~Artifact(s)
      /\ worker[s].pc = "idle"
  BY <1>0, AtLoop
<1>2. failures' = {}
  BY DEF Calm, WorkInv
<1>3. \A o \in StagePhases : queue[o] = 0 /\ worker[o].pc = "idle" /\ ~Working(o) /\ ~Lost(o)'
  BY <1>1, <1>2, Bystanders DEF Lost
<1>4. NoCarrier
  BY <1>3 DEF NoCarrier, Carries, Working
<1>5. ASSUME NEW o \in Spawning PROVE PersonaCalm(o)'
  <2>1. o \in StagePhases /\ Rank[o] \in 0 .. 7 /\ Rank[phase] \in 0 .. 7 /\ Rank[phase'] \in 0 .. 7
    BY TypeFacts, RankBound
  <2>2. ~Working(o)' /\ ~Lost(o)' /\ ~(queue'[o] > 0)
    BY <1>3, <2>1 DEF Working
  <2> QED BY <2>1, <2>2 DEF PersonaCalm, Calm, WorkInv
<1>6. \A o \in StagePhases : StageCalm(o)'
  BY <1>3 DEF StageCalm
<1>7. WorkInv'
  BY <1>2, <1>5, <1>6 DEF WorkInv, Calm
<1> QED BY <1>1, <1>4, <1>7 DEF s

-----------------------------------------------------------------------------
(* The steps, as long as nothing fails.                                    *)

LEMMA NoFailure == faults = 0 /\ faults' = 0 => ~Fault
BY DEF Fault

LEMMA AckEffect ==
  ASSUME LoopTyped, NEW s \in Subjects, Ack(s)
  PROVE  Others(s) /\ queue'[s] = queue[s] - 1 /\ worker'[s] = Idle
<1>1. queue \in [Subjects -> 0 .. MaxQueued] /\ worker \in [Subjects -> WorkerStates]
  BY TypeParts DEF LoopTyped, QueuesTyped
<1>2. queue' = [queue EXCEPT ![s] = queue[s] - 1] /\ worker' = [worker EXCEPT ![s] = Idle]
  BY DEF Ack
<1> QED BY <1>1, <1>2 DEF Others

LEMMA NakEffect ==
  ASSUME LoopTyped, NEW s \in Subjects, NakDelivery(s)
  PROVE  Others(s) /\ queue'[s] = queue[s] /\ worker'[s] = Idle
<1>1. worker \in [Subjects -> WorkerStates]
  BY TypeParts DEF LoopTyped, QueuesTyped
<1>2. queue' = queue /\ worker' = [worker EXCEPT ![s] = Idle]
  BY DEF NakDelivery
<1> QED BY <1>1, <1>2 DEF Others

LEMMA GotoEffect ==
  ASSUME LoopTyped, NEW s \in Subjects, NEW pc, NEW v, Goto(s, pc, v)
  PROVE  Others(s) /\ queue'[s] = queue[s] /\ worker'[s].pc = pc
<1>1. worker \in [Subjects -> WorkerStates]
  BY TypeParts DEF LoopTyped, QueuesTyped
<1> DEFINE r == [pc |-> pc, v |-> v]
<1>2. queue' = queue /\ worker' = [worker EXCEPT ![s] = r]
  BY DEF Goto
<1>3. r.pc = pc
  OBVIOUS
<1> HIDE DEF r
<1> QED BY <1>1, <1>2, <1>3 DEF Others

Recorded == <<phase, facts, verdict, roll, matched>>

(* A consumer goes on with its delivery, or drops it to have it again.     *)
LEMMA GoesOn ==
  ASSUME LoopTyped, Calm, NEW s \in Subjects, NEW pc, NEW v, NakDelivery(s) \/ Goto(s, pc, v),
         s \in StagePhases /\ pc = "enter" => phase \in Predecessors[s] /\ phase \notin TerminalPhases,
         s \in StagePhases /\ pc \in {"body", "commit", "fail"} => phase = s,
         s \in Barriers => pc # "fail",
         UNCHANGED Recorded, UNCHANGED <<dirty, task, failures>>, Elsewhere
  PROVE  Calm'
<1>1. Others(s) /\ queue'[s] = queue[s] /\ worker'[s].pc \in {"idle", pc}
  BY NakEffect, GotoEffect, IdleTyped
<1>2. s \in StagePhases => StageCalm(s)'
  BY <1>1 DEF StageCalm, Calm, WorkInv, Recorded
<1>3. WorkInv' /\ SameCarriers
  BY <1>1, <1>2, ConsumerMoves DEF Recorded
<1>4. TokenInv' /\ RulesInv'
  BY <1>3, Resting DEF SameRecord, Recorded
<1>5. \A b \in Barriers : queue'[b] = queue[b]
  BY <1>1, SubjectNames DEF Others
<1>6. BarrierInv'
  BY <1>5, BarriersRest DEF Recorded
<1> QED BY <1>3, <1>4, <1>6 DEF Calm

(* A stage records its artifact itself and acknowledges.                   *)
LEMMA Records ==
  ASSUME LoopTyped, Calm, NEW s \in StagePhases \ TerminalPhases, worker[s].pc \in {"body", "commit"}, Ack(s),
         UNCHANGED <<phase, matched, task, failures>>, Elsewhere, dirty' = TRUE, facts \subseteq facts',
         Artifact(s)', \A o \in StagePhases : o # s => (Artifact(o)' <=> Artifact(o))
  PROVE  Calm'
<1>1. s \in Subjects /\ Others(s) /\ queue'[s] = queue[s] - 1 /\ worker'[s] = Idle
  BY AckEffect, SubjectNames
<1>2. phase = s /\ ~Artifact(s) /\ worker[s].pc # "idle"
  BY AtWork
<1>3. phase' \in Phases /\ Rank[phase] <= Rank[phase']
  BY TypeFacts, RankBound
<1>4. WorkInv' /\ NoCarrier
  BY <1>1, <1>2, <1>3, ConsumerDone
<1>5. TokenInv' /\ RulesInv'
  BY <1>2, <1>4, ArtifactLands
<1>6. \A b \in Barriers : queue'[b] = queue[b]
  BY <1>1, SubjectNames DEF Others
<1>7. BarrierInv'
  BY <1>6, BarriersRest
<1> QED BY <1>4, <1>5, <1>7 DEF Calm

(* A stage ends the turn and acknowledges.                                 *)
LEMMA EndsTurn ==
  ASSUME LoopTyped, Calm, NEW s \in StagePhases, worker[s].pc # "idle", Ack(s), phase' \in TerminalPhases,
         UNCHANGED <<facts, verdict, roll, matched, task, failures>>, Elsewhere, dirty' = TRUE
  PROVE  Calm'
<1>1. s \in Subjects /\ Others(s) /\ queue'[s] = queue[s] - 1 /\ worker'[s] = Idle
  BY AckEffect, SubjectNames
<1>2. Rank[phase'] = 7 /\ phase' \in Phases
  BY Ranks DEF TerminalPhases, Phases
<1>3. Rank[phase] <= Rank[phase']
  BY <1>2, TypeFacts, RankBound
<1>4. WorkInv' /\ NoCarrier
  BY <1>1, <1>2, <1>3, ConsumerDone
<1>5. TokenInv' /\ RulesInv'
  BY <1>4, TurnOver
<1>6. \A b \in Barriers : queue'[b] = queue[b]
  BY <1>1, SubjectNames DEF Others
<1>7. phase' \notin {"adjudicating", "resolving", "applying"}
  BY DEF TerminalPhases
<1>8. BarrierInv'
  BY <1>6, <1>7, BarriersRest
<1> QED BY <1>4, <1>5, <1>8 DEF Calm

(* A stage hands its turn to a persona and acknowledges.                   *)
LEMMA HandsOver ==
  ASSUME LoopTyped, Calm, NEW s \in Spawning, worker[s].pc = "body", Ack(s), PublishTask(s),
         UNCHANGED Recorded, UNCHANGED <<dirty, failures>>, Elsewhere
  PROVE  Calm'
<1>1. s \in Subjects /\ s \in StagePhases
  BY SubjectNames
<1>2. Others(s) /\ queue'[s] = queue[s] - 1 /\ worker'[s] = Idle
  BY <1>1, AckEffect
<1>3. WorkInv' /\ SameCarriers
  BY <1>2, ConsumerSpawns DEF Recorded
<1>4. TokenInv' /\ RulesInv'
  BY <1>3, Resting DEF SameRecord, Recorded
<1>5. \A b \in Barriers : queue'[b] = queue[b]
  BY <1>1, <1>2, SubjectNames DEF Others
<1>6. BarrierInv'
  BY <1>5, BarriersRest DEF Recorded
<1> QED BY <1>3, <1>4, <1>6 DEF Calm

(* A barrier lands its fact, or finds it there, and acknowledges.          *)
LEMMA BarrierLands ==
  ASSUME LoopTyped, Calm, NEW b \in Barriers, Ack(b), UNCHANGED <<phase, verdict, roll, matched, task, failures>>, Elsewhere,
         \/ facts' = facts \cup {b} /\ dirty' = TRUE
         \/ b \in facts /\ UNCHANGED <<facts, dirty>>
  PROVE  Calm'
<1>1. b \in Subjects /\ b \notin StagePhases
  BY SubjectNames
<1>2. Others(b) /\ worker'[b].pc # "fail"
  BY <1>1, AckEffect, IdleTyped
<1>3. WorkInv' /\ SameCarriers
  BY <1>1, <1>2, ConsumerMoves
<1>4. TokenInv' /\ RulesInv'
  BY <1>3, Resting, FactLands DEF SameRecord
<1>5. \A o \in Barriers : queue'[o] = queue[o] \/ o \in facts'
  BY <1>2, SubjectNames DEF Others
<1>6. BarrierInv'
  BY <1>5, BarriersRest
<1> QED BY <1>3, <1>4, <1>6 DEF Calm

(* The read of a trigger: the expected stage is neither late nor early.    *)
LEMMA CalmDeliver ==
  ASSUME LoopTyped, Calm, NEW s \in Subjects, Deliver(s)
  PROVE  Calm'
<1>0. UNCHANGED Recorded /\ UNCHANGED <<dirty, task, failures>> /\ Elsewhere
  BY DEF Deliver, turnVars, ruleVars, agentVars, bootVars, Recorded, Elsewhere
<1>1. CASE s \in Barriers
  <2>1. Goto(s, "body", None) /\ s \notin StagePhases
    BY <1>1, SubjectNames DEF Deliver
  <2> QED BY <1>0, <2>1, GoesOn
<1>2. CASE s \in StagePhases
  <2>1. s \notin Barriers /\ s \in Phases /\ queue[s] > 0
    BY <1>2, SubjectNames DEF Deliver
  <2>2. Expected(s) /\ phase \in Phases \ TerminalPhases
    BY <1>2, <2>1, Alone DEF Carries
  <2>3. s = phase \/ (s # phase /\ phase \in Predecessors[s])
    BY <2>2, Hops DEF Expected
  <2>4. \/ s = phase /\ Classify(phase, s) = "resumed"
        \/ phase \in Predecessors[s] /\ Classify(phase, s) = "advanced"
    BY <2>1, <2>2, <2>3 DEF Classify, IsTerminal, PhaseFollows
  <2>5. \/ s = phase /\ Goto(s, "body", None)
        \/ phase \in Predecessors[s] /\ Goto(s, "enter", None)
    BY <2>1, <2>4 DEF Deliver
  <2>6. CASE s = phase /\ Goto(s, "body", None)
    BY <1>0, <2>1, <2>6, GoesOn
  <2>7. CASE phase \in Predecessors[s] /\ Goto(s, "enter", None)
    BY <1>0, <2>1, <2>2, <2>7, GoesOn
  <2> QED BY <2>5, <2>6, <2>7
<1> QED BY <1>1, <1>2, SubjectNames

(* The write of a phase: the stage that was expected next is the stage of  *)
(* the phase, and nothing of that phase has been recorded or has matched.  *)
LEMMA CalmEnter ==
  ASSUME LoopTyped, Calm, ~Fault, NEW s \in Subjects, EnterPhase(s)
  PROVE  Calm'
<1>0. s \in StagePhases /\ worker[s].pc = "enter"
  BY SubjectNames DEF EnterPhase, LoopTyped, Shapes
<1>1. /\ phase' = s /\ dirty' = TRUE /\ UNCHANGED <<facts, verdict, roll, matched, task, failures>> /\ Elsewhere
      /\ IF s = "complete" THEN Ack(s) ELSE Goto(s, "body", None)
  BY DEF EnterPhase, Returns, agentVars, bootVars, Elsewhere
<1>2. /\ phase \in Predecessors[s] /\ phase \in Phases \ TerminalPhases /\ Carries(s)
      /\ Due(phase, verdict) \in matched /\ s = Successor(phase, verdict)
      /\ queue[s] = 1 /\ ~Working(s) /\ ~Lost(s)
      /\ s \in Spawning => task[Judged(s)].st = "none"
  BY <1>0, AtDoor
<1>3. CASE s = "complete"
  <2>1. phase' \in TerminalPhases /\ worker[s].pc # "idle" /\ Ack(s)
    BY <1>0, <1>1, <1>3 DEF TerminalPhases
  <2> QED BY <1>0, <1>1, <2>1, EndsTurn
<1>4. CASE s # "complete"
  <2>1. s \in Subjects /\ s \in Phases /\ s \notin TerminalPhases
    BY <1>0, <1>4, SubjectNames DEF StagePhases, TerminalPhases
  <2>2. Others(s) /\ queue'[s] = queue[s] /\ worker'[s].pc = "body"
    BY <1>1, <1>4, <2>1, GotoEffect
  <2>3. Rank[phase] < Rank[s] /\ Rank[phase] \in 0 .. 7 /\ Rank[s] \in 0 .. 7
    BY <1>2, <2>1, Hops, RankBound
  <2>4. \A o \in StagePhases : Artifact(o)' <=> Artifact(o)
    BY <1>1, ArtifactOf
  <2>5. ~Artifact(s)'
    BY <1>0, <2>3, <2>4 DEF Calm, RulesInv
  <2>6. \A r \in matched : RulePhase(r) \in Phases /\ Rank[RulePhase(r)] <= Rank[s] /\ RulePhase(r) # s
    <3>1. \A r \in matched : RulePhase(r) \in Phases
      BY TypeFacts DEF RulePhase, Rules, Phases
    <3>2. \A r \in matched : Rank[RulePhase(r)] \in 0 .. 7
      BY <3>1, RankBound
    <3> QED BY <3>1, <3>2, <2>3 DEF Calm, RulesInv
  <2>7. Due(s, verdict) \notin matched
    BY <2>1, <2>6, Hops
  <2>8. \A o \in StagePhases : Expected(o)' <=> o = s
    <3>1. Artifact(phase)' <=> Artifact(s)'
      BY <1>1 DEF Artifact
    <3> QED BY <1>1, <2>1, <2>5, <2>7, <3>1 DEF Expected
  <2>9. \A o \in StagePhases : queue'[o] = queue[o]
    BY <2>2, SubjectNames DEF Others
  <2>10. \A o \in StagePhases : Carries(o)' <=> o = s
    <3>1. \A o \in StagePhases : Carries(o)' <=> Carries(o)
      BY <1>1, <2>9 DEF Carries, Working, Lost
    <3> QED BY <1>0, <1>2, <3>1, Alone
  <2>11. TokenInv'
    BY <2>8, <2>10 DEF TokenInv
  <2>12. RulesInv'
    <3>1. \A o \in StagePhases : Artifact(o)' => Rank[o] <= Rank[phase']
      <4>1. \A o \in StagePhases : Rank[o] \in 0 .. 7
        BY RankBound, SubjectNames
      <4> QED BY <1>1, <2>3, <2>4, <4>1 DEF Calm, RulesInv
    <3> QED BY <1>1, <2>6, <3>1 DEF RulesInv
  <2>13. ASSUME NEW o \in StagePhases PROVE StageCalm(o)'
    <3>1. CASE o = s
      BY <1>1, <1>2, <2>2, <3>1 DEF StageCalm
    <3>2. CASE o # s
      <4>1. queue[o] = 0 /\ worker[o].pc = "idle" /\ worker'[o] = worker[o]
        BY <1>0, <1>2, <2>2, <2>13, <3>2, Alone, SubjectNames DEF Others
      <4> QED BY <2>9, <2>13, <4>1 DEF StageCalm
    <3> QED BY <3>1, <3>2
  <2>14. ASSUME NEW o \in Spawning PROVE PersonaCalm(o)'
    <3>0. o \in StagePhases /\ Rank[o] \in 0 .. 7
      BY SubjectNames, RankBound
    <3>1. CASE o = s
      BY <1>1, <1>2, <3>1 DEF PersonaCalm, Working, Lost
    <3>2. CASE o # s
      <4>1. queue[o] = 0 /\ ~Working(o) /\ ~Lost(o)
        BY <1>0, <1>2, <3>0, <3>2, Bystanders
      <4>2. queue'[o] = 0 /\ ~Working(o)' /\ ~Lost(o)' /\ task' = task
        BY <1>1, <2>9, <3>0, <4>1 DEF Working, Lost
      <4>3. /\ task[Judged(o)].st # "none" => Rank[o] <= Rank[phase]
            /\ task[Judged(o)].st = "claimed" => o = "companion"
        BY DEF Calm, WorkInv, PersonaCalm
      <4> QED BY <1>1, <2>3, <3>0, <4>2, <4>3 DEF PersonaCalm
    <3> QED BY <3>1, <3>2
  <2>15. \A b \in Barriers : worker'[b].pc # "fail" /\ queue'[b] = queue[b]
    BY <1>0, <2>2, SubjectNames DEF Others, Calm, WorkInv
  <2>16. WorkInv'
    BY <1>1, <2>13, <2>14, <2>15 DEF WorkInv, Calm, Elsewhere
  <2>17. phase' = "adjudicating" => "interpreted" \in matched
    BY <1>1, <1>2, PredecessorsAre DEF Due
  <2>18. phase' \in {"resolving", "applying"} => phase \in {"adjudicating", "resolving"}
    BY <1>1, <1>2, PredecessorsAre
  <2>19. BarrierInv'
    BY <1>1, <2>15, <2>17, <2>18, BarriersRest
  <2> QED BY <2>11, <2>12, <2>16, <2>19 DEF Calm
<1> QED BY <1>3, <1>4

LEMMA CalmSpawn ==
  ASSUME LoopTyped, Calm, ~Fault, ~Mystery, NEW s \in Subjects, Spawn(s)
  PROVE  Calm'
<1>0. s \in Spawning /\ s \in StagePhases \ TerminalPhases /\ worker[s].pc = "body"
  BY DEF Spawn, Spawning, StagePhases, TerminalPhases
<1>1. ~Artifact(s)
  BY <1>0, AtWork
<1>2. UNCHANGED <<phase, verdict, roll, matched, failures>> /\ Elsewhere
  BY DEF Spawn, bootVars, Elsewhere
<1>3. CASE s = "interpreting"
  <2>1. facts' = facts \cup {"case-decision"} /\ dirty' = TRUE /\ Ack(s) /\ UNCHANGED task
    BY <1>1, <1>3 DEF Spawn, Returns
  <2>2. Artifact(s)' /\ \A o \in StagePhases : o # s => (Artifact(o)' <=> Artifact(o))
    BY <1>2, <1>3, <2>1 DEF Artifact, StagePhases
  <2> QED BY <1>0, <1>2, <2>1, <2>2, Records
<1>4. CASE s # "interpreting"
  <2>1. PublishTask(s) /\ Ack(s) /\ UNCHANGED <<facts, dirty>>
    BY <1>1, <1>4 DEF Spawn, Returns
  <2> QED BY <1>0, <1>2, <2>1, HandsOver DEF Recorded
<1> QED BY <1>3, <1>4

LEMMA CalmResolver ==
  ASSUME LoopTyped, Calm, ~Fault, ReadVerdict \/ RecordRoll
  PROVE  Calm'
<1>0. "resolving" \in StagePhases \ TerminalPhases /\ "resolving" \in Subjects /\ "resolving" \notin Barriers
  BY DEF StagePhases, TerminalPhases, Subjects, Barriers
<1>1. worker["resolving"].pc \in {"body", "commit"}
  BY DEF ReadVerdict, RecordRoll
<1>2. phase = "resolving" /\ ~Artifact("resolving")
  BY <1>0, <1>1, AtWork
<1>3. CASE ReadVerdict
  <2>1. UNCHANGED Recorded /\ UNCHANGED <<dirty, task, failures>> /\ Elsewhere
    BY <1>3 DEF ReadVerdict, turnVars, ruleVars, agentVars, bootVars, Recorded, Elsewhere
  <2>2. NakDelivery("resolving") \/ Goto("resolving", "commit", verdict)
    BY <1>2, <1>3 DEF ReadVerdict, Artifact
  <2> QED BY <1>0, <1>2, <2>1, <2>2, GoesOn
<1>4. CASE RecordRoll
  <2>1. /\ dirty' = TRUE /\ Ack("resolving") /\ UNCHANGED <<phase, facts, verdict, matched, task, failures>> /\ Elsewhere
        /\ roll' = worker["resolving"].v /\ worker["resolving"].pc = "commit"
    BY <1>4 DEF RecordRoll, Returns, agentVars, bootVars, Elsewhere
  <2>2. roll' # None
    BY <2>1 DEF LoopTyped, Shapes
  <2>3. Artifact("resolving")' /\ \A o \in StagePhases : o # "resolving" => (Artifact(o)' <=> Artifact(o))
    BY <2>1, <2>2 DEF Artifact, StagePhases
  <2> QED BY <1>0, <1>1, <2>1, <2>3, Records
<1> QED BY <1>3, <1>4

LEMMA CalmEffector ==
  ASSUME LoopTyped, Calm, ~Fault, PlanBatch \/ CommitBatch
  PROVE  Calm'
<1>0. "applying" \in StagePhases \ TerminalPhases /\ "applying" \in Subjects /\ "applying" \notin Barriers
  BY DEF StagePhases, TerminalPhases, Subjects, Barriers
<1>1. worker["applying"].pc \in {"body", "commit"}
  BY DEF PlanBatch, CommitBatch
<1>2. phase = "applying" /\ ~Artifact("applying")
  BY <1>0, <1>1, AtWork
<1>3. CASE PlanBatch
  <2>1. UNCHANGED Recorded /\ UNCHANGED <<dirty, task, failures>> /\ Elsewhere
    BY <1>3 DEF PlanBatch, turnVars, ruleVars, agentVars, bootVars, Recorded, Elsewhere
  <2>2. NakDelivery("applying") \/ Goto("applying", "commit", verdict) \/ Goto("applying", "fail", None)
    BY <1>0, <1>2, <1>3 DEF PlanBatch, Artifact, FailTurn, IsTerminal
  <2> QED BY <1>0, <1>2, <2>1, <2>2, GoesOn
<1>4. CASE CommitBatch
  <2>1. /\ dirty' = TRUE /\ Ack("applying") /\ UNCHANGED <<phase, verdict, roll, matched, task, failures>> /\ Elsewhere
        /\ facts' = facts \cup {"batch"}
    BY <1>4 DEF CommitBatch, Returns, agentVars, bootVars, Elsewhere
  <2>2. Artifact("applying")' /\ \A o \in StagePhases : o # "applying" => (Artifact(o)' <=> Artifact(o))
    BY <2>1 DEF Artifact, StagePhases
  <2> QED BY <1>0, <1>1, <2>1, <2>2, Records
<1> QED BY <1>3, <1>4

LEMMA CalmCompanion ==
  ASSUME LoopTyped, Calm, ~Fault, RunCompanion
  PROVE  Calm'
<1>0. "companion" \in StagePhases \ TerminalPhases /\ "companion" \in Spawning /\ worker["companion"].pc = "body"
  BY DEF StagePhases, TerminalPhases, Spawning, RunCompanion
<1>1. ~Artifact("companion")
  BY <1>0, AtWork
<1>2. UNCHANGED <<phase, verdict, roll, matched, failures>> /\ Elsewhere
  BY DEF RunCompanion, bootVars, Elsewhere
<1>3. \/ facts' = facts \cup {"companion"} /\ dirty' = TRUE /\ Ack("companion") /\ UNCHANGED task
      \/ PublishTask("companion") /\ Ack("companion") /\ UNCHANGED <<facts, dirty>>
  BY <1>1 DEF RunCompanion, Returns
<1>4. CASE facts' = facts \cup {"companion"} /\ dirty' = TRUE /\ Ack("companion") /\ UNCHANGED task
  <2>1. Artifact("companion")' /\ \A o \in StagePhases : o # "companion" => (Artifact(o)' <=> Artifact(o))
    BY <1>2, <1>4 DEF Artifact, StagePhases
  <2> QED BY <1>0, <1>2, <1>4, <2>1, Records
<1>5. CASE PublishTask("companion") /\ Ack("companion") /\ UNCHANGED <<facts, dirty>>
  BY <1>0, <1>2, <1>5, HandsOver DEF Recorded
<1> QED BY <1>3, <1>4, <1>5

LEMMA CalmBarrier ==
  ASSUME LoopTyped, Calm, ~Fault, ~Mystery, RunKnowledge \/ RunAccusation \/ RunCaseProgress
  PROVE  Calm'
<1>1. UNCHANGED <<phase, verdict, roll, matched, task, failures>> /\ Elsewhere
  BY DEF RunKnowledge, RunAccusation, RunCaseProgress, agentVars, bootVars, Elsewhere
<1>2. \E b \in Barriers : /\ Ack(b)
                          /\ \/ facts' = facts \cup {b} /\ dirty' = TRUE
                             \/ b \in facts /\ UNCHANGED <<facts, dirty>>
  BY DEF RunKnowledge, RunAccusation, RunCaseProgress, LandFact, LandNothing, Returns, Barriers
<1> QED BY <1>1, <1>2, BarrierLands

LEMMA CalmFailure ==
  ASSUME LoopTyped, Calm, ~Fault, NEW s \in Subjects, RecordFailure(s)
  PROVE  Calm'
<1>1. s \in StagePhases /\ worker[s].pc # "idle"
  BY SubjectNames DEF RecordFailure, Calm, WorkInv
<1>2. /\ phase' \in TerminalPhases /\ dirty' = TRUE /\ Ack(s)
      /\ UNCHANGED <<facts, verdict, roll, matched, task, failures>> /\ Elsewhere
  BY DEF RecordFailure, Returns, agentVars, bootVars, Elsewhere, TerminalPhases
<1> QED BY <1>1, <1>2, EndsTurn

LEMMA CalmStage ==
  ASSUME LoopTyped, Calm, ~Fault, ~Mystery, NEW s \in Subjects, StageStep(s) \/ StageFails(s)
  PROVE  Calm'
<1>1. ~StageFails(s)
  BY DEF StageFails
<1> QED BY <1>1, CalmDeliver, CalmEnter, CalmSpawn, CalmResolver, CalmEffector, CalmCompanion, CalmBarrier, CalmFailure
        DEF StageStep

(* The engine's evaluation: the rule that starts the next stage comes to   *)
(* match once, when the artifact of the phase is there and nobody has the  *)
(* turn.                                                                   *)
LEMMA CalmRules ==
  ASSUME LoopTyped, Calm, ~Fault, EvaluateRules
  PROVE  Calm'
<1> DEFINE new == matched' \ matched
           due == UNION {Publishes[r] : r \in new}
           d == Due(phase, verdict)
           x == Successor(phase, verdict)
<1>0. phase \in Phases /\ matched \subseteq Rules /\ MaxQueued \in Nat /\ MaxQueued > 0
  BY TypeFacts, BoundsAreNat
<1>1. /\ UNCHANGED <<phase, facts, verdict, roll, worker, task, failures>> /\ Elsewhere
      /\ dirty' = FALSE /\ matched' = {r \in Rules : Matches(r)} /\ Enqueue(due)
  BY DEF EvaluateRules, turnVars, agentVars, bootVars, Elsewhere
<1>2. \A r \in Rules : Matches(r)' <=> Matches(r)
  BY <1>1 DEF Matches
<1>3. \A s \in StagePhases : Artifact(s)' <=> Artifact(s)
  BY <1>1, ArtifactOf
<1>4. \A s \in Subjects : queue'[s] = IF s \in due /\ queue[s] < MaxQueued THEN queue[s] + 1 ELSE queue[s]
  BY <1>1 DEF Enqueue
<1>5. \A s \in Subjects : queue[s] \in Nat /\ queue'[s] >= queue[s] /\ (s \in due => queue'[s] > 0)
                          /\ (s \notin due => queue'[s] = queue[s])
  BY <1>0, <1>4, TypeFacts
<1>6. \A r \in new : r \in Rules /\ Matches(r) /\ r \notin matched
  BY <1>1
<1>7. \A r \in new : \/ r = "progress" /\ Publishes[r] \subseteq Barriers
                     \/ r = d /\ Publishes[r] \subseteq {x} \cup Barriers
  BY <1>6, MatchMeans DEF Barriers
<1>8. \A s \in due : s \in Barriers \/ (s = x /\ d \in new)
  BY <1>7
<1>9. \A r \in matched' : RulePhase(r) = phase /\ phase \notin TerminalPhases
  BY <1>1, MatchMeans
<1>10. RulesInv'
  <2>1. Rank[phase] \in 0 .. 7
    BY <1>0, RankBound
  <2>2. matched' = {r \in Rules : Matches(r)}'
    BY <1>1, <1>2
  <2>3. \A r \in matched' : Rank[RulePhase(r)] <= Rank[phase] /\ Matches(r)'
    BY <1>1, <1>2, <1>9, <2>1
  <2> QED BY <1>1, <1>3, <2>2, <2>3 DEF RulesInv, Calm
<1>11. BarrierInv'
  <2>1. \A r \in matched' : r \in matched \/ Publishes[r] \subseteq due
    OBVIOUS
  <2>2. Publishes["interpreted"] = {"adjudicating", "knowledge", "accusation"} /\ Publishes["progress"] = {"case-progress"}
    BY DEF Publishes, Rules
  <2>3. "knowledge" \in Subjects /\ "accusation" \in Subjects /\ "case-progress" \in Subjects
    BY DEF Subjects, Barriers
  <2> HIDE DEF new, due
  <2>4. \A s \in {"knowledge", "accusation", "case-progress"} : queue[s] > 0 \/ s \in due => queue'[s] > 0
    BY <1>5, <2>3
  <2> QED BY <1>1, <2>1, <2>2, <2>4 DEF BarrierInv, Calm
<1> HIDE DEF new, due, d, x
<1>12. CASE d \in new
  <2>1. phase \in Phases \ TerminalPhases /\ (phase \in StagePhases => Artifact(phase)) /\ d \notin matched /\ d \in matched'
    BY <1>0, <1>6, <1>12, MatchMeans DEF new
  <2>2. /\ x \in StagePhases /\ x # phase /\ Rank[phase] < Rank[x] /\ x \in Publishes[d]
    BY <2>1, Hops DEF d, x
  <2>3. x \in due
    BY <1>12, <2>2 DEF due
  <2>4. \A s \in StagePhases : ~Expected(s)
    BY <2>1 DEF Expected, d
  <2>5. \A s \in StagePhases : ~Carries(s) /\ queue[s] = 0 /\ worker[s].pc = "idle" /\ ~Working(s) /\ ~Lost(s)
    <3>1. \A s \in StagePhases : ~Carries(s)
      BY <2>4 DEF Calm, TokenInv
    <3>2. \A s \in StagePhases : queue[s] = 0
      BY <1>5, <3>1, SubjectNames DEF Carries
    <3> QED BY <3>1, <3>2, TypeFacts DEF Carries
  <2>6. \A s \in StagePhases : s # x => queue'[s] = 0
    BY <1>5, <1>8, <2>5, SubjectNames
  <2>7. queue'[x] = 1
    BY <1>0, <1>4, <2>2, <2>3, <2>5, SubjectNames
  <2>8. \A s \in StagePhases : ~Working(s)' /\ ~Lost(s)'
    BY <1>1, <2>5 DEF Working, Lost
  <2>9. \A s \in StagePhases : Expected(s)' <=> s = x
    <3>1. Artifact(phase)' <=> Artifact(phase)
      BY <1>1 DEF Artifact
    <3> QED BY <1>1, <2>1, <3>1 DEF Expected, d, x
  <2>10. TokenInv'
    BY <2>2, <2>6, <2>7, <2>8, <2>9 DEF TokenInv, Carries
  <2>11. \A s \in StagePhases : StageCalm(s)'
    BY <1>1, <2>5, <2>6, <2>7 DEF StageCalm
  <2>12. ASSUME NEW s \in Spawning PROVE PersonaCalm(s)'
    <3>1. s \in StagePhases /\ Rank[s] \in 0 .. 7 /\ Rank[phase] \in 0 .. 7
      BY <1>0, SubjectNames, RankBound
    <3>2. task[Judged(s)].st # "none" => Rank[s] <= Rank[phase]
      BY DEF Calm, WorkInv, PersonaCalm
    <3>3. task[Judged(s)].st = "claimed" => s = "companion"
      BY DEF Calm, WorkInv, PersonaCalm
    <3>4. s = x => task[Judged(s)].st = "none"
      BY <2>2, <3>1, <3>2
    <3> QED BY <1>1, <2>6, <2>8, <3>1, <3>2, <3>3, <3>4 DEF PersonaCalm
  <2>13. WorkInv'
    BY <1>1, <2>11, <2>12 DEF WorkInv, Calm, Elsewhere
  <2> QED BY <1>10, <1>11, <2>10, <2>13 DEF Calm
<1>13. CASE d \notin new
  <2>1. \A s \in StagePhases : queue'[s] = queue[s]
    BY <1>5, <1>8, <1>13, SubjectNames
  <2>2. phase \notin TerminalPhases => (d \in matched' <=> d \in matched)
    <3>1. phase \notin TerminalPhases /\ d \in matched => Matches(d) /\ d \in Rules
      BY <1>0, Hops DEF Calm, RulesInv, d
    <3> QED BY <1>1, <1>13, <3>1 DEF new
  <2>3. \A s \in StagePhases : Expected(s)' <=> Expected(s)
    <3>1. Artifact(phase)' <=> Artifact(phase)
      BY <1>1 DEF Artifact
    <3> QED BY <1>1, <2>2, <3>1 DEF Expected, d
  <2>4. \A s \in StagePhases : Carries(s)' <=> Carries(s)
    BY <1>1, <2>1 DEF Carries, Working, Lost
  <2>5. TokenInv'
    BY <2>3, <2>4 DEF TokenInv, Calm
  <2>6. \A s \in StagePhases : StageCalm(s)'
    BY <1>1, <2>1 DEF StageCalm, Calm, WorkInv
  <2>7. ASSUME NEW s \in Spawning PROVE PersonaCalm(s)'
    BY <1>1, <2>1, SubjectNames DEF PersonaCalm, Calm, WorkInv, Working, Lost
  <2>8. WorkInv'
    BY <1>1, <2>6, <2>7 DEF WorkInv, Calm, Elsewhere
  <2> QED BY <1>10, <1>11, <2>5, <2>8 DEF Calm
<1> QED BY <1>12, <1>13

(* The task of a stage that is not over is the one of the first attempt.   *)
LEMMA TheTask ==
  ASSUME LoopTyped, TaskInv, Calm, NEW k \in TaskIds, task[k].st \in {"queued", "running", "claimed", "committed"}
  PROVE  /\ k[1] \in Spawning /\ k = Judged(k[1])
         /\ \A o \in Spawning : o # k[1] => Judged(o) \in TaskIds /\ Judged(o) # k
         /\ task[k].st # "committed" => Working(k[1])
<1>1. k \in Unfinished /\ k[1] \in Spawning /\ k = <<k[1], k[2]>>
  BY DEF Unfinished, TaskIds
<1>2. k[2] = 0
  BY <1>1 DEF TaskInv, Calm, WorkInv
<1>3. k = Judged(k[1])
  BY <1>1, <1>2 DEF Judged
<1>4. \A o \in Spawning : o # k[1] => Judged(o) \in TaskIds /\ Judged(o) # k
  BY TypeFacts DEF Judged
<1> QED BY <1>1, <1>3, <1>4 DEF Working

(* A persona lands the artifact of its stage.                              *)
LEMMA Lands ==
  ASSUME LoopTyped, TaskInv, Calm, NEW k \in TaskIds, task[k].st \in {"running", "claimed"}, SetTask(k, "committed"),
         UNCHANGED <<phase, matched, queue, worker, failures>>, Elsewhere, dirty' = TRUE, facts \subseteq facts',
         Artifact(k[1])', \A o \in StagePhases : o # k[1] => (Artifact(o)' <=> Artifact(o))
  PROVE  Calm'
<1> DEFINE s == k[1]
<1>1. /\ s \in Spawning /\ k = Judged(s) /\ Working(s)
      /\ \A o \in Spawning : o # s => Judged(o) \in TaskIds /\ Judged(o) # k
  BY TheTask
<1>2. Artifact(s)' /\ \A o \in StagePhases : o # s => (Artifact(o)' <=> Artifact(o))
  OBVIOUS
<1> HIDE DEF s
<1>3. task'[k].st = "committed" /\ \A o \in TaskIds : o # k => task'[o] = task[o]
  BY TypeFacts, SetTaskEffect
<1>4. WorkInv' /\ NoCarrier
  BY <1>1, <1>3, PersonaLands
<1>5. phase = s /\ s \in StagePhases \ TerminalPhases /\ ~Artifact(s)
  BY <1>1, AtLoop
<1>6. TokenInv' /\ RulesInv'
  BY <1>2, <1>4, <1>5, ArtifactLands
<1>7. BarrierInv'
  BY BarriersRest
<1> QED BY <1>4, <1>6, <1>7 DEF Calm

(* A persona's task moves and its stage records nothing.                   *)
LEMMA CalmTask ==
  ASSUME LoopTyped, TaskInv, Calm, ~Fault, NEW k \in TaskIds, TaskStep(k) \/ RedeliverTask(k)
  PROVE  Calm'
<1>0. task \in [TaskIds -> TaskStates]
  BY TypeFacts
<1>1. ASSUME NEW st \in {"running", "claimed", "done"}, UNCHANGED <<Recorded, dirty, queue, worker, failures>>, Elsewhere,
             task[k].st \in {"queued", "running", "committed"}, task[k].st = "committed" <=> st = "done",
             st = "claimed" => k[1] = "companion",
             task'[k].st = st, \A o \in TaskIds : o # k => task'[o] = task[o]
      PROVE  Calm'
  <2>1. /\ k[1] \in Spawning /\ k = Judged(k[1])
        /\ \A o \in Spawning : o # k[1] => Judged(o) \in TaskIds /\ Judged(o) # k
        /\ task[k].st # "committed" => Working(k[1])
    BY <1>1, TheTask
  <2>2. st # "done" => Working(k[1])'
    BY <1>1, <2>1 DEF Working
  <2> DEFINE s == k[1]
  <2>3. /\ s \in Spawning /\ k = Judged(s) /\ (st = "claimed" => s = "companion")
        /\ \/ Working(s) /\ Working(s)'
           \/ task[Judged(s)].st = "committed" /\ task'[Judged(s)].st = "done"
        /\ \A o \in Spawning : o # s => task'[Judged(o)] = task[Judged(o)]
        /\ task'[Judged(s)].st = st
    BY <1>1, <2>1, <2>2
  <2> HIDE DEF s
  <2>4. WorkInv' /\ SameCarriers
    BY <1>1, <2>3, PersonaMoves DEF Recorded
  <2>5. TokenInv' /\ RulesInv'
    BY <1>1, <2>4, Resting DEF Recorded, SameRecord
  <2>6. BarrierInv'
    BY <1>1, BarriersRest DEF Recorded
  <2> QED BY <2>4, <2>5, <2>6 DEF Calm
<1>2. CASE RunTask(k)
  <2>1. UNCHANGED <<Recorded, dirty, queue, worker, failures>> /\ Elsewhere /\ task[k].st = "queued"
    BY <1>2 DEF RunTask, turnVars, ruleVars, bootVars, Recorded, Elsewhere
  <2>2. task[k].n < MaxDeliver
    BY <2>1 DEF LoopTyped, Shapes
  <2>3. task'[k].st = "running" /\ \A o \in TaskIds : o # k => task'[o] = task[o]
    BY <1>0, <1>2, <2>2, RunTaskEffect DEF RunTask
  <2> QED BY <1>1, <2>1, <2>3
<1>3. CASE ClaimDecision(k)
  <2>1. /\ UNCHANGED <<Recorded, dirty, queue, worker, failures>> /\ Elsewhere /\ task[k].st = "running"
        /\ k[1] = "companion" /\ SetTask(k, "claimed")
    BY <1>3 DEF ClaimDecision, ruleVars, bootVars, Recorded, Elsewhere
  <2>2. task'[k].st = "claimed" /\ \A o \in TaskIds : o # k => task'[o] = task[o]
    BY <1>0, <2>1, SetTaskEffect
  <2> QED BY <1>1, <2>1, <2>2
<1>4. CASE FinishTask(k)
  <2>1. /\ UNCHANGED <<Recorded, dirty, queue, worker, failures>> /\ Elsewhere /\ task[k].st = "committed"
        /\ SetTask(k, "done")
    BY <1>4 DEF FinishTask, turnVars, ruleVars, bootVars, Recorded, Elsewhere
  <2>2. task'[k].st = "done" /\ \A o \in TaskIds : o # k => task'[o] = task[o]
    BY <1>0, <2>1, SetTaskEffect
  <2> QED BY <1>1, <2>1, <2>2
<1>5. CASE CommitVerdict(k)
  <2>1. /\ UNCHANGED <<phase, facts, roll, matched, queue, worker, failures>> /\ Elsewhere /\ dirty' = TRUE
        /\ verdict' \in Verdicts /\ k[1] = "adjudicating" /\ task[k].st = "running" /\ SetTask(k, "committed")
    BY <1>5 DEF CommitVerdict, bootVars, Elsewhere
  <2>2. verdict' # None
    BY <2>1, LoopAssumption
  <2>3. Artifact(k[1])' /\ \A o \in StagePhases : o # k[1] => (Artifact(o)' <=> Artifact(o))
    BY <2>1, <2>2 DEF Artifact, StagePhases
  <2> QED BY <2>1, <2>3, Lands
<1>6. CASE CommitDecision(k)
  <2>1. /\ UNCHANGED <<phase, verdict, roll, matched, queue, worker, failures>> /\ Elsewhere /\ dirty' = TRUE
        /\ facts' = facts \cup {"case-decision"} /\ k[1] = "interpreting" /\ task[k].st = "running" /\ SetTask(k, "committed")
    BY <1>6 DEF CommitDecision, CommitReference, bootVars, Elsewhere
  <2>2. Artifact(k[1])' /\ \A o \in StagePhases : o # k[1] => (Artifact(o)' <=> Artifact(o))
    BY <2>1 DEF Artifact, StagePhases
  <2> QED BY <2>1, <2>2, Lands
<1>7. CASE CommitNarration(k)
  <2>1. /\ UNCHANGED <<phase, verdict, roll, matched, queue, worker, failures>> /\ Elsewhere /\ dirty' = TRUE
        /\ facts' = facts \cup {"narration"} /\ k[1] = "narrating" /\ task[k].st = "running" /\ SetTask(k, "committed")
    BY <1>7 DEF CommitNarration, CommitReference, bootVars, Elsewhere
  <2>2. Artifact(k[1])' /\ \A o \in StagePhases : o # k[1] => (Artifact(o)' <=> Artifact(o))
    BY <2>1 DEF Artifact, StagePhases
  <2> QED BY <2>1, <2>2, Lands
<1>8. CASE CommitCompanion(k)
  <2>1. /\ UNCHANGED <<phase, verdict, roll, matched, queue, worker, failures>> /\ Elsewhere /\ dirty' = TRUE
        /\ facts' = facts \cup {"companion"} /\ task[k].st = "claimed" /\ SetTask(k, "committed")
    BY <1>8 DEF CommitCompanion, bootVars, Elsewhere
  <2>2. k[1] \in Spawning /\ k = Judged(k[1])
    BY <2>1, TheTask
  <2>3. k[1] = "companion"
    BY <2>1, <2>2 DEF Calm, WorkInv, PersonaCalm
  <2>4. Artifact(k[1])' /\ \A o \in StagePhases : o # k[1] => (Artifact(o)' <=> Artifact(o))
    BY <2>1, <2>3 DEF Artifact, StagePhases
  <2> QED BY <2>1, <2>4, Lands
<1>9. CASE FailTask(k)
  <2>1. /\ UNCHANGED <<Recorded, dirty, queue, worker>> /\ Elsewhere /\ task[k].st \in {"running", "claimed"}
        /\ SetTask(k, "done")
    BY <1>9 DEF FailTask, turnVars, ruleVars, bootVars, Recorded, Elsewhere
  <2>2. PICK kind \in {"cap", "loop"} : failures' = failures \cup {<<k[1], kind>>}
    BY <1>9 DEF FailTask
  <2> DEFINE s == k[1]
  <2>3. /\ s \in Spawning /\ k = Judged(s) /\ Working(s) /\ failures' = failures \cup {<<s, kind>>}
        /\ \A o \in Spawning : o # s => Judged(o) \in TaskIds /\ Judged(o) # k
    BY <2>1, <2>2, TheTask
  <2> HIDE DEF s
  <2>4. task'[k].st = "done" /\ \A o \in TaskIds : o # k => task'[o] = task[o]
    BY <1>0, <2>1, SetTaskEffect
  <2>5. WorkInv' /\ SameCarriers
    BY <2>1, <2>3, <2>4, PersonaFails DEF Recorded
  <2>6. TokenInv' /\ RulesInv'
    BY <2>1, <2>5, Resting DEF Recorded, SameRecord
  <2>7. BarrierInv'
    BY <2>1, BarriersRest DEF Recorded
  <2> QED BY <2>5, <2>6, <2>7 DEF Calm
<1>10. ~RedeliverTask(k)
  BY DEF RedeliverTask
<1> QED BY <1>2, <1>3, <1>4, <1>5, <1>6, <1>7, <1>8, <1>9, <1>10 DEF TaskStep

LEMMA CalmWatcher ==
  ASSUME LoopTyped, Calm, ~Fault, WatcherStep
  PROVE  Calm'
<1>1. CASE RecordLoopFailure
  <2>1. /\ phase' \in TerminalPhases /\ phase' \in Phases /\ dirty' = TRUE /\ failures' = failures \ {watcher}
        /\ watcher' = None /\ watcher # None
        /\ UNCHANGED <<facts, verdict, roll, matched, queue, worker, task, boot, attempts>>
    BY <1>1 DEF RecordLoopFailure, bootVars, TerminalPhases, Phases
  <2>2. watcher \in failures
    BY <2>1 DEF Calm, WorkInv
  <2>3. Rank[phase] <= Rank[phase']
    <3>1. Rank[phase'] = 7
      BY <2>1, Ranks DEF TerminalPhases
    <3> QED BY <3>1, TypeFacts, RankBound
  <2>4. WorkInv' /\ NoCarrier
    BY <2>1, <2>2, <2>3, FailureDone
  <2>5. TokenInv' /\ RulesInv'
    BY <2>1, <2>4, TurnOver
  <2>6. phase' \notin {"adjudicating", "resolving", "applying"}
    BY <2>1 DEF TerminalPhases
  <2>7. BarrierInv'
    BY <2>1, <2>6, BarriersRest
  <2> QED BY <2>4, <2>5, <2>7 DEF Calm
<1>2. ASSUME NEW e \in failures, HandleFailure(e) PROVE Calm'
  <2>1. e[1] \in Spawning /\ Lost(e[1])
    BY <1>2, TypeFacts DEF Lost
  <2>2. phase \notin TerminalPhases
    BY <2>1, AtLoop
  <2>3. /\ watcher' = e /\ UNCHANGED <<dirty, queue, worker, task, failures, boot, attempts>> /\ UNCHANGED Recorded
    BY <1>2, <2>2 DEF HandleFailure, IsTerminal, turnVars, ruleVars, bootVars, Recorded
  <2>4. SameCarriers
    BY <2>3 DEF SameCarriers, Carries, Working, Lost
  <2>5. TokenInv' /\ RulesInv'
    BY <2>3, <2>4, Resting DEF Recorded, SameRecord
  <2>6. \A s \in Spawning : PersonaCalm(s)'
    BY <2>3 DEF PersonaCalm, Working, Lost, Calm, WorkInv, Recorded
  <2>7. WorkInv'
    BY <1>2, <2>3, <2>6 DEF WorkInv, StageCalm, Calm, Recorded
  <2>8. BarrierInv'
    BY <2>3, BarriersRest DEF Recorded
  <2> QED BY <2>5, <2>7, <2>8 DEF Calm
<1>3. ASSUME NEW e \in failures, ExhaustCompanion(e) PROVE Calm'
  <2>1. /\ facts' = facts \cup {"companion"} /\ dirty' = TRUE /\ failures' = failures \ {e}
        /\ e = <<"companion", "cap">> /\ watcher' = None
        /\ UNCHANGED <<phase, verdict, roll, matched, queue, worker, task, boot, attempts>>
    BY <1>3 DEF ExhaustCompanion, bootVars
  <2>2. e[1] = "companion"
    BY <2>1
  <2>3. phase' \in Phases /\ Rank[phase] <= Rank[phase']
    BY <2>1, TypeFacts, RankBound
  <2>4. WorkInv' /\ NoCarrier /\ phase = "companion" /\ "companion" \in StagePhases \ TerminalPhases /\ ~Artifact("companion")
    BY <1>3, <2>1, <2>2, <2>3, FailureDone
  <2>5. Artifact("companion")' /\ \A o \in StagePhases : o # "companion" => (Artifact(o)' <=> Artifact(o))
    BY <2>1 DEF Artifact, StagePhases
  <2>6. TokenInv' /\ RulesInv'
    BY <2>1, <2>4, <2>5, ArtifactLands
  <2>7. BarrierInv'
    BY <2>1, BarriersRest
  <2> QED BY <2>4, <2>6, <2>7 DEF Calm
<1> QED BY <1>1, <1>2, <1>3 DEF WatcherStep

(* A calm turn always has somebody to move it: the stage it expects, or a  *)
(* rule, which matches once the barriers have landed.                      *)
LEMMA CalmIsNotStranded ==
  ASSUME LoopTyped, RecordInv, Calm
  PROVE  ~Stranded
<1> SUFFICES ASSUME Stranded PROVE FALSE
  OBVIOUS
<1>1. /\ phase \in Phases \ TerminalPhases /\ ~dirty /\ failures = {} /\ Unfinished = {}
      /\ \A s \in Subjects : queue[s] = 0
  BY TypeFacts DEF Stranded, IsTerminal
<1>2. ASSUME NEW s \in StagePhases PROVE ~Expected(s)
  <2>1. ~Working(s)
    BY <1>1, TypeFacts DEF Working, Unfinished
  <2>2. ~Lost(s) /\ queue[s] = 0
    BY <1>1, SubjectNames DEF Lost
  <2> QED BY <2>1, <2>2 DEF Carries, Calm, TokenInv
<1>3. phase \in StagePhases => Artifact(phase)
  BY <1>1, <1>2 DEF Expected
<1>4. Due(phase, verdict) \in Rules /\ Successor(phase, verdict) \in StagePhases
  BY <1>1, Hops
<1>5. ~Matches(Due(phase, verdict))
  BY <1>1, <1>2, <1>4 DEF Expected, Calm, RulesInv
<1>6. CASE phase = "accepted"
  BY <1>5, <1>6 DEF Due, Matches
<1>7. CASE phase \in {"interpreting", "resolving", "companion", "narrating"}
  BY <1>3, <1>5, <1>7 DEF Due, Matches, Artifact, StagePhases
<1>8. CASE phase = "adjudicating"
  <2>1. verdict # None
    BY <1>3, <1>8 DEF Artifact, StagePhases
  <2> QED BY <1>5, <1>8, <2>1 DEF Due, Matches
<1>9. CASE phase = "applying"
  <2>1. "batch" \in facts
    BY <1>3, <1>9 DEF Artifact, StagePhases
  <2>2. "case-decision" \in facts
    BY <1>9 DEF RecordInv, Backed, StagesOwedBy
  <2>3. queue["knowledge"] = 0 /\ queue["accusation"] = 0 /\ queue["case-progress"] = 0
    BY <1>1 DEF Subjects, Barriers
  <2>4. {"knowledge", "accusation"} \subseteq facts
    BY <1>9, <2>3 DEF Calm, BarrierInv
  <2>5. Matches("progress") /\ "progress" \in Rules
    BY <1>9, <2>1, <2>2, <2>4 DEF Matches, Rules
  <2>6. "case-progress" \in facts
    BY <1>1, <2>3, <2>5 DEF Calm, RulesInv, BarrierInv
  <2>7. Matches("applied")
    BY <1>9, <2>1, <2>4, <2>6 DEF Matches
  <2> QED BY <1>5, <1>9, <2>7 DEF Due
<1> QED BY <1>1, <1>6, <1>7, <1>8, <1>9 DEF Phases, TerminalPhases

LEMMA CalmInit == Init => Calm
<1> SUFFICES ASSUME Init PROVE Calm
  OBVIOUS
<1>1. /\ phase = "accepted" /\ facts = {} /\ verdict = None /\ roll = None /\ matched = {} /\ dirty = TRUE /\ failures = {}
      /\ watcher = None /\ boot = "up" /\ attempts = 0
  BY DEF Init
<1>2. \A s \in Subjects : queue[s] = 0 /\ worker[s].pc = "idle"
  BY IdleTyped DEF Init
<1>3. \A k \in TaskIds : task[k].st = "none"
  BY DEF Init, Unpublished
<1>4. \A s \in Spawning : Judged(s) \in TaskIds
  BY BoundsAreNat DEF Judged, TaskIds, Attempts
<1>5. \A s \in StagePhases : ~Working(s) /\ ~Lost(s) /\ queue[s] = 0 /\ worker[s].pc = "idle"
  BY <1>1, <1>2, <1>3, <1>4, SubjectNames DEF Working, Lost
<1>6. TokenInv
  BY <1>1, <1>5 DEF TokenInv, Carries, Expected, StagePhases
<1>7. \A s \in StagePhases : StageCalm(s)
  BY <1>5 DEF StageCalm
<1>8. \A s \in Spawning : PersonaCalm(s)
  BY <1>3, <1>4, <1>5, SubjectNames DEF PersonaCalm
<1>9. WorkInv
  BY <1>1, <1>2, <1>7, <1>8, SubjectNames DEF WorkInv
<1>10. RulesInv
  BY <1>1 DEF RulesInv, Artifact, StagePhases
<1>11. BarrierInv
  BY <1>1 DEF BarrierInv
<1> QED BY <1>6, <1>9, <1>10, <1>11 DEF Calm

LEMMA CalmStep ==
  ASSUME ~Mystery, LoopTyped, RecordInv, TaskInv, Calm, [Next]_vars, ~Fault
  PROVE  Calm'
<1>1. CASE UNCHANGED vars
  <2>1. UNCHANGED <<Recorded, dirty, queue, worker, task, failures, watcher, boot, attempts>>
    BY <1>1 DEF vars, turnVars, ruleVars, agentVars, bootVars, Recorded
  <2>2. SameCarriers
    BY <2>1 DEF SameCarriers, Carries, Working, Lost
  <2>3. TokenInv' /\ RulesInv'
    BY <2>1, <2>2, Resting DEF SameRecord, Recorded
  <2>4. \A s \in Spawning : PersonaCalm(s)'
    BY <2>1 DEF PersonaCalm, Working, Lost, Calm, WorkInv, Recorded
  <2>5. WorkInv'
    BY <2>1, <2>4 DEF WorkInv, StageCalm, Calm, Recorded
  <2>6. BarrierInv'
    BY <2>1, BarriersRest DEF Recorded
  <2> QED BY <2>3, <2>5, <2>6 DEF Calm
<1>2. CASE EvaluateRules
  BY <1>2, CalmRules
<1>3. ASSUME NEW s \in Subjects, StageStep(s) \/ StageFails(s) PROVE Calm'
  BY <1>3, CalmStage
<1>4. ASSUME NEW k \in TaskIds, TaskStep(k) \/ RedeliverTask(k) PROVE Calm'
  BY <1>4, CalmTask
<1>5. CASE WatcherStep
  BY <1>5, CalmWatcher
<1>6. ~Crash /\ ~Restart
  BY CalmIsNotStranded DEF Crash, Restart
<1>7. ~BootStep
  BY DEF BootStep, StartRules, ReadStageQueues, ReadTaskQueue, ReconcileTurn, RepublishTrigger, Abandon, StartStages,
     Calm, WorkInv
<1> QED BY <1>1, <1>2, <1>3, <1>4, <1>5, <1>6, <1>7 DEF Next

(* The only way a turn of a plain campaign comes to a halt before its end  *)
(* is a failure of the substrate: as long as every publish, write and      *)
(* acknowledgement goes through and the process lives, some consumer, rule,*)
(* persona or watcher is left to move it.  It is the part of TurnEnds that *)
(* no fairness is needed for, and why the stranded-turn pass finds nothing *)
(* to do then.                                                             *)
NeverStrands == Stranded => faults > 0

(* A stranded turn of a plain campaign is always the trace of a failure.   *)
(* In a mystery a barrier may fail the turn while a stage is between its   *)
(* read of the phase and its write, and the stage then takes it on without *)
(* the barrier's fact, to wait for the next restart (see the README).      *)
THEOREM PlainTurnNeverStrands == ASSUME ~Mystery PROVE Spec => []NeverStrands
<1> DEFINE Quiet == faults = 0 => Calm
<1>1. Init => Quiet
  BY CalmInit
<1>2. LoopTyped /\ RecordInv /\ TaskInv /\ Quiet /\ [Next]_vars => Quiet'
  <2> SUFFICES ASSUME LoopTyped, RecordInv, TaskInv, Quiet, [Next]_vars, faults' = 0 PROVE Calm'
    OBVIOUS
  <2>1. faults = 0
    <3>1. faults \in Nat
      BY BoundsAreNat DEF LoopTyped, TypeOK
    <3>2. \/ faults' = faults
          \/ faults' = faults + 1
      BY DEF Next, StageStep, TaskStep, WatcherStep, BootStep, EvaluateRules, StageFails, RedeliverTask, Crash, Restart,
         Deliver, EnterPhase, Spawn, RecordFailure, ReadVerdict, RecordRoll, PlanBatch, CommitBatch, RunCompanion,
         RunKnowledge, RunAccusation, RunCaseProgress, LandFact, LandNothing, Returns, RunTask, CommitVerdict, CommitDecision,
         CommitNarration, CommitReference, ClaimDecision, CommitCompanion, FinishTask, FailTask, RecordLoopFailure,
         HandleFailure, ExhaustCompanion, StartRules, ReadStageQueues, ReadTaskQueue, ReconcileTurn, RepublishTrigger,
         Abandon, StartStages, Fault, NoFault, vars
    <3> QED BY <3>1, <3>2
  <2> QED BY <2>1, NoFailure, CalmStep
<1>3. LoopTyped /\ RecordInv /\ Quiet => NeverStrands
  <2>1. LoopTyped => faults \in Nat
    BY BoundsAreNat DEF LoopTyped, TypeOK
  <2> QED BY <2>1, CalmIsNotStranded DEF NeverStrands
<1>4. Init => RecordInv
  BY SubjectNames DEF Init, RecordInv, Backed, StagesOwedBy
<1> HIDE DEF Quiet
<1> QED
  BY <1>1, <1>2, <1>3, <1>4, LoopInitTyped, LoopStepTyped, RecordStep, TaskInvInit, TaskInvStep, PTL DEF Spec
=============================================================================
