---------------------------- MODULE CampaignBoot ----------------------------
(***************************************************************************)
(* How an engine process comes up on a campaign: the boot sequence         *)
(* (internal/boot/sequence.go, engine.go), the instantiation gate and its  *)
(* completion marker (internal/campaign), the world import                 *)
(* (internal/world/importer.go) and its readbacks (internal/boot/world.go),*)
(* and the rule-readiness check before the stranded-turn pass (checks.go). *)
(*                                                                         *)
(* Several processes may boot against one deployment; each runs its steps  *)
(* in order and any of them may crash between two round trips.  Graph      *)
(* ingest applies published entities later, on its own consumer, and every *)
(* process rebuilds its own reverse index.  Both are external components,  *)
(* modelled from what the readbacks wait for.                              *)
(***************************************************************************)
EXTENDS Naturals, Sequences, FiniteSets

CONSTANTS
  Engines,    \* processes that boot against the deployment
  Requested,  \* the experience each one's plan selects
  Plan,       \* the planned entities, in the order they are published
  Members,    \* the entities with a membership edge in the plan
  Impatient,  \* whether a wait may time out before it is hopeless
  Faulty,     \* whether a publish or a step may fail
  MaxStarts,  \* bound: process starts
  None

Entities == {Plan[i] : i \in DOMAIN Plan}
Experiences == {Requested[e] : e \in Engines}
Seeds == 1 .. MaxStarts
Campaigns == [seed : Seeds, exp : Experiences, marked : BOOLEAN]

(* A package declares each local id once, so a plan names no entity twice. *)
ASSUME BootAssumption ==
  /\ IsFiniteSet(Engines) /\ Engines # {}
  /\ DOMAIN Requested = Engines
  /\ Plan \in Seq(Entities) /\ Plan # <<>>
  /\ \A i, j \in DOMAIN Plan : Plan[i] = Plan[j] => i = j
  /\ Members # {} /\ Members \subseteq Entities
  /\ {Impatient, Faulty} \subseteq BOOLEAN
  /\ MaxStarts \in Nat
  /\ None \notin Campaigns

(* Engine.steps: the declared order, and what each step needs done first.  *)
StepOrder ==
  <<"connect", "streams", "entity-stream", "graph", "agent-stream", "world", "personas",
    "agentic", "lifecycle", "stage-stream", "knowledge", "accusation", "case-progress",
    "rules", "resume", "loop-failures", "stages", "egress", "ledger", "action-stream",
    "intake", "ingress">>

Steps == {StepOrder[i] : i \in DOMAIN StepOrder}

Barriers == {"knowledge", "accusation", "case-progress"}

Needs == [s \in Steps |->
  CASE s = "connect" -> {}
    [] s = "streams" -> {"connect"}
    [] s \in {"entity-stream", "agent-stream", "stage-stream", "action-stream"} -> {"streams"}
    [] s = "graph" -> {"connect", "entity-stream"}
    [] s = "world" -> {"graph"}
    [] s = "personas" -> {"connect", "world"}
    [] s = "agentic" -> {"agent-stream", "personas"}
    [] s = "lifecycle" -> {"world", "graph"}
    [] s = "knowledge" -> {"stage-stream", "graph", "world"}
    [] s \in {"accusation", "case-progress"} -> {"stage-stream", "graph", "world", "lifecycle"}
    [] s = "rules" -> {"stage-stream", "graph", "world", "lifecycle"} \cup Barriers
    [] s = "resume" -> {"rules", "stage-stream", "agent-stream", "agentic", "world"} \cup Barriers
    [] s = "loop-failures" -> {"resume", "agent-stream", "world"}
    [] s = "stages" -> {"loop-failures", "agentic", "world"}
    [] s = "egress" -> {"stage-stream", "resume"}
    [] s = "ledger" -> {"world", "resume"}
    [] s = "intake" -> {"action-stream", "stages", "egress", "ledger", "world"}
    [] OTHER -> {"intake"}]

VARIABLES
  campaign,   \* the campaign entity: its seed, experience and import marker, or None
  entityLog,  \* the ENTITY stream
  ingested,   \* how much of it graph-ingest has applied
  world,      \* entity -> "unborn", "template" as imported, or "played"
  casePhase,  \* the case lifecycle: "none", "cold-open" or "discovery"
  status,     \* GRAPH_STATUS/rule: its revision, its writer and whether it is ready
  leftover,   \* the claim found the messages of an abandoned import (history)
  engine,     \* process -> where it is in its sequence
  index,      \* process -> the membership edges its reverse index carries
  starts      \* process starts so far

graphVars == <<entityLog, ingested, world, casePhase>>
storeVars == <<campaign, graphVars, status, leftover>>
vars == <<storeVars, engine, index, starts>>

Down == [st |-> "down", at |-> 1, pc |-> "run", fresh |-> FALSE, seed |-> 0, sent |-> 0,
         baseline |-> 0, rules |-> "none", lone |-> FALSE, marker |-> FALSE]
Refused == [Down EXCEPT !.st = "refused"]

(* The step a process is running, and the ones it has completed.           *)
Step(e) == StepOrder[engine[e].at]
Done(e) == IF engine[e].st = "up" THEN Steps
           ELSE {StepOrder[i] : i \in 1 .. engine[e].at - 1}
Alive(e) == engine[e].st \in {"booting", "up"}
Past(e, s) == Alive(e) /\ s \in Done(e)

EngineStates ==
  [st : {"down", "booting", "up", "refused"}, at : DOMAIN StepOrder,
   pc : {"run", "publish", "born", "indexed", "mark", "marker", "wait", "last", "start"},
   fresh : BOOLEAN, seed : 0 .. MaxStarts, sent : 0 .. Len(Plan),
   baseline : 0 .. 2 * MaxStarts, rules : {"none", "building", "ready"},
   lone : BOOLEAN, marker : BOOLEAN]

(* Every variable has its type.                                            *)
TypeOK ==
  /\ campaign \in Campaigns \cup {None}
  /\ entityLog \in Seq(Entities)
  /\ ingested \in 0 .. Len(entityLog)
  /\ world \in [Entities -> {"unborn", "template", "played"}]
  /\ casePhase \in {"none", "cold-open", "discovery"}
  /\ status \in [rev : 0 .. 2 * MaxStarts, by : Engines \cup {None}, ready : BOOLEAN]
  /\ engine \in [Engines -> EngineStates]
  /\ leftover \in BOOLEAN
  /\ index \in [Engines -> SUBSET Members]
  /\ starts \in 0 .. MaxStarts

Init ==
  /\ campaign = None
  /\ entityLog = <<>>
  /\ ingested = 0
  /\ world = [x \in Entities |-> "unborn"]
  /\ casePhase = "none"
  /\ status = [rev |-> 0, by |-> None, ready |-> FALSE]
  /\ leftover = FALSE
  /\ engine = [e \in Engines |-> Down]
  /\ index = [e \in Engines |-> {}]
  /\ starts = 0

-----------------------------------------------------------------------------
(* The sequence.                                                           *)

(* A step ends: the next one begins, or the process is serving.            *)
Finished(e, r) ==
  IF r.at = Len(StepOrder)
    THEN [r EXCEPT !.st = "up", !.pc = "run"]
    ELSE [r EXCEPT !.at = @ + 1, !.pc = "run"]
Complete(e) == engine' = [engine EXCEPT ![e] = Finished(e, @)]

(* Engine.Start's failure path: Stop takes down everything the process     *)
(* started, and the operator is told why.                                  *)
Refuse(e) ==
  /\ engine' = [engine EXCEPT ![e] = [Refused EXCEPT !.marker = engine[e].marker]]
  /\ index' = [index EXCEPT ![e] = {}]

(* A process starts.  Another one that is alive from here on may write     *)
(* what this one waits for, so neither is alone any more.                  *)
Start(e) ==
  /\ ~Alive(e)
  /\ starts < MaxStarts
  /\ starts' = starts + 1
  /\ LET lone == \A o \in Engines \ {e} : ~Alive(o)
     IN engine' = [o \in Engines |->
          IF o = e THEN [Down EXCEPT !.st = "booting", !.lone = lone]
          ELSE [engine[o] EXCEPT !.lone = FALSE]]
  /\ UNCHANGED <<storeVars, index>>

(* Sequence.RunThrough, for the steps that only bind or ensure something   *)
(* of this process: prerequisites are tested, the step runs, it is done.   *)
Plain(s) == s \notin {"world", "lifecycle", "rules", "resume", "stages", "intake"}

Runnable(e) == engine[e].st = "booting" /\ Needs[Step(e)] \subseteq Done(e)

RunStep(e) ==
  /\ Runnable(e)
  /\ Plain(Step(e))
  /\ Complete(e)
  /\ UNCHANGED <<storeVars, index, starts>>

(* A prerequisite is missing: the sequence refuses to go on.               *)
MissingStep(e) == engine[e].st = "booting" /\ ~(Needs[Step(e)] \subseteq Done(e))

(* Any step's own error.                                                   *)
StepFails(e) ==
  /\ MissingStep(e) \/ (Faulty /\ engine[e].st = "booting")
  /\ Refuse(e)
  /\ UNCHANGED <<storeVars, starts>>

(* The process dies: whatever it was running stops with it.                *)
Crash(e) ==
  /\ Alive(e)
  /\ engine' = [engine EXCEPT ![e] = Down]
  /\ index' = [index EXCEPT ![e] = {}]
  /\ UNCHANGED <<storeVars, starts>>

-----------------------------------------------------------------------------
(* The world step: claim, then import and mark, or wait for the marker.    *)

At(e, s, pc) == Runnable(e) /\ Step(e) = s /\ engine[e].pc = pc
Goto(e, pc) == engine' = [engine EXCEPT ![e].pc = pc]

(* Gate.Claim, the winner: one atomic create decides who imports.  The     *)
(* create may commit and its reply be lost past the read-back.             *)
ClaimFresh(e) ==
  /\ At(e, "world", "run")
  /\ campaign = None
  /\ campaign' = [seed |-> starts, exp |-> Requested[e], marked |-> FALSE]
  /\ leftover' = (entityLog # <<>>)
  /\ \/ /\ engine' = [engine EXCEPT ![e].pc = "publish", ![e].fresh = TRUE, ![e].seed = starts]
        /\ UNCHANGED index
     \/ Faulty /\ Refuse(e)
  /\ UNCHANGED <<graphVars, status, starts>>

(* Gate.Claim, the loser: it takes the stored seed and experience, and     *)
(* refuses an experience that is not its own.                              *)
ClaimStored(e) ==
  /\ At(e, "world", "run")
  /\ campaign # None
  /\ \/ /\ campaign.exp = Requested[e]
        /\ engine' = [engine EXCEPT ![e].pc = "marker", ![e].seed = campaign.seed]
        /\ UNCHANGED index
     \/ campaign.exp # Requested[e] /\ Refuse(e)
  /\ UNCHANGED <<storeVars, starts>>

(* Importer.Import: one acknowledged publish per planned entity, in order; *)
(* a publish may be stored and its acknowledgement lost.                   *)
Import(e) ==
  /\ At(e, "world", "publish")
  /\ engine[e].sent < Len(Plan)
  /\ entityLog' = Append(entityLog, Plan[engine[e].sent + 1])
  /\ \/ /\ engine' = [engine EXCEPT ![e].sent = @ + 1,
                    ![e].pc = IF engine[e].sent + 1 = Len(Plan) THEN "born" ELSE @]
        /\ UNCHANGED index
     \/ Faulty /\ Refuse(e)
  /\ UNCHANGED <<campaign, ingested, world, casePhase, status, leftover, starts>>

(* Mutant of AwaitEntitiesBorn: a durable publish is taken for a birth.    *)
AwaitEntitiesBornSkipped(e) ==
  /\ At(e, "world", "born")
  /\ Goto(e, "indexed")
  /\ UNCHANGED <<storeVars, index, starts>>

(* awaitEntitiesBorn: every planned entity must be readable.               *)
AwaitEntitiesBorn(e) ==
  /\ At(e, "world", "born")
  /\ \A x \in Entities : world[x] # "unborn"
  /\ Goto(e, "indexed")
  /\ UNCHANGED <<storeVars, index, starts>>

(* Mutant of AwaitMembershipIndexed: an index that has caught up with      *)
(* nothing is taken for ready.                                             *)
AwaitMembershipIndexedEmpty(e) ==
  /\ \/ At(e, "world", "indexed") /\ Goto(e, "mark")
     \/ At(e, "world", "last") /\ Complete(e)
  /\ UNCHANGED <<storeVars, index, starts>>

(* awaitMembershipIndexed: every edge the PLAN declares must be in the     *)
(* index, on the import path and once more on every path.                  *)
AwaitMembershipIndexed(e) ==
  /\ index[e] = Members
  /\ \/ At(e, "world", "indexed") /\ Goto(e, "mark")
     \/ At(e, "world", "last") /\ Complete(e)
  /\ UNCHANGED <<storeVars, index, starts>>

(* MarkImported: only a claim that came back fresh may write the marker,   *)
(* which the merge lane adds beside the seed.                              *)
MarkImported(e) ==
  /\ At(e, "world", "mark")
  /\ engine[e].fresh
  /\ campaign # None
  /\ campaign' = [campaign EXCEPT !.marked = TRUE]
  /\ Goto(e, "last")
  /\ UNCHANGED <<graphVars, status, leftover, index, starts>>

(* ImportCompletion, on a campaign another boot created.                   *)
ImportCompletion(e) ==
  /\ At(e, "world", "marker")
  /\ engine' = [engine EXCEPT ![e].pc = IF campaign.marked THEN "last" ELSE "wait",
                              ![e].marker = campaign.marked]
  /\ UNCHANGED <<storeVars, index, starts>>

(* AwaitImportCompletion: the poll that finds the marker.                  *)
AwaitImportCompletion(e) ==
  /\ At(e, "world", "wait")
  /\ campaign.marked
  /\ Goto(e, "last")
  /\ UNCHANGED <<storeVars, index, starts>>

(* What a wait can still hope for.                                         *)
Importing(e) == At(e, "world", engine[e].pc) /\ engine[e].pc \in {"publish", "born", "indexed", "mark"}
IndexCaughtUp(e) == index[e] = {m \in Members : world[m] = "template"}
Hopeless(e) ==
  CASE engine[e].pc = "wait"  -> ~campaign.marked /\ \A o \in Engines : ~Importing(o)
    [] engine[e].pc \in {"indexed", "last"} ->
         ingested = Len(entityLog) /\ IndexCaughtUp(e) /\ index[e] # Members
    [] OTHER -> FALSE

(* Mutant of WaitExpires: the wait for another process's marker is         *)
(* unbounded.                                                              *)
WaitExpiresNever(e) ==
  /\ \/ At(e, "world", "born") /\ \E x \in Entities : world[x] = "unborn"
     \/ (At(e, "world", "indexed") \/ At(e, "world", "last")) /\ index[e] # Members
  /\ Impatient \/ Hopeless(e)
  /\ Refuse(e)
  /\ UNCHANGED <<storeVars, starts>>

(* The bound on each of the world step's waits: the boot fails and says    *)
(* what is missing.  It cannot tell a slow importer from a crashed one.    *)
WaitExpires(e) ==
  /\ \/ At(e, "world", "wait") /\ ~campaign.marked
     \/ At(e, "world", "born") /\ \E x \in Entities : world[x] = "unborn"
     \/ (At(e, "world", "indexed") \/ At(e, "world", "last")) /\ index[e] # Members
  /\ Impatient \/ Hopeless(e)
  /\ Refuse(e)
  /\ UNCHANGED <<storeVars, starts>>

-----------------------------------------------------------------------------
(* Steps with a state of their own after the world.                        *)

(* Mutant of AttachCaseLifecycle: the case is re-attached at its opening.  *)
AttachCaseLifecycleResets(e) ==
  /\ At(e, "lifecycle", "run")
  /\ casePhase' = "cold-open"
  /\ Complete(e)
  /\ UNCHANGED <<campaign, entityLog, ingested, world, status, leftover, index, starts>>

(* attachCaseLifecycle: a case that has a lifecycle keeps its phase.       *)
AttachCaseLifecycle(e) ==
  /\ At(e, "lifecycle", "run")
  /\ casePhase' = IF casePhase = "none" THEN "cold-open" ELSE casePhase
  /\ Complete(e)
  /\ UNCHANGED <<campaign, entityLog, ingested, world, status, leftover, index, starts>>

(* Mutant of CaptureRuleStatusBaseline: no baseline is taken.              *)
CaptureRuleStatusBaselineZero(e) ==
  /\ At(e, "rules", "run")
  /\ Goto(e, "start")
  /\ UNCHANGED <<storeVars, index, starts>>

(* startRules, first half: the status a dead process left is remembered.   *)
CaptureRuleStatusBaseline(e) ==
  /\ At(e, "rules", "run")
  /\ engine' = [engine EXCEPT ![e].baseline = status.rev, ![e].pc = "start"]
  /\ UNCHANGED <<storeVars, index, starts>>

(* startRules, second half: the processor starts and begins its replay.    *)
StartRules(e) ==
  /\ At(e, "rules", "start")
  /\ engine' = [engine EXCEPT ![e] = [Finished(e, @) EXCEPT !.rules = "building"]]
  /\ UNCHANGED <<storeVars, index, starts>>

(* External: the rule processor publishes its status, building while it    *)
(* replays the entities and ready once it has.                             *)
PublishRuleStatus(e) ==
  /\ Alive(e)
  /\ \/ /\ engine[e].rules = "building"
        /\ ~(status.by = e /\ ~status.ready)
        /\ status' = [rev |-> status.rev + 1, by |-> e, ready |-> FALSE]
        /\ UNCHANGED engine
     \/ /\ engine[e].rules = "building"
        /\ status.by = e /\ ~status.ready
        /\ status' = [rev |-> status.rev + 1, by |-> e, ready |-> TRUE]
        /\ engine' = [engine EXCEPT ![e].rules = "ready"]
  /\ status.rev < 2 * MaxStarts
  /\ UNCHANGED <<campaign, graphVars, leftover, index, starts>>

(* checkRuleProcessorStarted and the stranded-turn pass it protects.  The  *)
(* pass itself is TurnLoop's; its errors are logged and boot goes on.      *)
CheckRuleReadiness(e) ==
  /\ At(e, "resume", "run")
  /\ status.rev > engine[e].baseline /\ status.ready
  /\ Complete(e)
  /\ UNCHANGED <<storeVars, index, starts>>

(* The readiness wait ends: the generation did not become ready in time.   *)
RuleReadinessExpires(e) ==
  /\ At(e, "resume", "run")
  /\ Impatient
  /\ ~(status.rev > engine[e].baseline /\ status.ready)
  /\ Refuse(e)
  /\ UNCHANGED <<storeVars, starts>>

(* checkImportMarked, before a persona can run and before intake opens.    *)
CheckImportMarked(e) ==
  /\ At(e, "stages", "run") \/ At(e, "intake", "run")
  /\ \/ campaign # None /\ campaign.marked /\ Complete(e) /\ UNCHANGED index
     \/ (campaign = None \/ ~campaign.marked) /\ Refuse(e)
  /\ UNCHANGED <<storeVars, starts>>

-----------------------------------------------------------------------------
(* The rest of the deployment.                                             *)

(* External: graph-ingest applies the next import message, wherever it     *)
(* runs; the message replaces every predicate the template declares.       *)
GraphIngest ==
  /\ \E e \in Engines : Past(e, "graph")
  /\ ingested < Len(entityLog)
  /\ ingested' = ingested + 1
  /\ world' = [world EXCEPT ![entityLog[ingested + 1]] = "template"]
  /\ UNCHANGED <<campaign, entityLog, casePhase, status, leftover, engine, index, starts>>

(* External: a process's graph-index catches up with one member.           *)
GraphIndex(e) ==
  /\ Past(e, "graph")
  /\ \E m \in Members :
       LET now == IF world[m] = "template" THEN index[e] \cup {m} ELSE index[e] \ {m}
       IN now # index[e] /\ index' = [index EXCEPT ![e] = now]
  /\ UNCHANGED <<storeVars, engine, starts>>

(* Play: a committed move_entity takes a member away from where the        *)
(* template put it, and a turn moves the case on.                          *)
Play(e) ==
  /\ engine[e].st = "up"
  /\ \/ /\ \E m \in Members :
             /\ world[m] = "template"
             /\ world' = [world EXCEPT ![m] = "played"]
        /\ UNCHANGED casePhase
     \/ casePhase = "cold-open" /\ casePhase' = "discovery" /\ UNCHANGED world
  /\ UNCHANGED <<campaign, entityLog, ingested, status, leftover, engine, index, starts>>

(* The recovery AwaitImportCompletion's message asks of an operator: with  *)
(* every process stopped, an unmarked campaign entity is deleted.          *)
OperatorDeletes ==
  /\ \A e \in Engines : ~Alive(e)
  /\ campaign # None
  /\ ~campaign.marked
  /\ campaign' = None
  /\ UNCHANGED <<graphVars, status, leftover, engine, index, starts>>

BootStep(e) ==
  \/ RunStep(e) \/ ClaimFresh(e) \/ ClaimStored(e) \/ Import(e) \/ AwaitEntitiesBorn(e) \/ AwaitMembershipIndexed(e)
  \/ MarkImported(e) \/ ImportCompletion(e) \/ AwaitImportCompletion(e) \/ WaitExpires(e)
  \/ AttachCaseLifecycle(e) \/ CaptureRuleStatusBaseline(e) \/ StartRules(e)
  \/ CheckRuleReadiness(e) \/ RuleReadinessExpires(e) \/ CheckImportMarked(e)

Next ==
  \/ \E e \in Engines : Start(e) \/ BootStep(e) \/ StepFails(e) \/ Crash(e)
                        \/ PublishRuleStatus(e) \/ GraphIndex(e) \/ Play(e)
  \/ GraphIngest
  \/ OperatorDeletes

Spec == Init /\ [][Next]_vars

(* A step that can run runs, a wait that is not over expires, and the      *)
(* components a process started keep working.                              *)
Fairness ==
  /\ \A e \in Engines : WF_vars(BootStep(e)) /\ WF_vars(PublishRuleStatus(e)) /\ WF_vars(GraphIndex(e))
  /\ WF_vars(GraphIngest)

FairSpec == Spec /\ Fairness

-----------------------------------------------------------------------------
(* Every process past the claim plays the one campaign: it holds the seed  *)
(* and the experience the campaign entity records, through races of two    *)
(* claims, restarts and an operator's reset.                               *)
OneCampaign ==
  \A e \in Engines : Past(e, "world") =>
    /\ campaign # None
    /\ engine[e].seed = campaign.seed
    /\ Requested[e] = campaign.exp

(* The world that is served is the whole one: a process past its stage     *)
(* step (where a persona can first run) plays the one campaign, its import *)
(* is marked, every planned entity was born, and the process's own index   *)
(* carries every member that is still where the template put it (a message *)
(* left by an abandoned import may move one back under it).                *)
ServedWorldIsWhole ==
  /\ OneCampaign
  /\ \A e \in Engines : Past(e, "stages") =>
       /\ campaign.marked
       /\ \A x \in Entities : world[x] # "unborn"
       /\ \A m \in Members : world[m] = "template" /\ ~leftover => m \in index[e]

(* The marker certifies the import: a marked campaign has every planned    *)
(* entity born, whichever process wrote it and however many imports were   *)
(* abandoned before, and nothing of its own import is still on its way     *)
(* unless the claim followed an abandoned one.                             *)
MarkerCertifiesImport ==
  campaign # None /\ campaign.marked =>
    /\ \A x \in Entities : world[x] # "unborn"
    /\ ~leftover => ingested = Len(entityLog)

(* No restart, late message or re-attached lifecycle undoes play: what a   *)
(* turn changed is never put back to what the template says (with the same *)
(* exception: entities born of an abandoned import satisfy the readback    *)
(* while the messages of the new one are still queued).                    *)
PlayIsNeverUndone ==
  [][/\ \A x \in Entities : world[x] = "played" /\ ~leftover => world'[x] = "played"
     /\ casePhase = "discovery" => casePhase' = "discovery"]_vars

(* A process that is alone runs its stranded-turn pass only after its OWN  *)
(* rule processor replayed the entities: a ready status left by a process  *)
(* that died is never taken for it.                                        *)
PassWaitsForOwnRules ==
  \A e \in Engines : Past(e, "resume") /\ engine[e].lone => engine[e].rules = "ready"

(* A boot never hangs: whatever it waits for, it ends up serving, refused  *)
(* or dead.                                                                *)
BootSettles == \A e \in Engines : engine[e].st = "booting" ~> engine[e].st # "booting"

(* instantiate's contract: "campaign WITH a marker - instantiated and      *)
(* imported; skip".  A boot that read the marker, with nothing failing and *)
(* no wait cut short, is not refused.                                      *)
MarkedCampaignIsServed ==
  \A e \in Engines : engine[e].st = "refused" => ~engine[e].marker
=============================================================================
