------------------------------ MODULE CaseFlow ------------------------------
(***************************************************************************)
(* A mystery being played: turns of several players, each with the case    *)
(* decision its interpreter recorded, pass the knowledge barrier           *)
(* (internal/knowledge), the accusation barrier (internal/accusation), the *)
(* progress barrier (internal/caseflow), the companion stage               *)
(* (internal/stage/companion.go, internal/companion) and narration, all of *)
(* them durable consumers of one stage stream that read and write the same *)
(* case.  The case advances by a receipt: one slot on the case entity,     *)
(* replaced by whoever records an event, which a rule turns into a         *)
(* lifecycle transition.                                                   *)
(*                                                                         *)
(* Left to TurnLoop: the phases of a turn, the persona loops (an automatic *)
(* warning among them) and the effects.  Here a turn goes from one barrier *)
(* to the next when the sequencing rules would publish the trigger.        *)
(***************************************************************************)
EXTENDS CaseRules

CONSTANTS
  Turns,        \* turns that may be played
  PlayerOf,     \* turn -> its player
  Controls,     \* player -> the character played
  CompanionOf,  \* player -> the bonded companion, or None
  Choices,      \* turn -> the decisions its interpreter may record
  Places,       \* targets that are places, where a companion may stand by
  StartPhases,  \* phases the case may be in when the first turn starts
  StartKnown,   \* the knowledge the world was imported with
  MaxFaults     \* bound: interrupted deliveries and repeated triggers

Barriers == {"knowledge", "accusation", "case-progress"}
Consumers == Barriers \cup {"companion", "narration"}
Endings == {"complete", "knowledge-unauthorized", "case-progress-invalid", "accusation-invalid"}

(* What a companion may say: a hint of a level, citing evidence, or        *)
(* nothing.                                                                *)
Levels == {HintLevels[i] : i \in DOMAIN HintLevels}
Hints == {Silent} \cup [level : Levels, cites : SUBSET CaseEvidence]

ASSUME CaseAssumption ==
  /\ PlayerOf \in [Turns -> DOMAIN Controls]
  /\ DOMAIN CompanionOf = DOMAIN Controls
  /\ \A p \in DOMAIN Controls : Controls[p] # CompanionOf[p]
  /\ StartPhases \subseteq Phases /\ StartPhases # {}
  /\ \A t \in Turns : \A d \in Choices[t] : ValidDecision(d) /\ d # None
  /\ \A k \in StartKnown : k[2] \notin SolutionLocked
  /\ \A e \in DOMAIN Reveal : Reveal[e].phase \in Phases
  /\ MaxFaults \in Nat
  /\ IsFiniteSet(CaseEvidence)
  /\ None \notin Phases \cup Events \cup Endings \cup {"none", "correct", "incorrect", "nudge", "connect", "next-step"}
  /\ None \notin Hints

ActorOf(t) == Controls[PlayerOf[t]]
CompanionFor(t) == CompanionOf[PlayerOf[t]]

VARIABLES
  phase,     \* case.lifecycle.phase
  receipt,   \* the receipt slot of the case: the event last recorded
  decision,  \* turn -> the case decision recorded for it, or None
  ended,     \* turn -> how it ended, or None
  known,     \* knowledge entities: <<holder, evidence>>
  revealed,  \* revelation entities: a turn and the entry it granted
  record,    \* turn -> barrier -> the record its reference names, or None
  hint,      \* companion -> the hint level of its bond
  claim,     \* turn -> the companion decision claimed for it, or None
  object,    \* turn -> whether the claimed decision is in the object store
  staged,    \* turn -> the decision its companion stage record names, or None
  told,      \* turn -> what its narration was given, or None
  queue,     \* unacknowledged triggers: <<consumer, turn>>
  sent,      \* triggers ever published
  worker,    \* consumer -> the delivery it works on
  faults

turnVars == <<decision, ended, record, told>>
graphVars == <<known, revealed>>
companionVars == <<hint, claim, object, staged>>
streamVars == <<queue, sent>>
vars == <<phase, receipt, turnVars, graphVars, companionVars, streamVars, worker, faults>>

(* A delivery: where its handler is, the turn, the event being recorded,   *)
(* and what was read at the start.                                         *)
Idle == [pc |-> "idle", turn |-> None, event |-> None, seen |-> None]
At(c, pc) == worker[c].pc = pc
Turn(c) == worker[c].turn
Go(c, t, pc, event, seen) ==
  worker' = [worker EXCEPT ![c] = [pc |-> pc, turn |-> t, event |-> event, seen |-> seen]]
Goto(c, pc) == Go(c, Turn(c), pc, worker[c].event, worker[c].seen)

(* A handler's first step takes an unacknowledged trigger and reads.       *)
Deliver(c, t) == worker[c] = Idle /\ <<c, t>> \in queue
Begin(c, t, pc, seen) == Go(c, t, pc, None, seen) /\ queue' = queue

Ack(c, t) == worker' = [worker EXCEPT ![c] = Idle] /\ queue' = queue \ {<<c, t>>}
Nak(c) == worker' = [worker EXCEPT ![c] = Idle] /\ queue' = queue

(* Recorder.Fail: the first reason stays; a complete turn cannot fail.     *)
FailTurn(c, t, reason) ==
  /\ ended' = [ended EXCEPT ![t] = IF @ = None THEN reason ELSE @]
  /\ IF ended[t] = "complete" THEN Nak(c) ELSE Ack(c, t)

Earlier == [id |-> "earlier", kind |-> None]
Init ==
  /\ phase \in StartPhases
  /\ receipt = (IF phase = "cold-open" THEN None
                ELSE [Earlier EXCEPT !.kind = CHOOSE k \in Events : To(k) = phase])
  /\ decision = [t \in Turns |-> None]
  /\ ended = [t \in Turns |-> None]
  /\ known = StartKnown
  /\ revealed = {}
  /\ record = [t \in Turns |-> [b \in Barriers |-> None]]
  /\ hint = [p \in DOMAIN Controls |-> HintLevels[1]]
  /\ claim = [t \in Turns |-> None]
  /\ object = [t \in Turns |-> FALSE]
  /\ staged = [t \in Turns |-> None]
  /\ told = [t \in Turns |-> None]
  /\ queue = {} /\ sent = {}
  /\ worker = [c \in Consumers |-> Idle]
  /\ faults = 0

-----------------------------------------------------------------------------
(* The turn around the barriers.                                           *)

Publish(ts) == queue' = queue \cup (ts \ sent) /\ sent' = sent \cup ts

(* Interpreted: the decision is recorded, and the rule starts both         *)
(* barriers at once.  A player has one turn at a time.                     *)
Interpret(t) ==
  /\ decision[t] = None
  /\ \A u \in Turns : PlayerOf[u] = PlayerOf[t] /\ decision[u] # None => ended[u] # None
  /\ \E d \in Choices[t] : decision' = [decision EXCEPT ![t] = d]
  /\ Publish({<<"knowledge", t>>, <<"accusation", t>>})
  /\ UNCHANGED <<phase, receipt, ended, record, told, graphVars, companionVars, worker, faults>>

(* The rules of a live turn: knowledge opens progress, the three barriers  *)
(* open companionship, and its stage record opens narration.               *)
Sequence(t) ==
  LET open == {<<"case-progress", t>> : x \in {y \in {1} : record[t]["knowledge"] # None}}
                \cup {<<"companion", t>> : x \in {y \in {1} : \A b \in Barriers : record[t][b] # None}}
                \cup {<<"narration", t>> : x \in {y \in {1} : staged[t] # None}}
  IN /\ ended[t] = None
     /\ ~(open \subseteq sent)
     /\ Publish(open)
     /\ UNCHANGED <<phase, receipt, turnVars, graphVars, companionVars, worker, faults>>

(* A round trip fails, or the process dies: the delivery is repeated.      *)
Interrupt(c) ==
  /\ worker[c] # Idle /\ faults < MaxFaults
  /\ Nak(c) /\ faults' = faults + 1
  /\ UNCHANGED <<phase, receipt, turnVars, graphVars, companionVars, sent>>

(* An acknowledgement is lost: the trigger is delivered once more.         *)
Redeliver(c, t) ==
  /\ <<c, t>> \in sent \ queue /\ faults < MaxFaults
  /\ queue' = queue \cup {<<c, t>>} /\ faults' = faults + 1
  /\ UNCHANGED <<phase, receipt, turnVars, graphVars, companionVars, sent, worker>>

-----------------------------------------------------------------------------
(* Recording an event of the case, for progress and accusation alike:      *)
(* Recorder.Record reads the case, then replaces its receipt.              *)

Event(t, kind) == [id |-> t, kind |-> kind]

(* A receipt of this very event, or a case already past it: nothing to do. *)
AlreadyRecorded(e) == receipt = e \/ phaseRank(phase) > phaseRank(From(e.kind))

(* Mutant of OutOfOrder: an event ahead of its phase is recorded.          *)
NeverOutOfOrder(e) == FALSE

OutOfOrder(e) == receipt # e /\ phaseRank(phase) < phaseRank(From(e.kind))

AfterRecord(c) ==
  \/ c = "case-progress" /\ Goto(c, "land") /\ queue' = queue
  \/ c = "accusation" /\ worker[c].event.kind = "accusation-submitted" /\ Goto(c, "check") /\ queue' = queue
  \/ c = "accusation" /\ worker[c].event.kind = "accusation-correct" /\ Ack(c, Turn(c))

(* An event out of order ends the turn of a progress consumer; to the      *)
(* accusation consumer it is an ordinary error, so that the delivery is    *)
(* repeated until the case has caught up.                                  *)
Record(c) ==
  LET e == worker[c].event
  IN /\ At(c, "record")
     /\ \/ OutOfOrder(e) /\ c = "accusation" /\ Nak(c) /\ UNCHANGED ended
        \/ OutOfOrder(e) /\ c = "case-progress" /\ FailTurn(c, Turn(c), "case-progress-invalid")
        \/ ~OutOfOrder(e) /\ AlreadyRecorded(e) /\ AfterRecord(c) /\ UNCHANGED ended
        \/ ~OutOfOrder(e) /\ ~AlreadyRecorded(e) /\ Goto(c, "write") /\ UNCHANGED <<ended, queue>>
     /\ UNCHANGED <<phase, receipt, decision, record, told, graphVars, companionVars, sent, faults>>

WriteReceipt(c) ==
  /\ At(c, "write")
  /\ receipt' = worker[c].event
  /\ AfterRecord(c)
  /\ UNCHANGED <<phase, turnVars, graphVars, companionVars, sent, faults>>

(* The four case lifecycle rules.                                          *)
CaseRule ==
  /\ receipt # None
  /\ phase = From(receipt.kind)
  /\ phase' = To(receipt.kind)
  /\ UNCHANGED <<receipt, turnVars, graphVars, companionVars, streamVars, worker, faults>>

-----------------------------------------------------------------------------
(* The knowledge barrier.                                                  *)

(* The companion witnesses what is revealed when it stands at a place the  *)
(* decision targets; where it stands is not kept here.                     *)
Witness(t) ==
  {None} \cup {c \in {CompanionFor(t)} : decision[t].targets \cap Places # {}}

Denied(t) ==
  /\ decision[t].kind # "not-applicable"
  /\ Refuses(decision[t], ActorOf(t), phase, known, CompanionFor(t))
Plan(t, w) ==
  IF decision[t].kind = "not-applicable" THEN {} ELSE Authorize(decision[t], ActorOf(t), w)

(* Mutant of LoadKnowledge: the reference lands before the grants.         *)
LoadKnowledgeLandsFirst(t) ==
  /\ Deliver("knowledge", t)
  /\ ~Denied(t)
  /\ \E w \in Witness(t) :
       /\ record' = [record EXCEPT ![t]["knowledge"] = Plan(t, w)]
       /\ Begin("knowledge", t, "grant", Plan(t, w))
  /\ UNCHANGED <<phase, receipt, decision, ended, told, graphVars, companionVars, sent, faults>>

(* Load and authorize: a refusal ends the turn.                            *)
LoadKnowledge(t) ==
  /\ Deliver("knowledge", t)
  /\ \/ Denied(t) /\ FailTurn("knowledge", t, "knowledge-unauthorized")
     \/ /\ ~Denied(t)
        /\ \E w \in Witness(t) : Begin("knowledge", t, "grant", Plan(t, w))
        /\ UNCHANGED ended
  /\ UNCHANGED <<phase, receipt, decision, record, told, graphVars, companionVars, sent, faults>>

(* commit: every knowledge entity, then every revelation, each created or  *)
(* found as it should be, in the one order of the plan ...                 *)
Grant ==
  LET grants == {x \in worker["knowledge"].seen : <<x.who, x.what>> \notin known}
      x == CHOOSE y \in grants : TRUE
  IN /\ At("knowledge", "grant")
     /\ \/ grants # {} /\ known' = known \cup {<<x.who, x.what>>} /\ UNCHANGED worker
        \/ grants = {} /\ Goto("knowledge", "reveal") /\ UNCHANGED known
     /\ UNCHANGED <<phase, receipt, turnVars, revealed, companionVars, streamVars, faults>>

Reveals(t, plan) == {[turn |-> t, entry |-> x] : x \in plan}
createOrVerify ==
  LET todo == Reveals(Turn("knowledge"), worker["knowledge"].seen) \ revealed
  IN /\ At("knowledge", "reveal") /\ todo # {}
     /\ revealed' = revealed \cup {CHOOSE x \in todo : TRUE}
     /\ UNCHANGED <<phase, receipt, turnVars, known, companionVars, streamVars, worker, faults>>

(* ... then the receipt, and its reference on the turn.                    *)
LandKnowledge ==
  LET t == Turn("knowledge")
  IN /\ At("knowledge", "reveal")
     /\ Reveals(t, worker["knowledge"].seen) \subseteq revealed
     /\ record' = [record EXCEPT ![t]["knowledge"] = worker["knowledge"].seen]
     /\ Ack("knowledge", t)
     /\ UNCHANGED <<phase, receipt, decision, ended, told, graphVars, companionVars, sent, faults>>

-----------------------------------------------------------------------------
(* The progress barrier: a resident record is compared and left alone; an  *)
(* event is recorded before the record that says so.                       *)

BeginEvent(c, t, kind, seen) ==
  /\ IF kind = None THEN Go(c, t, "land", None, seen) ELSE Go(c, t, "record", Event(t, kind), seen)
  /\ queue' = queue
ProgressRecord(t) ==
  IF derive(decision[t]) = None THEN "none" ELSE derive(decision[t])

(* Mutant of LoadProgress: a progress record found on the turn is not      *)
(* looked at, and only an event that fits the case is good.                *)
LoadProgressAgain(t) ==
  LET kind == derive(decision[t])
  IN /\ Deliver("case-progress", t)
     /\ \/ /\ kind # None /\ phase # From(kind)
           /\ FailTurn("case-progress", t, "case-progress-invalid")
        \/ /\ kind # None => phase = From(kind)
           /\ BeginEvent("case-progress", t, kind, None) /\ UNCHANGED ended
     /\ UNCHANGED <<phase, receipt, decision, record, told, graphVars, companionVars, sent, faults>>

LoadProgress(t) ==
  LET resident == record[t]["case-progress"]
  IN /\ Deliver("case-progress", t)
     /\ \/ resident = ProgressRecord(t) /\ Ack("case-progress", t)
        \/ resident = None /\ BeginEvent("case-progress", t, derive(decision[t]), None)
     /\ UNCHANGED <<phase, receipt, turnVars, graphVars, companionVars, sent, faults>>

LandProgress ==
  LET t == Turn("case-progress")
  IN /\ At("case-progress", "land")
     /\ record' = [record EXCEPT ![t]["case-progress"] = ProgressRecord(t)]
     /\ Ack("case-progress", t)
     /\ UNCHANGED <<phase, receipt, decision, ended, told, graphVars, companionVars, sent, faults>>

-----------------------------------------------------------------------------
(* The accusation barrier.                                                 *)

Correct(t) == Event(t, "accusation-correct")

(* The preflight; the phase read here decides later on, after the          *)
(* submission has been recorded.                                           *)
LoadAccusation(t) ==
  /\ Deliver("accusation", t)
  /\ \/ decision[t].kind = "accuse" /\ BeginEvent("accusation", t, "accusation-submitted", phase)
     \/ decision[t].kind # "accuse" /\ Begin("accusation", t, "commit", "none")
  /\ UNCHANGED <<phase, receipt, turnVars, graphVars, companionVars, sent, faults>>

(* Read in investigation, the accusation waits for the transition it asked *)
(* for; in any other phase but the last two it is invalid.                 *)
Check ==
  LET seen == worker["accusation"].seen
  IN /\ At("accusation", "check")
     /\ \/ seen = "investigation" /\ Nak("accusation") /\ UNCHANGED ended
        \/ seen \in {"cold-open", "discovery"} /\ FailTurn("accusation", Turn("accusation"), "accusation-invalid")
        \/ /\ seen \in {"accusation", "denouement"}
           /\ Go("accusation", Turn("accusation"), "commit", worker["accusation"].event,
                 Verify(decision[Turn("accusation")]))
           /\ UNCHANGED <<ended, queue>>
     /\ UNCHANGED <<phase, receipt, decision, record, told, graphVars, companionVars, sent, faults>>

(* Mutant of Commit: the case is told before the turn.                     *)
CommitAfterEvent ==
  LET t == Turn("accusation")
      result == worker["accusation"].seen
  IN /\ At("accusation", "commit")
     /\ \/ /\ result = "correct" /\ ~AlreadyRecorded(Correct(t))
           /\ receipt' = Correct(t)
           /\ UNCHANGED <<record, worker, queue>>
        \/ /\ result = "correct" => AlreadyRecorded(Correct(t))
           /\ record' = [record EXCEPT ![t]["accusation"] = result]
           /\ Ack("accusation", t) /\ UNCHANGED receipt
     /\ UNCHANGED <<phase, decision, ended, told, graphVars, companionVars, sent, faults>>

(* Committer.Commit: a resident record must be the same, and always is,    *)
(* the result being a function of the decision and the solution; a correct *)
(* one is on the turn before the case is told.                             *)
Commit ==
  LET t == Turn("accusation")
      result == worker["accusation"].seen
  IN /\ At("accusation", "commit")
     /\ record[t]["accusation"] \in {None, result}
     /\ record' = [record EXCEPT ![t]["accusation"] = result]
     /\ \/ /\ result = "correct"
           /\ Go("accusation", t, "record", Correct(t), result)
           /\ UNCHANGED queue
        \/ result # "correct" /\ Ack("accusation", t)
     /\ UNCHANGED <<phase, receipt, decision, ended, told, graphVars, companionVars, sent, faults>>

-----------------------------------------------------------------------------
(* The companion stage, under the lock of the bond.                        *)

ActiveBond(t) == CompanionFor(t) # None
SelectTrigger(t) ==
  IF ActiveBond(t) /\ decision[t].kind = "request-hint" THEN "player-hint" ELSE "none"

(* Mutant of advanceResidentHint: a stored decision is taken as given.     *)
advanceResidentNever(t) == "stage"

(* Resuming a hint whose decision is stored: the ladder may already have   *)
(* moved on from it.                                                       *)
advanceResidentHint(t) ==
  IF claim[t].level # None /\ hint[PlayerOf[t]] # NextHintLevel(claim[t].level) THEN "advance" ELSE "stage"

LoadCompanion(t) ==
  LET chosen == SelectHintEvidence(known, CompanionFor(t), CaseEvidence, hint[PlayerOf[t]])
      live == ended[t] = None /\ staged[t] = None
      asked == SelectTrigger(t) = "player-hint"
  IN /\ Deliver("companion", t)
     /\ \/ ~live /\ Ack("companion", t) /\ UNCHANGED staged
        \/ /\ live /\ ~asked
           /\ staged' = [staged EXCEPT ![t] = Silent] /\ Ack("companion", t)
        \/ live /\ asked /\ object[t] /\ Begin("companion", t, advanceResidentHint(t), claim[t]) /\ UNCHANGED staged
        \/ live /\ asked /\ ~object[t] /\ Begin("companion", t, "claim", chosen) /\ UNCHANGED staged
     /\ UNCHANGED <<phase, receipt, turnVars, graphVars, hint, claim, object, sent, faults>>

(* ClaimExact: the first claim of a key wins ...                           *)
ClaimExact ==
  LET t == Turn("companion")
  IN /\ At("companion", "claim")
     /\ claim' = [claim EXCEPT ![t] = IF @ = None THEN worker["companion"].seen ELSE @]
     /\ Goto("companion", "object")
     /\ UNCHANGED <<phase, receipt, turnVars, graphVars, hint, object, staged, streamVars, faults>>

(* ... its object is put when missing, and a different candidate is a      *)
(* conflict, an error of the delivery.                                     *)
RepairObject ==
  LET t == Turn("companion")
      seen == worker["companion"].seen
  IN /\ At("companion", "object")
     /\ object' = [object EXCEPT ![t] = TRUE]
     /\ IF claim[t] # seen THEN Nak("companion")
        ELSE Goto("companion", IF seen.level = None THEN "stage" ELSE "advance") /\ UNCHANGED queue
     /\ UNCHANGED <<phase, receipt, turnVars, graphVars, hint, claim, staged, sent, faults>>

(* The bond still has the level the decision was made at: nobody else is   *)
(* inside its lock, and the turn that emitted it is the player's only one. *)
AdvanceHint ==
  LET p == PlayerOf[Turn("companion")]
      emitted == worker["companion"].seen.level
  IN /\ At("companion", "advance")
     /\ hint[p] = emitted
     /\ hint' = [hint EXCEPT ![p] = NextHintLevel(emitted)]
     /\ Goto("companion", "stage")
     /\ UNCHANGED <<phase, receipt, turnVars, graphVars, claim, object, staged, streamVars, faults>>

commitRecord ==
  /\ At("companion", "stage")
  /\ staged' = [staged EXCEPT ![Turn("companion")] = worker["companion"].seen]
  /\ Ack("companion", Turn("companion"))
  /\ UNCHANGED <<phase, receipt, turnVars, graphVars, hint, claim, object, sent, faults>>

-----------------------------------------------------------------------------
(* Narration: which audience the router projects for, and what the         *)
(* resolver lets it hear from the companion.                               *)

Audience(t) == IF record[t]["accusation"] = "correct" THEN "denouement" ELSE "narrator"

(* What the router's choice is worth: the denouement waits for the case,   *)
(* and for a correct result that this turn holds.                          *)
Authorized(t) == phase = "denouement" /\ record[t]["accusation"] = "correct"

(* The evidence the companion cites must be evidence it knows, and to an   *)
(* ordinary narrator it is no part of the solution.                        *)
authorizedKnowledge(t) ==
  /\ \A e \in staged[t].cites : <<CompanionFor(t), e>> \in known
  /\ Audience(t) = "narrator" => staged[t].cites \cap SolutionLocked = {}

(* Until it may be projected the delivery is an error and is repeated; an  *)
(* ended turn is not narrated.                                             *)
Narrate(t) ==
  LET solved == Audience(t) = "denouement"
  IN /\ Deliver("narration", t)
     /\ ended[t] = None => authorizedKnowledge(t) /\ (solved => Authorized(t))
     /\ told' = [told EXCEPT ![t] = IF ended[t] # None THEN @ ELSE [solution |-> solved, cites |-> staged[t].cites]]
     /\ ended' = [ended EXCEPT ![t] = IF @ # None THEN @ ELSE "complete"]
     /\ Ack("narration", t)
     /\ UNCHANGED <<phase, receipt, decision, record, graphVars, companionVars, sent, faults>>

-----------------------------------------------------------------------------
Load(c, t) ==
  \/ c = "knowledge" /\ LoadKnowledge(t)
  \/ c = "case-progress" /\ LoadProgress(t)
  \/ c = "accusation" /\ LoadAccusation(t)
  \/ c = "companion" /\ LoadCompanion(t)
  \/ c = "narration" /\ Narrate(t)
Work(c) ==
  \/ c \in {"case-progress", "accusation"} /\ (Record(c) \/ WriteReceipt(c))
  \/ c = "knowledge" /\ (Grant \/ createOrVerify \/ LandKnowledge)
  \/ c = "case-progress" /\ LandProgress
  \/ c = "accusation" /\ (Check \/ Commit)
  \/ c = "companion" /\ (ClaimExact \/ RepairObject \/ AdvanceHint \/ commitRecord)

Next ==
  \/ \E t \in Turns : Interpret(t) \/ Sequence(t)
  \/ CaseRule
  \/ \E c \in Consumers : Work(c) \/ Interrupt(c)
  \/ \E c \in Consumers, t \in Turns : Load(c, t) \/ Redeliver(c, t)

Spec == Init /\ [][Next]_vars

-----------------------------------------------------------------------------
(* Every variable holds a value of its kind, a consumer only works on a    *)
(* trigger it has not acknowledged, a claimed decision is there before its *)
(* object, and neither the hint ladder nor the accusation record is ever   *)
(* found in a state its handler would refuse.                              *)
TypeOK ==
  /\ phase \in Phases
  /\ receipt # None => receipt.kind \in Events
  /\ \A t \in Turns :
       /\ decision[t] \in Choices[t] \cup {None}
       /\ ended[t] \in Endings \cup {None}
       /\ record[t]["case-progress"] \in {None, "none"} \cup Events
       /\ record[t]["accusation"] \in {None, "none", "correct", "incorrect"}
       /\ {claim[t], staged[t]} \subseteq Hints \cup {None}
       /\ object[t] => claim[t] # None
  /\ hint \in [DOMAIN Controls -> Levels]
  /\ queue \subseteq sent /\ sent \subseteq Consumers \X Turns
  /\ \A c \in Consumers : worker[c] # Idle => <<c, Turn(c)>> \in queue
  /\ At("accusation", "commit") => record[Turn("accusation")]["accusation"] \in {None, worker["accusation"].seen}
  /\ faults \in 0 .. MaxFaults

(* A case is only ever solved by a turn that says so: whatever fails and   *)
(* is repeated, and whichever consumer's receipt stands, a case that left  *)
(* accusation has a correct result committed on some turn.                 *)
SolvedByAResult ==
  phase = "denouement" /\ receipt # [Earlier EXCEPT !.kind = "accusation-correct"]
    => (\E t \in Turns : record[t]["accusation"] = "correct") \/ "denouement" \in StartPhases

(* No receipt waits for a phase the case has yet to reach, so that a rule  *)
(* can never fire later on an event that was out of order when recorded.   *)
NoReceiptAhead == receipt # None => phaseRank(From(receipt.kind)) <= phaseRank(phase)

(* A receipt on a turn means that all it lists can be found: knowledge for *)
(* every entry, and the revelation with its source.                        *)
ReceiptMeansGranted ==
  \A t \in Turns : record[t]["knowledge"] # None =>
    \A x \in record[t]["knowledge"] :
      <<x.who, x.what>> \in known /\ [turn |-> t, entry |-> x] \in revealed

(* The solution stays locked: nobody learns a part of it, in any way,      *)
(* before the case is solved, and then only the turn whose own accusation  *)
(* was right is narrated with it.                                          *)
SolutionStaysLocked ==
  /\ (\E k \in known : k[2] \in SolutionLocked) => phase = "denouement"
  /\ \A t \in Turns : told[t] # None /\ told[t].solution =>
       phase = "denouement" /\ decision[t].kind = "accuse" /\ Verify(decision[t]) = "correct"

(* A barrier passed is passed: no redelivery of its trigger, however late  *)
(* and whatever the other turns have done to the case since, ends a turn   *)
(* for a decision the same barrier has accepted.                           *)
PassedBarrierIsFinal ==
  [][\A t \in Turns : ended[t] = None =>
       /\ ended'[t] = "knowledge-unauthorized" => record[t]["knowledge"] = None
       /\ ended'[t] = "case-progress-invalid"  => record[t]["case-progress"] = None
       /\ ended'[t] = "accusation-invalid"     => record[t]["accusation"] = None]_vars

(* Each step of the hint ladder is spoken once: two turns of a player only *)
(* give hints of one level at the top, and a delivery that is about to     *)
(* advance the ladder finds it at the level of the hint it has claimed.    *)
HintsClimb ==
  /\ \A t, u \in Turns :
       t # u /\ PlayerOf[t] = PlayerOf[u] /\ staged[t] # None /\ staged[u] # None
         /\ staged[t].level = staged[u].level
         => staged[t].level \in {None, "next-step"}
  /\ At("companion", "advance") => hint[PlayerOf[Turn("companion")]] = worker["companion"].seen.level
=============================================================================
