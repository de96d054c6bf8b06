--------------------------- MODULE CaseFlowProofs ---------------------------
(***************************************************************************)
(* The case of CaseFlow, for every set of turns, players and decisions,    *)
(* every solution and every number of interrupted deliveries.              *)
(***************************************************************************)
EXTENDS CaseFlow, FiniteSetTheorems, TLAPS

(* Each variable is a function of its domain, and a delivery a record of   *)
(* its four fields, whatever it has read.                                  *)
Shape ==
  /\ worker = [c \in Consumers |-> worker[c]]
  /\ \A c \in Consumers : worker[c] = [pc |-> worker[c].pc, turn |-> worker[c].turn,
                                       event |-> worker[c].event, seen |-> worker[c].seen]
  /\ record = [t \in Turns |-> [b \in Barriers |-> record[t][b]]]
  /\ decision = [t \in Turns |-> decision[t]]
  /\ ended = [t \in Turns |-> ended[t]]
  /\ told = [t \in Turns |-> told[t]]
  /\ staged = [t \in Turns |-> staged[t]]

(* Where the handler of a consumer can be.                                 *)
Steps(c) ==
  CASE c = "knowledge"     -> {"grant", "reveal"}
    [] c = "case-progress" -> {"record", "write", "land"}
    [] c = "accusation"    -> {"record", "write", "check", "commit"}
    [] c = "companion"     -> {"claim", "object", "advance", "stage"}
    [] c = "narration"     -> {}

(* A delivery in progress is of a trigger that was published, and a        *)
(* trigger is published only for an interpreted turn.                      *)
Deliveries ==
  /\ queue \subseteq sent /\ sent \subseteq Consumers \X Turns
  /\ \A c \in Consumers :
       worker[c] # Idle => /\ worker[c].pc \in Steps(c) /\ worker[c].turn \in Turns
                           /\ <<c, worker[c].turn>> \in sent
  /\ \A x \in sent : decision[x[2]] # None
  /\ \A t \in Turns : /\ decision[t] \in Choices[t] \cup {None}
                      /\ decision[t] = None => staged[t] = None /\ told[t] = None /\ \A b \in Barriers : record[t][b] = None

(* The event a delivery records.                                           *)
EventsAreOwn ==
  /\ worker["case-progress"].pc \in {"record", "write"} =>
       worker["case-progress"].event.kind \in {"body-observed", "investigation-started"}
  /\ worker["accusation"].pc \in {"record", "write"} =>
       worker["accusation"].event.kind \in {"accusation-submitted", "accusation-correct"}
  /\ worker["accusation"].pc = "check" => worker["accusation"].event.kind = "accusation-submitted"

FlowInv == Shape /\ Deliveries /\ EventsAreOwn /\ phase \in Phases /\ (receipt # None => receipt.kind \in Events)

(* A receipt about to be written was not ahead when it was compared.       *)
WritesInOrder ==
  \A c \in {"case-progress", "accusation"} :
    worker[c].pc = "write" => phaseRank(From(worker[c].event.kind)) <= phaseRank(phase)

(* A plan being revealed has been granted.                                 *)
GrantedFirst ==
  worker["knowledge"].pc = "reveal" =>
    \A x \in worker["knowledge"].seen : <<x.who, x.what>> \in known

(* A correct result is on its turn before the case is told.                *)
ToldAfterResult ==
  /\ worker["accusation"].pc \in {"record", "write"} /\ worker["accusation"].event.kind = "accusation-correct" =>
       record[worker["accusation"].turn]["accusation"] = "correct"
  /\ receipt # None /\ receipt.kind = "accusation-correct" =>
       (\E t \in Turns : record[t]["accusation"] = "correct") \/ "denouement" \in StartPhases
  /\ phase = "denouement" =>
       (\E t \in Turns : record[t]["accusation"] = "correct") \/ "denouement" \in StartPhases

(* A result is of the turn's own accusation.                               *)
Right(t) == decision[t].kind = "accuse" /\ Verify(decision[t]) = "correct"
ResultsAreVerified ==
  LET a == worker["accusation"]
  IN /\ a.pc \in {"record", "write", "check"} => decision[a.turn].kind = "accuse"
     /\ a.pc = "commit" /\ a.seen = "correct" => Right(a.turn)
     /\ \A t \in Turns : record[t]["accusation"] = "correct" => Right(t)
     /\ \A t \in Turns : told[t] # None /\ told[t].solution => phase = "denouement" /\ Right(t)

(* A plan in progress holds no part of the solution before its time.       *)
PlansAreUnlocked ==
  /\ worker["knowledge"] # Idle =>
       \A x \in worker["knowledge"].seen : x.what \in SolutionLocked => phase = "denouement"
  /\ (\E k \in known : k[2] \in SolutionLocked) => phase = "denouement"

(* What a barrier accepted it would accept again.                          *)
AcceptedOnce ==
  LET a == worker["accusation"]
  IN /\ \A t \in Turns :
          (worker["knowledge"] # Idle /\ worker["knowledge"].turn = t) \/ record[t]["knowledge"] # None => ~Denied(t)
     /\ worker["case-progress"] # Idle => record[worker["case-progress"].turn]["case-progress"] = None
     /\ a.pc \in {"record", "write", "check"} /\ a.event.kind = "accusation-submitted" =>
          /\ a.seen \in Phases /\ phaseRank(a.seen) <= phaseRank(phase)
          /\ record[a.turn]["accusation"] # None => a.seen \in {"accusation", "denouement"}
     /\ a.pc = "commit" /\ decision[a.turn].kind = "accuse" => phase \in {"accusation", "denouement"}
     /\ \A t \in Turns : record[t]["accusation"] # None /\ decision[t].kind = "accuse" =>
          phase \in {"accusation", "denouement"}

(* The rungs a hint of level l leaves the ladder on, sooner or later.      *)
Above(l) == IF l = "nudge" THEN {"connect", "next-step"} ELSE {"next-step"}

LadderShape ==
  /\ hint = [p \in DOMAIN Controls |-> hint[p]] /\ \A p \in DOMAIN Controls : hint[p] \in Levels
  /\ claim = [t \in Turns |-> claim[t]] /\ object = [t \in Turns |-> object[t]]
  /\ \A t \in Turns : claim[t] \in Hints \cup {None} /\ (object[t] => claim[t] # None)

(* A player has one turn that has not ended.                               *)
OneAtATime ==
  \A t, u \in Turns : t # u /\ PlayerOf[t] = PlayerOf[u] /\ decision[t] # None /\ decision[u] # None =>
    ended[t] # None \/ ended[u] # None

(* What the trigger of the companion and that of narration presuppose.     *)
Opened ==
  \A t \in Turns :
    /\ <<"companion", t>> \in sent =>
         ~Denied(t) /\ record[t]["case-progress"] # None /\ record[t]["accusation"] # None
    /\ <<"narration", t>> \in sent => staged[t] # None

(* A turn whose companion is at work, or was interrupted, asked for a hint *)
(* and is still live; what is staged was claimed.                          *)
Asked(t) == SelectTrigger(t) = "player-hint"
StagedBeforeEnd ==
  /\ \A t \in Turns : claim[t] # None =>
       <<"companion", t>> \in sent /\ Asked(t) /\ (ended[t] # None => staged[t] # None)
  /\ \A t \in Turns : staged[t] # None /\ staged[t].level # None => claim[t] = staged[t]
  /\ worker["companion"] # Idle => LET t == worker["companion"].turn IN Asked(t) /\ ended[t] = None /\ staged[t] = None

(* A claimed hint is of the rung the ladder is on or has left, and has     *)
(* been left once it is staged; no rung but the top is claimed twice.      *)
Rung(t) == hint[PlayerOf[t]]
ClaimsClimb ==
  /\ \A t \in Turns : claim[t] # None /\ claim[t].level # None =>
       IF staged[t] = None THEN Rung(t) \in {claim[t].level, NextHintLevel(claim[t].level)}
       ELSE Rung(t) \in Above(claim[t].level)
  /\ \A t, u \in Turns :
       t # u /\ PlayerOf[t] = PlayerOf[u] /\ claim[t] # None /\ claim[u] # None /\ claim[t].level = claim[u].level
         => claim[t].level \in {None, "next-step"}

(* What the companion's delivery has read is still so.                     *)
Speaking ==
  LET h == worker["companion"]
  IN /\ h.pc # "idle" => h.seen \in Hints
     /\ h.pc \in {"claim", "object"} => h.seen.level \in {None, Rung(h.turn)}
     /\ h.pc = "object" => claim[h.turn] # None
     /\ h.pc = "advance" => h.seen = claim[h.turn] /\ h.seen.level = Rung(h.turn)
     /\ h.pc = "stage" => /\ h.seen = claim[h.turn]
                          /\ h.seen.level # None => Rung(h.turn) = NextHintLevel(h.seen.level)

LadderInv == LadderShape /\ OneAtATime /\ Opened /\ StagedBeforeEnd /\ ClaimsClimb /\ Speaking

(* The result of a turn is a function of its decision, whichever delivery  *)
(* computes it.                                                            *)
Result(t) == IF decision[t].kind = "accuse" THEN Verify(decision[t]) ELSE "none"
ResultsAreDetermined ==
  LET a == worker["accusation"]
  IN /\ a.pc \in {"record", "write", "check"} => decision[a.turn].kind = "accuse"
     /\ a.pc = "commit" => a.seen = Result(a.turn)
     /\ \A t \in Turns : record[t]["accusation"] \in {None, Result(t)}

(* What is left of the types.                                              *)
ValuesAreKnown ==
  \A t \in Turns : /\ ended[t] \in Endings \cup {None} /\ staged[t] \in Hints \cup {None}
                   /\ record[t]["case-progress"] \in {None, "none"} \cup Events
DeliveriesAreQueued == \A c \in Consumers : worker[c] # Idle => <<c, worker[c].turn>> \in queue

-----------------------------------------------------------------------------
(* The lifecycle's edges.                                                  *)

LEMMA PhaseSet == Phases = {"cold-open", "discovery", "investigation", "accusation", "denouement"}
BY DEF Phases, CasePhases

LEMMA Ranks ==
  /\ phaseRank("cold-open") = 1 /\ phaseRank("discovery") = 2 /\ phaseRank("investigation") = 3
  /\ phaseRank("accusation") = 4 /\ phaseRank("denouement") = 5
<1>1. \A i \in 1 .. 5 : phaseRank(CasePhases[i]) = i
  <2> SUFFICES ASSUME NEW i \in 1 .. 5 PROVE phaseRank(CasePhases[i]) = i
    OBVIOUS
  <2>1. \A j \in DOMAIN CasePhases : CasePhases[j] = CasePhases[i] => j = i
    BY DEF CasePhases
  <2>2. i \in DOMAIN CasePhases
    BY DEF CasePhases
  <2> HIDE DEF CasePhases
  <2> QED BY <2>1, <2>2 DEF phaseRank
<1> QED BY <1>1 DEF CasePhases

LEMMA Edges ==
  /\ From("body-observed") = "cold-open" /\ To("body-observed") = "discovery"
  /\ From("investigation-started") = "discovery" /\ To("investigation-started") = "investigation"
  /\ From("accusation-submitted") = "investigation" /\ To("accusation-submitted") = "accusation"
  /\ From("accusation-correct") = "accusation" /\ To("accusation-correct") = "denouement"
BY DEF From, To, edgeFor

LEMMA Climb ==
  ASSUME NEW k \in Events
  PROVE  /\ From(k) \in Phases /\ To(k) \in Phases /\ phaseRank(From(k)) \in 1 .. 4
         /\ phaseRank(To(k)) = phaseRank(From(k)) + 1
         /\ To(k) = "denouement" <=> k = "accusation-correct"
BY Edges, Ranks, PhaseSet DEF Events

LEMMA RankIsNumber == \A p \in Phases : phaseRank(p) \in 1 .. 5
BY Ranks, PhaseSet

-----------------------------------------------------------------------------
(* What each consumer's delivery does, in the variables' own terms.        *)

Delivery(pc, t, e, s) == [pc |-> pc, turn |-> t, event |-> e, seen |-> s]

(* Consumer c's delivery becomes x, and no other delivery moves.           *)
Becomes(c, x) == worker' = [d \in Consumers |-> IF d = c THEN x ELSE worker[d]]

LEMMA WorkerUpdates ==
  ASSUME Shape, NEW c \in Consumers
  PROVE  /\ \A t, pc, e, s : Go(c, t, pc, e, s) => Becomes(c, Delivery(pc, t, e, s))
         /\ \A pc : Goto(c, pc) => Becomes(c, Delivery(pc, worker[c].turn, worker[c].event, worker[c].seen))
         /\ \A t : Ack(c, t) => Becomes(c, Idle)
         /\ Nak(c) => Becomes(c, Idle)
         /\ \A t, pc, seen : Begin(c, t, pc, seen) => Becomes(c, Delivery(pc, t, None, seen))
<1>1. ASSUME NEW x, worker' = [worker EXCEPT ![c] = x] PROVE Becomes(c, x)
  BY <1>1 DEF Shape, Becomes
<1>2. \A t, pc, e, s : Go(c, t, pc, e, s) => Becomes(c, Delivery(pc, t, e, s))
  BY <1>1 DEF Go, Delivery
<1>3. \A t : Ack(c, t) => Becomes(c, Idle)
  BY <1>1 DEF Ack
<1>4. Nak(c) => Becomes(c, Idle)
  BY <1>1 DEF Nak
<1> QED BY <1>2, <1>3, <1>4 DEF Goto, Begin, Turn

(* The delivery of c goes on: to step pc, with the event and the reading   *)
(* it has.                                                                 *)
GoesOn(c, pc) == Becomes(c, Delivery(pc, worker[c].turn, worker[c].event, worker[c].seen))
caseVars == <<phase, known, decision, record>>

KnowledgeMove ==
  LET k == worker["knowledge"]
  IN \/ Becomes("knowledge", Idle)
     \/ /\ k = Idle
        /\ \E t \in Turns : \E w \in Witness(t) :
             /\ <<"knowledge", t>> \in queue /\ ~Denied(t)
             /\ Becomes("knowledge", Delivery("grant", t, None, Plan(t, w)))
        /\ UNCHANGED caseVars
     \/ /\ k.pc = "grant" /\ GoesOn("knowledge", "reveal")
        /\ \A x \in k.seen : <<x.who, x.what>> \in known
        /\ UNCHANGED caseVars

NotAhead(e) == ~(phaseRank(phase) < phaseRank(From(e.kind)))

ProgressMove ==
  LET p == worker["case-progress"]
  IN \/ Becomes("case-progress", Idle)
     \/ /\ p = Idle
        /\ \E t \in Turns :
             /\ <<"case-progress", t>> \in queue /\ record[t]["case-progress"] = None
             /\ \/ Becomes("case-progress", Delivery("land", t, None, None))
                \/ \E k \in {"body-observed", "investigation-started"} :
                     Becomes("case-progress", Delivery("record", t, Event(t, k), None))
        /\ UNCHANGED caseVars
     \/ /\ p.pc = "record" /\ GoesOn("case-progress", "write") /\ NotAhead(p.event)
        /\ UNCHANGED caseVars
     \/ /\ p.pc \in {"record", "write"} /\ GoesOn("case-progress", "land")
        /\ UNCHANGED caseVars

AccusationMove ==
  LET a == worker["accusation"]
  IN \/ Becomes("accusation", Idle)
     \/ /\ a = Idle
        /\ \E t \in Turns :
             /\ <<"accusation", t>> \in queue
             /\ \/ /\ decision[t].kind = "accuse"
                   /\ Becomes("accusation", Delivery("record", t, Event(t, "accusation-submitted"), phase))
                \/ /\ decision[t].kind # "accuse"
                   /\ Becomes("accusation", Delivery("commit", t, None, "none"))
        /\ UNCHANGED caseVars
     \/ /\ a.pc = "record" /\ GoesOn("accusation", "write") /\ NotAhead(a.event)
        /\ UNCHANGED caseVars
     \/ /\ a.pc \in {"record", "write"} /\ a.event.kind = "accusation-submitted" /\ GoesOn("accusation", "check")
        /\ UNCHANGED caseVars
     \/ /\ a.pc = "check" /\ a.seen \in {"accusation", "denouement"}
        /\ Becomes("accusation", Delivery("commit", a.turn, a.event, Verify(decision[a.turn])))
        /\ UNCHANGED caseVars
     \/ /\ a.pc = "commit" /\ a.seen = "correct"
        /\ Becomes("accusation", Delivery("record", a.turn, Correct(a.turn), "correct"))
        /\ record' = [record EXCEPT ![a.turn]["accusation"] = "correct"]
        /\ UNCHANGED <<phase, known, decision>>

CompanionMove ==
  LET h == worker["companion"]
  IN \/ Becomes("companion", Idle)
     \/ /\ h = Idle
        /\ \E t \in Turns, pc \in {"advance", "stage", "claim"} : \E s :
             /\ <<"companion", t>> \in queue
             /\ Becomes("companion", Delivery(pc, t, None, s))
        /\ UNCHANGED caseVars
     \/ /\ h # Idle
        /\ \E pc \in {"object", "advance", "stage"} : GoesOn("companion", pc)
        /\ UNCHANGED caseVars

LEMMA AreConsumers == {"knowledge", "case-progress", "accusation", "companion", "narration"} = Consumers
BY DEF Consumers, Barriers

LEMMA Recording ==
  ASSUME Shape, NEW c \in {"case-progress", "accusation"}, Record(c) \/ WriteReceipt(c)
  PROVE  /\ worker[c].pc \in {"record", "write"} /\ UNCHANGED caseVars
         /\ \/ Becomes(c, Idle)
            \/ worker[c].pc = "record" /\ GoesOn(c, "write") /\ NotAhead(worker[c].event)
            \/ c = "case-progress" /\ GoesOn(c, "land")
            \/ c = "accusation" /\ worker[c].event.kind = "accusation-submitted" /\ GoesOn(c, "check")
<1>0. c \in Consumers
  BY DEF Consumers, Barriers
<1>1. worker[c].pc \in {"record", "write"} /\ UNCHANGED caseVars
  BY DEF Record, WriteReceipt, At, caseVars, turnVars, graphVars
<1>2. AfterRecord(c) => \/ Becomes(c, Idle)
                        \/ c = "case-progress" /\ GoesOn(c, "land")
                        \/ c = "accusation" /\ worker[c].event.kind = "accusation-submitted" /\ GoesOn(c, "check")
  BY <1>0, WorkerUpdates DEF AfterRecord, GoesOn
<1>3. CASE WriteReceipt(c)
  BY <1>1, <1>2, <1>3 DEF WriteReceipt
<1>4. CASE Record(c)
  <2> DEFINE e == worker[c].event
  <2>1. \/ Nak(c) \/ Ack(c, Turn(c)) \/ AfterRecord(c)
        \/ ~OutOfOrder(e) /\ ~AlreadyRecorded(e) /\ Goto(c, "write") /\ worker[c].pc = "record"
    BY <1>4 DEF Record, FailTurn, At
  <2>2. ~OutOfOrder(e) /\ ~AlreadyRecorded(e) => NotAhead(e)
    BY DEF OutOfOrder, AlreadyRecorded, NotAhead
  <2> QED BY <1>0, <1>1, <1>2, <2>1, <2>2, WorkerUpdates DEF GoesOn
<1> QED BY <1>3, <1>4

-----------------------------------------------------------------------------
(* Who touches what.                                                       *)

LEMMA NextCases ==
  ASSUME Next
  PROVE  \/ \E t \in Turns : \/ Interpret(t) \/ Sequence(t)
                             \/ LoadKnowledge(t) \/ LoadProgress(t) \/ LoadAccusation(t)
                             \/ LoadCompanion(t) \/ Narrate(t)
         \/ CaseRule
         \/ \E c \in {"case-progress", "accusation"} : Record(c) \/ WriteReceipt(c)
         \/ Grant \/ createOrVerify \/ LandKnowledge \/ LandProgress \/ Check \/ Commit
         \/ ClaimExact \/ RepairObject \/ AdvanceHint \/ commitRecord
         \/ \E c \in Consumers : Interrupt(c)
         \/ \E c \in Consumers, t \in Turns : Redeliver(c, t)
BY DEF Next, Load, Work

turnFrame == <<decision, ended, record, told, staged>>

LEMMA TurnFrames ==
  /\ \A t : Interpret(t) => UNCHANGED <<phase, receipt, ended, record, told, staged, known, revealed, worker>>
  /\ \A t : Sequence(t) => UNCHANGED <<phase, receipt, turnFrame, known, revealed, worker>>
  /\ CaseRule => UNCHANGED <<receipt, turnFrame, known, revealed, worker, queue, sent>>
  /\ \A c : Interrupt(c) => UNCHANGED <<phase, receipt, turnFrame, known, revealed, queue, sent>>
  /\ \A c, t : Redeliver(c, t) => UNCHANGED <<phase, receipt, turnFrame, known, revealed, worker, sent>>
  /\ \A t : Narrate(t) => UNCHANGED <<phase, receipt, decision, record, staged, known, revealed, sent>>
BY DEF Interpret, Sequence, CaseRule, Interrupt, Redeliver, Narrate, Nak,
       turnFrame, turnVars, graphVars, companionVars, streamVars

LEMMA BarrierFrames ==
  /\ \A t : LoadKnowledge(t) => UNCHANGED <<phase, receipt, decision, record, told, staged, known, revealed, sent>>
  /\ \A t : LoadProgress(t) => UNCHANGED <<phase, receipt, turnFrame, known, revealed, sent>>
  /\ \A t : LoadAccusation(t) => UNCHANGED <<phase, receipt, turnFrame, known, revealed, sent>>
  /\ \A c : Record(c) => UNCHANGED <<phase, receipt, decision, record, told, staged, known, revealed, sent>>
  /\ \A c : WriteReceipt(c) => UNCHANGED <<phase, turnFrame, known, revealed, sent>>
  /\ Grant => UNCHANGED <<phase, receipt, turnFrame, revealed, queue, sent>>
  /\ createOrVerify => UNCHANGED <<phase, receipt, turnFrame, known, queue, sent, worker>>
  /\ LandKnowledge => UNCHANGED <<phase, receipt, decision, ended, told, staged, known, revealed, sent>>
  /\ LandProgress => UNCHANGED <<phase, receipt, decision, ended, told, staged, known, revealed, sent>>
  /\ Check => UNCHANGED <<phase, receipt, decision, record, told, staged, known, revealed, sent>>
  /\ Commit => UNCHANGED <<phase, receipt, decision, ended, told, staged, known, revealed, sent>>
BY DEF LoadKnowledge, LoadProgress, LoadAccusation, Record, WriteReceipt, Grant, createOrVerify, LandKnowledge,
       LandProgress, Check, Commit, turnFrame, turnVars, graphVars, companionVars, streamVars

LEMMA CompanionFrames ==
  /\ \A t : LoadCompanion(t) => UNCHANGED <<phase, receipt, decision, ended, record, told, known, revealed, sent>>
  /\ ClaimExact => UNCHANGED <<phase, receipt, turnFrame, known, revealed, queue, sent>>
  /\ RepairObject => UNCHANGED <<phase, receipt, turnFrame, known, revealed, sent>>
  /\ AdvanceHint => UNCHANGED <<phase, receipt, turnFrame, known, revealed, queue, sent>>
  /\ commitRecord => UNCHANGED <<phase, receipt, decision, ended, record, told, known, revealed, sent>>
BY DEF LoadCompanion, ClaimExact, RepairObject, AdvanceHint, commitRecord,
       turnFrame, turnVars, graphVars, companionVars, streamVars

LEMMA PhaseStep ==
  ASSUME Next
  PROVE  \/ UNCHANGED phase
         \/ /\ receipt # None /\ phase = From(receipt.kind) /\ phase' = To(receipt.kind)
            /\ UNCHANGED <<receipt, turnFrame, known, revealed, worker, queue, sent>>
<1>1. CaseRule => receipt # None /\ phase = From(receipt.kind) /\ phase' = To(receipt.kind)
  BY DEF CaseRule
<1> QED BY <1>1, NextCases, TurnFrames, BarrierFrames, CompanionFrames

LEMMA ReceiptStep ==
  ASSUME Next
  PROVE  \/ UNCHANGED receipt
         \/ \E c \in {"case-progress", "accusation"} :
              /\ worker[c].pc = "write" /\ receipt' = worker[c].event
              /\ UNCHANGED <<phase, turnFrame, known, revealed, sent>>
<1>1. \A c : WriteReceipt(c) => worker[c].pc = "write" /\ receipt' = worker[c].event
  BY DEF WriteReceipt, At
<1> QED BY <1>1, NextCases, TurnFrames, BarrierFrames, CompanionFrames

LEMMA KnownStep ==
  ASSUME Next
  PROVE  /\ revealed \subseteq revealed'
         /\ \/ UNCHANGED known
            \/ /\ \E x \in worker["knowledge"].seen : known' = known \cup {<<x.who, x.what>>}
               /\ worker["knowledge"].pc = "grant"
               /\ UNCHANGED <<phase, receipt, turnFrame, revealed, sent, worker>>
<1>1. ASSUME Grant PROVE \/ UNCHANGED known
                         \/ /\ \E x \in worker["knowledge"].seen : known' = known \cup {<<x.who, x.what>>}
                            /\ worker["knowledge"].pc = "grant" /\ UNCHANGED worker
  <2> DEFINE grants == {x \in worker["knowledge"].seen : <<x.who, x.what>> \notin known}
             x == CHOOSE y \in grants : TRUE
  <2>1. /\ At("knowledge", "grant")
        /\ \/ grants # {} /\ known' = known \cup {<<x.who, x.what>>} /\ UNCHANGED worker
           \/ UNCHANGED known
    BY <1>1 DEF Grant
  <2>2. grants # {} => x \in grants
    OBVIOUS
  <2>3. grants \subseteq worker["knowledge"].seen
    OBVIOUS
  <2> HIDE DEF grants, x
  <2> QED BY <2>1, <2>2, <2>3 DEF At
<1>2. createOrVerify => revealed \subseteq revealed'
  BY DEF createOrVerify
<1> QED BY <1>1, <1>2, NextCases, TurnFrames, BarrierFrames, CompanionFrames

LEMMA Working ==
  ASSUME Deliveries, NEW c \in Consumers, worker[c].pc # "idle"
  PROVE  /\ worker[c] # Idle /\ worker[c].pc \in Steps(c) /\ worker[c].turn \in Turns
         /\ <<c, worker[c].turn>> \in sent /\ decision[worker[c].turn] # None
<1>1. Idle.pc = "idle"
  BY DEF Idle
<1>2. worker[c] # Idle
  BY <1>1
<1>3. worker[c].pc \in Steps(c) /\ worker[c].turn \in Turns /\ <<c, worker[c].turn>> \in sent
  BY <1>2 DEF Deliveries
<1>4. decision[<<c, worker[c].turn>>[2]] # None
  BY <1>3 DEF Deliveries
<1> QED BY <1>2, <1>3, <1>4

(* A barrier's record is written by its own last step.                     *)
LandsKnowledge(t) ==
  LET k == worker["knowledge"]
  IN /\ k.pc = "reveal" /\ k.turn = t /\ Reveals(t, k.seen) \subseteq revealed
     /\ record'[t]["knowledge"] = k.seen /\ Becomes("knowledge", Idle)
LandsProgress(t) ==
  /\ worker["case-progress"].pc = "land" /\ worker["case-progress"].turn = t
  /\ record'[t]["case-progress"] = ProgressRecord(t) /\ Becomes("case-progress", Idle)
LandsAccusation(t) ==
  LET a == worker["accusation"]
  IN /\ a.pc = "commit" /\ a.turn = t /\ record[t]["accusation"] \in {None, a.seen}
     /\ record'[t]["accusation"] = a.seen

Writes(u, b, x) == record' = [record EXCEPT ![u][b] = x]
LEMMA Written ==
  ASSUME Shape, NEW u \in Turns, NEW b \in Barriers, NEW x, Writes(u, b, x)
  PROVE  /\ record' = [t \in Turns |-> [d \in Barriers |-> IF t = u /\ d = b THEN x ELSE record[t][d]]]
         /\ \A t \in Turns, d \in Barriers : record'[t][d] = IF t = u /\ d = b THEN x ELSE record[t][d]
<1>1. record = [t \in Turns |-> [d \in Barriers |-> record[t][d]]]
  BY DEF Shape
<1>2. \A t \in Turns, d \in Barriers : record'[t][d] = IF t = u /\ d = b THEN x ELSE record[t][d]
  BY <1>1 DEF Writes
<1>3. DOMAIN record' = Turns /\ \A t \in Turns : record'[t] = [d \in Barriers |-> IF t = u /\ d = b THEN x ELSE record[t][d]]
  BY <1>1 DEF Writes
<1>4. record' = [t \in Turns |-> record'[t]]
  BY <1>1 DEF Writes
<1> QED BY <1>2, <1>3, <1>4

LEMMA RecordStep ==
  ASSUME FlowInv, Next, NEW t \in Turns
  PROVE  /\ \/ record'[t]["knowledge"] = record[t]["knowledge"]
            \/ LandsKnowledge(t) /\ UNCHANGED <<phase, decision, known, revealed>>
         /\ \/ record'[t]["case-progress"] = record[t]["case-progress"]
            \/ LandsProgress(t) /\ UNCHANGED <<phase, decision, known, revealed>>
         /\ \/ record'[t]["accusation"] = record[t]["accusation"]
            \/ LandsAccusation(t) /\ UNCHANGED <<phase, decision, known, revealed>>
         /\ record' = [u \in Turns |-> [b \in Barriers |-> record'[u][b]]]
<1> USE DEF FlowInv
<1>0. Barriers \subseteq Consumers /\ Barriers = {"knowledge", "accusation", "case-progress"}
  BY DEF Consumers, Barriers
<1>1. \A b \in Barriers : worker[b].pc \in {"reveal", "land", "commit"} => worker[b].turn \in Turns
  BY <1>0, Working
<1>2. CASE UNCHANGED record
  BY <1>2 DEF Shape
<1>3. CASE LandKnowledge
  <2> DEFINE k == worker["knowledge"]
  <2>1. /\ k.pc = "reveal" /\ Reveals(k.turn, k.seen) \subseteq revealed
        /\ Writes(k.turn, "knowledge", k.seen) /\ Ack("knowledge", k.turn)
    BY <1>3 DEF LandKnowledge, At, Turn, Writes
  <2>2. Becomes("knowledge", Idle)
    BY <1>0, <2>1, WorkerUpdates
  <2>3. k.turn \in Turns
    BY <1>0, <1>1, <2>1
  <2>4. /\ record' = [u \in Turns |-> [d \in Barriers |-> IF u = k.turn /\ d = "knowledge" THEN k.seen ELSE record[u][d]]]
        /\ \A u \in Turns, d \in Barriers : record'[u][d] = IF u = k.turn /\ d = "knowledge" THEN k.seen ELSE record[u][d]
    BY <1>0, <2>1, <2>3, Written
  <2> HIDE DEF k
  <2>5. record' = [u \in Turns |-> [b \in Barriers |-> record'[u][b]]]
    BY <2>4
  <2>6. LandsKnowledge(k.turn)
    BY <1>0, <2>1, <2>2, <2>3, <2>4 DEF LandsKnowledge, k
  <2> QED BY <1>0, <1>3, <2>4, <2>5, <2>6, BarrierFrames
<1>4. CASE LandProgress
  <2> DEFINE p == worker["case-progress"]
  <2>1. /\ p.pc = "land"
        /\ Writes(p.turn, "case-progress", ProgressRecord(p.turn)) /\ Ack("case-progress", p.turn)
    BY <1>4 DEF LandProgress, At, Turn, Writes
  <2>2. Becomes("case-progress", Idle)
    BY <1>0, <2>1, WorkerUpdates
  <2>3. p.turn \in Turns
    BY <1>0, <1>1, <2>1
  <2>4. /\ record' = [u \in Turns |-> [d \in Barriers |-> IF u = p.turn /\ d = "case-progress" THEN ProgressRecord(p.turn) ELSE record[u][d]]]
        /\ \A u \in Turns, d \in Barriers : record'[u][d] = IF u = p.turn /\ d = "case-progress" THEN ProgressRecord(p.turn) ELSE record[u][d]
    BY <1>0, <2>1, <2>3, Written
  <2> HIDE DEF p
  <2>5. record' = [u \in Turns |-> [b \in Barriers |-> record'[u][b]]]
    BY <2>4
  <2>6. LandsProgress(p.turn)
    BY <1>0, <2>1, <2>2, <2>3, <2>4 DEF LandsProgress, p
  <2> QED BY <1>0, <1>4, <2>4, <2>5, <2>6, BarrierFrames
<1>5. CASE Commit
  <2> DEFINE a == worker["accusation"]
  <2>1. /\ a.pc = "commit" /\ record[a.turn]["accusation"] \in {None, a.seen}
        /\ Writes(a.turn, "accusation", a.seen)
    BY <1>5 DEF Commit, At, Turn, Writes
  <2>3. a.turn \in Turns
    BY <1>0, <1>1, <2>1
  <2>4. /\ record' = [u \in Turns |-> [d \in Barriers |-> IF u = a.turn /\ d = "accusation" THEN a.seen ELSE record[u][d]]]
        /\ \A u \in Turns, d \in Barriers : record'[u][d] = IF u = a.turn /\ d = "accusation" THEN a.seen ELSE record[u][d]
    BY <1>0, <2>1, <2>3, Written
  <2> HIDE DEF a
  <2>5. record' = [u \in Turns |-> [b \in Barriers |-> record'[u][b]]]
    BY <2>4
  <2>6. LandsAccusation(a.turn)
    BY <1>0, <2>1, <2>3, <2>4 DEF LandsAccusation, a
  <2> QED BY <1>0, <1>5, <2>4, <2>5, <2>6, BarrierFrames
<1>6. UNCHANGED record \/ LandKnowledge \/ LandProgress \/ Commit
  BY NextCases, TurnFrames, BarrierFrames, CompanionFrames DEF turnFrame
<1> QED BY <1>2, <1>3, <1>4, <1>5, <1>6

LEMMA DecisionStep ==
  ASSUME FlowInv, Next
  PROVE  \/ UNCHANGED decision
         \/ /\ \E t \in Turns : \E d \in Choices[t] :
                 /\ decision[t] = None
                 /\ decision' = [u \in Turns |-> IF u = t THEN d ELSE decision[u]]
            /\ UNCHANGED <<phase, receipt, ended, record, told, staged, known, revealed, worker>>
<1>1. ASSUME NEW t \in Turns, Interpret(t)
      PROVE  \E d \in Choices[t] :
               /\ decision[t] = None
               /\ decision' = [u \in Turns |-> IF u = t THEN d ELSE decision[u]]
  <2>1. decision[t] = None /\ \E d \in Choices[t] : decision' = [decision EXCEPT ![t] = d]
    BY <1>1 DEF Interpret
  <2>2. PICK d \in Choices[t] : decision' = [decision EXCEPT ![t] = d]
    BY <2>1
  <2>3. decision' = [u \in Turns |-> IF u = t THEN d ELSE decision[u]]
    BY <2>2 DEF FlowInv, Shape
  <2> QED BY <2>1, <2>3
<1>2. UNCHANGED decision \/ \E t \in Turns : Interpret(t)
  BY NextCases, TurnFrames, BarrierFrames, CompanionFrames DEF turnFrame
<1> QED BY <1>1, <1>2, TurnFrames

LEMMA ToldStep ==
  ASSUME FlowInv, Next
  PROVE  \/ UNCHANGED told
         \/ /\ \E t \in Turns : /\ <<"narration", t>> \in queue
                                /\ told' = [u \in Turns |-> IF u = t THEN told'[t] ELSE told[u]]
                                /\ told'[t] = told[t] \/ (told'[t].solution => Authorized(t))
            /\ UNCHANGED <<phase, receipt, decision, record, staged, known, revealed, sent>>
<1>1. ASSUME NEW t \in Turns, Narrate(t)
      PROVE  /\ <<"narration", t>> \in queue
             /\ told' = [u \in Turns |-> IF u = t THEN told'[t] ELSE told[u]]
             /\ told'[t] = told[t] \/ (told'[t].solution => Authorized(t))
  <2> DEFINE said == [solution |-> Audience(t) = "denouement", cites |-> staged[t].cites]
             new == IF ended[t] # None THEN told[t] ELSE said
  <2>1. /\ <<"narration", t>> \in queue
        /\ ended[t] = None => (Audience(t) = "denouement" => Authorized(t))
        /\ told' = [told EXCEPT ![t] = new]
    BY <1>1 DEF Narrate, Deliver
  <2>2. told' = [u \in Turns |-> IF u = t THEN new ELSE told[u]]
    BY <2>1 DEF FlowInv, Shape
  <2>3. said.solution = (Audience(t) = "denouement")
    OBVIOUS
  <2> QED BY <2>1, <2>2, <2>3
<1>2. UNCHANGED told \/ \E t \in Turns : Narrate(t)
  BY NextCases, TurnFrames, BarrierFrames, CompanionFrames DEF turnFrame
<1> QED BY <1>1, <1>2, TurnFrames

(* How a turn ends: by a refusal at a barrier, or told.                    *)
EndsBy(t, reason) == ended' = [u \in Turns |-> IF u = t /\ ended[t] = None THEN reason ELSE ended[u]]
LEMMA EndedStep ==
  ASSUME FlowInv, Next
  PROVE  \/ UNCHANGED ended
         \/ \E t \in Turns :
              \/ EndsBy(t, "knowledge-unauthorized") /\ worker["knowledge"] = Idle /\ Denied(t)
              \/ EndsBy(t, "case-progress-invalid") /\ worker["case-progress"].pc = "record" /\ worker["case-progress"].turn = t
              \/ /\ EndsBy(t, "accusation-invalid") /\ worker["accusation"].pc = "check" /\ worker["accusation"].turn = t
                 /\ worker["accusation"].seen \in {"cold-open", "discovery"}
              \/ EndsBy(t, "complete") /\ <<"narration", t>> \in sent
<1>0. \A t \in Turns : \A c, reason : FailTurn(c, t, reason) => EndsBy(t, reason)
  <2> SUFFICES ASSUME NEW t \in Turns, NEW c, NEW reason, FailTurn(c, t, reason) PROVE EndsBy(t, reason)
    OBVIOUS
  <2>1. ended' = [ended EXCEPT ![t] = IF @ = None THEN reason ELSE @]
    BY DEF FailTurn
  <2> QED BY <2>1 DEF FlowInv, Shape, EndsBy
<1>1. ASSUME NEW t \in Turns, LoadKnowledge(t), ended' # ended
      PROVE  EndsBy(t, "knowledge-unauthorized") /\ worker["knowledge"] = Idle /\ Denied(t)
  <2>1. worker["knowledge"] = Idle /\ Denied(t) /\ FailTurn("knowledge", t, "knowledge-unauthorized")
    BY <1>1 DEF LoadKnowledge, Deliver
  <2> QED BY <1>0, <2>1
<1>2. ASSUME NEW c \in {"case-progress", "accusation"}, Record(c), ended' # ended
      PROVE  /\ EndsBy(worker["case-progress"].turn, "case-progress-invalid")
             /\ worker["case-progress"].pc = "record" /\ worker["case-progress"].turn \in Turns
  <2>1. /\ c = "case-progress" /\ worker[c].pc = "record"
        /\ FailTurn(c, worker[c].turn, "case-progress-invalid")
    BY <1>2 DEF Record, At, Turn
  <2>2. worker["case-progress"].turn \in Turns
    BY <2>1, AreConsumers, Working DEF FlowInv
  <2> QED BY <1>0, <2>1, <2>2
<1>3. ASSUME Check, ended' # ended
      PROVE  /\ EndsBy(worker["accusation"].turn, "accusation-invalid") /\ worker["accusation"].pc = "check"
             /\ worker["accusation"].turn \in Turns /\ worker["accusation"].seen \in {"cold-open", "discovery"}
  <2>1. /\ worker["accusation"].pc = "check" /\ worker["accusation"].seen \in {"cold-open", "discovery"}
        /\ FailTurn("accusation", worker["accusation"].turn, "accusation-invalid")
    BY <1>3 DEF Check, At, Turn
  <2>2. worker["accusation"].turn \in Turns
    BY <2>1, AreConsumers, Working DEF FlowInv
  <2> QED BY <1>0, <2>1, <2>2
<1>4. ASSUME NEW t \in Turns, Narrate(t) PROVE EndsBy(t, "complete") /\ <<"narration", t>> \in sent
  <2>1. ended' = [ended EXCEPT ![t] = IF @ # None THEN @ ELSE "complete"]
    BY <1>4 DEF Narrate
  <2>2. <<"narration", t>> \in sent
    BY <1>4 DEF Narrate, Deliver, FlowInv, Deliveries
  <2> QED BY <2>1, <2>2 DEF FlowInv, Shape, EndsBy
<1>5. \/ UNCHANGED ended \/ Check
      \/ \E t \in Turns : LoadKnowledge(t) \/ Narrate(t)
      \/ \E c \in {"case-progress", "accusation"} : Record(c)
  BY NextCases, TurnFrames, BarrierFrames, CompanionFrames DEF turnFrame
<1> QED BY <1>1, <1>2, <1>3, <1>4, <1>5

LEMMA StagedStep ==
  ASSUME FlowInv, Next
  PROVE  /\ staged' = [t \in Turns |-> staged'[t]]
         /\ \A t \in Turns : staged'[t] = staged[t] \/ <<"companion", t>> \in sent
<1>1. ASSUME NEW t \in Turns, NEW x, staged' = [staged EXCEPT ![t] = x], <<"companion", t>> \in sent
      PROVE  /\ staged' = [u \in Turns |-> staged'[u]]
             /\ \A u \in Turns : staged'[u] = staged[u] \/ <<"companion", u>> \in sent
  BY <1>1 DEF FlowInv, Shape
<1>2. ASSUME NEW t \in Turns, LoadCompanion(t)
      PROVE  UNCHANGED staged \/ (staged' = [staged EXCEPT ![t] = Silent] /\ <<"companion", t>> \in sent)
  <2>1. <<"companion", t>> \in sent
    BY <1>2 DEF LoadCompanion, Deliver, FlowInv, Deliveries
  <2>2. UNCHANGED staged \/ staged' = [staged EXCEPT ![t] = Silent]
    BY <1>2 DEF LoadCompanion
  <2> QED BY <2>1, <2>2
<1>3. ASSUME commitRecord
      PROVE  /\ worker["companion"].turn \in Turns /\ <<"companion", worker["companion"].turn>> \in sent
             /\ staged' = [staged EXCEPT ![worker["companion"].turn] = worker["companion"].seen]
  <2>1. /\ worker["companion"].pc = "stage"
        /\ staged' = [staged EXCEPT ![worker["companion"].turn] = worker["companion"].seen]
    BY <1>3 DEF commitRecord, At, Turn
  <2> QED BY <2>1, AreConsumers, Working DEF FlowInv
<1>4. CASE UNCHANGED staged
  BY <1>4 DEF FlowInv, Shape
<1>5. UNCHANGED staged \/ commitRecord \/ \E t \in Turns : LoadCompanion(t)
  BY NextCases, TurnFrames, BarrierFrames, CompanionFrames DEF turnFrame
<1> QED BY <1>1, <1>2, <1>3, <1>4, <1>5

(* A trigger is published for a turn that has been interpreted, and a      *)
(* delivery takes one that was published.                                  *)
LEMMA StreamStep ==
  ASSUME FlowInv, Next
  PROVE  /\ sent \subseteq sent' /\ queue' \subseteq sent' /\ sent' \subseteq Consumers \X Turns
         /\ \A x \in sent' \ sent : decision'[x[2]] # None
<1> USE DEF FlowInv, Deliveries
<1>1. ASSUME NEW t \in Turns, NEW ts, ts \subseteq Consumers \X {t}, Publish(ts), decision'[t] # None
      PROVE  /\ sent \subseteq sent' /\ queue' \subseteq sent' /\ sent' \subseteq Consumers \X Turns
             /\ \A x \in sent' \ sent : decision'[x[2]] # None
  BY <1>1 DEF Publish
<1>2. ASSUME NEW t \in Turns, Interpret(t)
      PROVE  Publish({<<"knowledge", t>>, <<"accusation", t>>}) /\ decision'[t] # None
  <2>1. \E d \in Choices[t] : decision' = [decision EXCEPT ![t] = d]
    BY <1>2 DEF Interpret
  <2>2. decision'[t] \in Choices[t]
    BY <2>1 DEF Shape
  <2> QED BY <1>2, <2>2, CaseAssumption DEF Interpret
<1>3. ASSUME NEW t \in Turns, Sequence(t)
      PROVE  \E ts : ts \subseteq Consumers \X {t} /\ Publish(ts) /\ decision'[t] # None
  <2> DEFINE open == {<<"case-progress", t>> : x \in {y \in {1} : record[t]["knowledge"] # None}}
                       \cup {<<"companion", t>> : x \in {y \in {1} : \A b \in Barriers : record[t][b] # None}}
                       \cup {<<"narration", t>> : x \in {y \in {1} : staged[t] # None}}
  <2>1. Publish(open) /\ ~(open \subseteq sent) /\ UNCHANGED decision
    BY <1>3 DEF Sequence, turnVars
  <2>2. open \subseteq Consumers \X {t}
    BY AreConsumers
  <2>3. record[t]["knowledge"] # None \/ staged[t] # None
    BY <2>1 DEF Barriers
  <2>4. decision[t] # None
    BY <2>3 DEF Barriers
  <2> HIDE DEF open
  <2> QED BY <2>1, <2>2, <2>4
<1>4. CASE \E t \in Turns : Interpret(t)
  <2> PICK t \in Turns : Interpret(t)
    BY <1>4
  <2>1. {<<"knowledge", t>>, <<"accusation", t>>} \subseteq Consumers \X {t}
    BY AreConsumers
  <2> QED BY <1>1, <1>2, <2>1
<1>5. CASE \E t \in Turns : Sequence(t)
  BY <1>1, <1>3, <1>5
<1>6. CASE \E c \in Consumers, t \in Turns : Redeliver(c, t)
  BY <1>6 DEF Redeliver
<1>7. (UNCHANGED sent /\ queue' \subseteq queue) => /\ sent \subseteq sent' /\ queue' \subseteq sent' /\ sent' \subseteq Consumers \X Turns
                                                    /\ \A x \in sent' \ sent : decision'[x[2]] # None
  OBVIOUS
<1>8. \/ UNCHANGED sent \/ \E t \in Turns : Interpret(t) \/ Sequence(t)
  BY NextCases, TurnFrames, BarrierFrames, CompanionFrames
<1>9. /\ \A c, t : Ack(c, t) => queue' \subseteq queue
      /\ \A c : Nak(c) => queue' \subseteq queue
      /\ \A c, t, reason : FailTurn(c, t, reason) => queue' \subseteq queue
      /\ \A c, t, pc, seen : Begin(c, t, pc, seen) => queue' \subseteq queue
      /\ \A c, t, kind, seen : BeginEvent(c, t, kind, seen) => queue' \subseteq queue
      /\ \A c : AfterRecord(c) => queue' \subseteq queue
  BY DEF Ack, Nak, FailTurn, Begin, BeginEvent, AfterRecord
<1>10. /\ \A t : LoadKnowledge(t) => queue' \subseteq queue
       /\ \A t : LoadProgress(t) => queue' \subseteq queue
       /\ \A t : LoadAccusation(t) => queue' \subseteq queue
       /\ \A t : LoadCompanion(t) => queue' \subseteq queue
       /\ \A t : Narrate(t) => queue' \subseteq queue
       /\ \A c : Record(c) \/ WriteReceipt(c) => queue' \subseteq queue
  BY <1>9 DEF LoadKnowledge, LoadProgress, LoadAccusation, LoadCompanion, Narrate, Record, WriteReceipt
<1>11. LandKnowledge \/ LandProgress \/ Check \/ Commit \/ RepairObject \/ commitRecord => queue' \subseteq queue
  BY <1>9 DEF LandKnowledge, LandProgress, Check, Commit, RepairObject, commitRecord
<1>12. \/ queue' \subseteq queue \/ \E t \in Turns : Interpret(t) \/ Sequence(t)
       \/ \E c \in Consumers, t \in Turns : Redeliver(c, t)
  BY <1>10, <1>11, NextCases, TurnFrames, BarrierFrames, CompanionFrames
<1> QED BY <1>4, <1>5, <1>6, <1>7, <1>8, <1>12

LEMMA Moves ==
  ASSUME FlowInv, Next
  PROVE  \/ UNCHANGED worker
         \/ KnowledgeMove \/ ProgressMove \/ AccusationMove \/ CompanionMove \/ Becomes("narration", Idle)
<1> USE DEF FlowInv
<1>1. ASSUME NEW t \in Turns, LoadKnowledge(t) PROVE KnowledgeMove
  <2>1. <<"knowledge", t>> \in queue /\ worker["knowledge"] = Idle
    BY <1>1 DEF LoadKnowledge, Deliver
  <2>2. CASE Denied(t)
    <3>1. Ack("knowledge", t) \/ Nak("knowledge")
      BY <1>1, <2>2 DEF LoadKnowledge, FailTurn
    <3> QED BY <3>1, AreConsumers, WorkerUpdates DEF KnowledgeMove
  <2>3. CASE ~Denied(t)
    <3>1. \E w \in Witness(t) : Begin("knowledge", t, "grant", Plan(t, w))
      BY <1>1, <2>3 DEF LoadKnowledge
    <3>2. \E w \in Witness(t) : Becomes("knowledge", Delivery("grant", t, None, Plan(t, w)))
      BY <3>1, AreConsumers, WorkerUpdates
    <3>3. UNCHANGED caseVars
      BY <1>1, BarrierFrames DEF caseVars
    <3> QED BY <2>1, <2>3, <3>2, <3>3 DEF KnowledgeMove
  <2> QED BY <2>2, <2>3
<1>2. ASSUME Grant PROVE UNCHANGED worker \/ KnowledgeMove
  <2>1. CASE UNCHANGED worker
    BY <2>1
  <2>2. CASE ~UNCHANGED worker
    <3>1. /\ worker["knowledge"].pc = "grant" /\ Goto("knowledge", "reveal") /\ UNCHANGED known
          /\ \A x \in worker["knowledge"].seen : <<x.who, x.what>> \in known
      BY <1>2, <2>2 DEF Grant, At
    <3>2. GoesOn("knowledge", "reveal")
      BY <3>1, AreConsumers, WorkerUpdates DEF GoesOn
    <3>3. UNCHANGED caseVars
      BY <1>2, <3>1, BarrierFrames DEF caseVars, turnFrame
    <3> QED BY <3>1, <3>2, <3>3 DEF KnowledgeMove
  <2> QED BY <2>1, <2>2
<1>3. LandKnowledge => KnowledgeMove
  BY AreConsumers, WorkerUpdates DEF LandKnowledge, KnowledgeMove
<1>4. ASSUME NEW t \in Turns, LoadProgress(t) PROVE ProgressMove
  <2>1. <<"case-progress", t>> \in queue /\ worker["case-progress"] = Idle
    BY <1>4 DEF LoadProgress, Deliver
  <2>2. CASE Ack("case-progress", t)
    BY <2>2, AreConsumers, WorkerUpdates DEF ProgressMove
  <2>3. CASE ~Ack("case-progress", t)
    <3>1. record[t]["case-progress"] = None /\ BeginEvent("case-progress", t, derive(decision[t]), None)
      BY <1>4, <2>3 DEF LoadProgress
    <3>2. derive(decision[t]) \in {None, "body-observed", "investigation-started"}
      BY DEF derive
    <3>3. \/ Go("case-progress", t, "land", None, None)
          \/ \E k \in {"body-observed", "investigation-started"} : Go("case-progress", t, "record", Event(t, k), None)
      BY <3>1, <3>2 DEF BeginEvent
    <3>4. \/ Becomes("case-progress", Delivery("land", t, None, None))
          \/ \E k \in {"body-observed", "investigation-started"} :
                     Becomes("case-progress", Delivery("record", t, Event(t, k), None))
      BY <3>3, AreConsumers, WorkerUpdates
    <3>5. UNCHANGED caseVars
      BY <1>4, BarrierFrames DEF caseVars, turnFrame
    <3> QED BY <2>1, <3>1, <3>4, <3>5 DEF ProgressMove
  <2> QED BY <2>2, <2>3
<1>5. ASSUME NEW c \in {"case-progress", "accusation"}, Record(c) \/ WriteReceipt(c) PROVE ProgressMove \/ AccusationMove
  <2>1. CASE c = "case-progress"
    BY <1>5, <2>1, Recording DEF ProgressMove
  <2>2. CASE c = "accusation"
    BY <1>5, <2>2, Recording DEF AccusationMove
  <2> QED BY <2>1, <2>2
<1>6. LandProgress => ProgressMove
  BY AreConsumers, WorkerUpdates DEF LandProgress, ProgressMove
<1>7. ASSUME NEW t \in Turns, LoadAccusation(t) PROVE AccusationMove
  <2>1. <<"accusation", t>> \in queue /\ worker["accusation"] = Idle
    BY <1>7 DEF LoadAccusation, Deliver
  <2>2. None # "accusation-submitted"
    BY CaseAssumption DEF Events
  <2>3. \/ decision[t].kind = "accuse" /\ Go("accusation", t, "record", Event(t, "accusation-submitted"), phase)
        \/ decision[t].kind # "accuse" /\ Begin("accusation", t, "commit", "none")
    BY <1>7, <2>2 DEF LoadAccusation, BeginEvent
  <2>4. \/ /\ decision[t].kind = "accuse"
           /\ Becomes("accusation", Delivery("record", t, Event(t, "accusation-submitted"), phase))
        \/ /\ decision[t].kind # "accuse"
           /\ Becomes("accusation", Delivery("commit", t, None, "none"))
    BY <2>3, AreConsumers, WorkerUpdates
  <2>5. UNCHANGED caseVars
    BY <1>7, BarrierFrames DEF caseVars, turnFrame
  <2> QED BY <2>1, <2>4, <2>5 DEF AccusationMove
<1>8. ASSUME Check PROVE AccusationMove
  <2> DEFINE a == worker["accusation"]
  <2>1. \/ Nak("accusation") \/ Ack("accusation", a.turn)
        \/ /\ a.pc = "check" /\ a.seen \in {"accusation", "denouement"}
           /\ Go("accusation", a.turn, "commit", a.event, Verify(decision[a.turn]))
    BY <1>8 DEF Check, FailTurn, At, Turn
  <2>2. UNCHANGED caseVars
    BY <1>8, BarrierFrames DEF caseVars
  <2> QED BY <2>1, <2>2, AreConsumers, WorkerUpdates DEF AccusationMove
<1>9. ASSUME Commit PROVE AccusationMove
  <2> DEFINE a == worker["accusation"]
  <2>1. \/ Ack("accusation", a.turn)
        \/ /\ a.pc = "commit" /\ a.seen = "correct"
           /\ record' = [record EXCEPT ![a.turn]["accusation"] = "correct"]
           /\ Go("accusation", a.turn, "record", Correct(a.turn), "correct")
    BY <1>9 DEF Commit, At, Turn
  <2>2. UNCHANGED <<phase, known, decision>>
    BY <1>9, BarrierFrames
  <2> QED BY <2>1, <2>2, AreConsumers, WorkerUpdates DEF AccusationMove
<1>10. ASSUME NEW t \in Turns, LoadCompanion(t) PROVE CompanionMove
  <2>1. <<"companion", t>> \in queue /\ worker["companion"] = Idle
    BY <1>10 DEF LoadCompanion, Deliver
  <2>2. \/ Ack("companion", t)
        \/ \E pc \in {"advance", "stage", "claim"} : \E s : Begin("companion", t, pc, s)
    BY <1>10 DEF LoadCompanion, advanceResidentHint
  <2>3. UNCHANGED caseVars
    BY <1>10, CompanionFrames DEF caseVars
  <2> QED BY <2>1, <2>2, <2>3, AreConsumers, WorkerUpdates DEF CompanionMove
<1>11. ASSUME ClaimExact \/ RepairObject \/ AdvanceHint \/ commitRecord PROVE CompanionMove
  <2>1. worker["companion"].pc # "idle"
    BY <1>11 DEF ClaimExact, RepairObject, AdvanceHint, commitRecord, At
  <2>2. worker["companion"] # Idle
    BY <2>1, AreConsumers, Working
  <2>3. \/ Ack("companion", Turn("companion")) \/ Nak("companion")
        \/ \E pc \in {"object", "advance", "stage"} : Goto("companion", pc)
    BY <1>11 DEF ClaimExact, RepairObject, AdvanceHint, commitRecord
  <2>4. UNCHANGED caseVars
    BY <1>11, CompanionFrames DEF caseVars, turnFrame
  <2> QED BY <2>2, <2>3, <2>4, AreConsumers, WorkerUpdates DEF CompanionMove, GoesOn
<1>12. ASSUME NEW t \in Turns, Narrate(t) PROVE Becomes("narration", Idle)
  BY <1>12, AreConsumers, WorkerUpdates DEF Narrate
<1>13. ASSUME NEW c \in Consumers, Interrupt(c)
       PROVE  KnowledgeMove \/ ProgressMove \/ AccusationMove \/ CompanionMove \/ Becomes("narration", Idle)
  <2>1. Becomes(c, Idle)
    BY <1>13, WorkerUpdates DEF Interrupt
  <2> QED BY <2>1, AreConsumers DEF KnowledgeMove, ProgressMove, AccusationMove, CompanionMove
<1>14. \/ UNCHANGED worker \/ Grant \/ LandKnowledge \/ LandProgress \/ Check \/ Commit
       \/ ClaimExact \/ RepairObject \/ AdvanceHint \/ commitRecord
       \/ \E t \in Turns : \/ LoadKnowledge(t) \/ LoadProgress(t) \/ LoadAccusation(t)
                           \/ LoadCompanion(t) \/ Narrate(t)
       \/ \E c \in {"case-progress", "accusation"} : Record(c) \/ WriteReceipt(c)
       \/ \E c \in Consumers : Interrupt(c)
  BY NextCases, TurnFrames, BarrierFrames
<1> QED BY <1>1, <1>2, <1>3, <1>4, <1>5, <1>6, <1>7, <1>8, <1>9, <1>10, <1>11, <1>12, <1>13, <1>14

-----------------------------------------------------------------------------
(* The invariant of the deliveries.                                        *)

LEMMA Fields ==
  /\ \A pc, t, e, s : /\ Delivery(pc, t, e, s).pc = pc /\ Delivery(pc, t, e, s).turn = t
                      /\ Delivery(pc, t, e, s).event = e /\ Delivery(pc, t, e, s).seen = s
                      /\ Delivery(pc, t, e, s) = [pc |-> pc, turn |-> t, event |-> e, seen |-> s]
  /\ Idle.pc = "idle" /\ Idle = Delivery("idle", None, None, None)
  /\ \A t, k : Event(t, k).kind = k
BY DEF Delivery, Idle, Event

LEMMA OneMoves ==
  ASSUME NEW c, NEW x, Becomes(c, x)
  PROVE  /\ worker' = [d \in Consumers |-> worker'[d]]
         /\ c \in Consumers => worker'[c] = x
         /\ \A d \in Consumers : d # c => worker'[d] = worker[d]
BY DEF Becomes

LEMMA SomeoneMoves ==
  /\ KnowledgeMove => \E x : Becomes("knowledge", x)
  /\ ProgressMove => \E x : Becomes("case-progress", x)
  /\ AccusationMove => \E x : Becomes("accusation", x)
  /\ CompanionMove => \E x : Becomes("companion", x)
BY DEF KnowledgeMove, ProgressMove, AccusationMove, CompanionMove, GoesOn

LEMMA Moved ==
  ASSUME FlowInv, Next
  PROVE  /\ worker' = [c \in Consumers |-> worker'[c]]
         /\ worker'["knowledge"] = worker["knowledge"] \/ KnowledgeMove
         /\ worker'["case-progress"] = worker["case-progress"] \/ ProgressMove
         /\ worker'["accusation"] = worker["accusation"] \/ AccusationMove
         /\ worker'["companion"] = worker["companion"] \/ CompanionMove
         /\ worker'["narration"] \in {worker["narration"], Idle}
<1>1. CASE UNCHANGED worker
  BY <1>1 DEF FlowInv, Shape
<1>2. CASE KnowledgeMove
  BY <1>2, SomeoneMoves, OneMoves, AreConsumers
<1>3. CASE ProgressMove
  BY <1>3, SomeoneMoves, OneMoves, AreConsumers
<1>4. CASE AccusationMove
  BY <1>4, SomeoneMoves, OneMoves, AreConsumers
<1>5. CASE CompanionMove
  BY <1>5, SomeoneMoves, OneMoves, AreConsumers
<1>6. CASE Becomes("narration", Idle)
  BY <1>6, OneMoves, AreConsumers
<1> QED BY <1>1, <1>2, <1>3, <1>4, <1>5, <1>6, Moves

LEMMA StepSets ==
  /\ Steps("knowledge") = {"grant", "reveal"} /\ Steps("case-progress") = {"record", "write", "land"}
  /\ Steps("accusation") = {"record", "write", "check", "commit"}
  /\ Steps("companion") = {"claim", "object", "advance", "stage"} /\ Steps("narration") = {}
BY DEF Steps

(* A delivery goes on where it is, ends, or is one of a published trigger. *)
Fresh(c) ==
  \E pc \in Steps(c), t \in Turns : \E e, s :
    worker'[c] = Delivery(pc, t, e, s) /\ <<c, t>> \in sent
LEMMA NewDelivery ==
  ASSUME FlowInv, Next, NEW c \in Consumers
  PROVE  worker'[c] = worker[c] \/ worker'[c] = Idle \/ Fresh(c)
<1> USE DEF FlowInv
<1>0. \A d \in Consumers, t \in Turns : <<d, t>> \in queue => <<d, t>> \in sent
  BY DEF Deliveries
<1>1. ASSUME NEW d \in Consumers, NEW pc \in Steps(d), GoesOn(d, pc), worker[d].pc # "idle"
      PROVE  Fresh(d)
  <2>1. worker[d].turn \in Turns /\ <<d, worker[d].turn>> \in sent
    BY <1>1, Working
  <2>2. worker'[d] = Delivery(pc, worker[d].turn, worker[d].event, worker[d].seen)
    BY <1>1, OneMoves DEF GoesOn
  <2> QED BY <2>1, <2>2 DEF Fresh
<1>2. ASSUME NEW d \in Consumers, NEW pc \in Steps(d), NEW t \in Turns, NEW e, NEW s,
             Becomes(d, Delivery(pc, t, e, s)), <<d, t>> \in sent
      PROVE  Fresh(d)
  BY <1>2, OneMoves DEF Fresh
<1>3. ASSUME NEW d \in Consumers, Becomes(d, Idle) PROVE worker'[d] = Idle
  BY <1>3, OneMoves
<1>4. CASE c = "knowledge" /\ KnowledgeMove
  BY <1>0, <1>1, <1>2, <1>3, <1>4, StepSets DEF KnowledgeMove
<1>5. CASE c = "case-progress" /\ ProgressMove
  BY <1>0, <1>1, <1>2, <1>3, <1>5, StepSets DEF ProgressMove
<1>6. CASE c = "accusation" /\ AccusationMove
  <2> DEFINE a == worker["accusation"]
  <2>1. a.pc # "idle" => a.turn \in Turns /\ <<"accusation", a.turn>> \in sent
    BY <1>6, Working
  <2>2. CASE Becomes("accusation", Idle)
    BY <1>3, <1>6, <2>2
  <2>3. CASE \/ \E t \in Turns : \E e, s : Becomes("accusation", Delivery("record", t, e, s)) /\ <<"accusation", t>> \in sent
             \/ \E t \in Turns : \E e, s : Becomes("accusation", Delivery("commit", t, e, s)) /\ <<"accusation", t>> \in sent
             \/ \E pc \in {"write", "check"} : GoesOn("accusation", pc) /\ a.pc # "idle"
    BY <1>1, <1>2, <1>6, <2>3, StepSets
  <2> QED BY <1>0, <1>6, <2>1, <2>2, <2>3 DEF AccusationMove
<1>7. CASE c = "companion" /\ CompanionMove
  <2> DEFINE h == worker["companion"]
  <2>1. h # Idle => h.turn \in Turns /\ <<"companion", h.turn>> \in sent
    BY <1>7 DEF Deliveries
  <2>2. CASE Becomes("companion", Idle)
    BY <1>3, <1>7, <2>2
  <2>3. CASE \E t \in Turns, pc \in {"advance", "stage", "claim"} : \E s :
             <<"companion", t>> \in queue /\ Becomes("companion", Delivery(pc, t, None, s))
    BY <1>0, <1>2, <1>7, <2>3, StepSets
  <2>4. CASE h # Idle /\ \E pc \in {"object", "advance", "stage"} : GoesOn("companion", pc)
    BY <1>2, <1>7, <2>1, <2>4, StepSets DEF GoesOn
  <2> QED BY <1>7, <2>2, <2>3, <2>4 DEF CompanionMove
<1> QED BY <1>4, <1>5, <1>6, <1>7, Moved, AreConsumers

(* Every consumer's events, turn by turn of its handler.                   *)
LEMMA EventsStep ==
  ASSUME FlowInv, Next
  PROVE  EventsAreOwn'
<1> USE DEF FlowInv
<1> DEFINE p == worker["case-progress"]
           a == worker["accusation"]
<1>1. worker'["case-progress"].pc \in {"record", "write"} =>
        worker'["case-progress"].event.kind \in {"body-observed", "investigation-started"}
  <2>1. CASE worker'["case-progress"] = p
    BY <2>1 DEF EventsAreOwn
  <2>2. CASE worker'["case-progress"] = Idle
    BY <2>2, Fields
  <2>3. CASE \E t : worker'["case-progress"] = Delivery("land", t, p.event, p.seen) \/ worker'["case-progress"] = Delivery("land", t, None, None)
    BY <2>3, Fields
  <2>4. CASE \E t : \E k \in {"body-observed", "investigation-started"} : worker'["case-progress"] = Delivery("record", t, Event(t, k), None)
    BY <2>4, Fields
  <2>5. CASE p.pc = "record" /\ worker'["case-progress"] = Delivery("write", p.turn, p.event, p.seen)
    BY <2>5, Fields DEF EventsAreOwn
  <2>6. ProgressMove => \/ worker'["case-progress"] = Idle
                        \/ \E t : worker'["case-progress"] = Delivery("land", t, p.event, p.seen) \/ worker'["case-progress"] = Delivery("land", t, None, None)
                        \/ \E t : \E k \in {"body-observed", "investigation-started"} : worker'["case-progress"] = Delivery("record", t, Event(t, k), None)
                        \/ p.pc = "record" /\ worker'["case-progress"] = Delivery("write", p.turn, p.event, p.seen)
    BY OneMoves, AreConsumers DEF ProgressMove, GoesOn
  <2> QED BY <2>1, <2>2, <2>3, <2>4, <2>5, <2>6, Moved
<1>2. /\ worker'["accusation"].pc \in {"record", "write"} =>
           worker'["accusation"].event.kind \in {"accusation-submitted", "accusation-correct"}
      /\ worker'["accusation"].pc = "check" => worker'["accusation"].event.kind = "accusation-submitted"
  <2> DEFINE n == worker'["accusation"]
  <2>1. CASE n = a
    BY <2>1 DEF EventsAreOwn
  <2>2. CASE n = Idle
    BY <2>2, Fields
  <2>3. CASE \E t, s : \E k \in {"accusation-submitted", "accusation-correct"} : n = Delivery("record", t, Event(t, k), s)
    BY <2>3, Fields
  <2>4. CASE \E t, e, s : n = Delivery("commit", t, e, s)
    BY <2>4, Fields
  <2>5. CASE a.pc = "record" /\ n = Delivery("write", a.turn, a.event, a.seen)
    BY <2>5, Fields DEF EventsAreOwn
  <2>6. CASE a.event.kind = "accusation-submitted" /\ n = Delivery("check", a.turn, a.event, a.seen)
    BY <2>6, Fields
  <2>7. AccusationMove => \/ n = Idle
                          \/ \E t, s : \E k \in {"accusation-submitted", "accusation-correct"} : n = Delivery("record", t, Event(t, k), s)
                          \/ \E t, e, s : n = Delivery("commit", t, e, s)
                          \/ a.pc = "record" /\ n = Delivery("write", a.turn, a.event, a.seen)
                          \/ a.event.kind = "accusation-submitted" /\ n = Delivery("check", a.turn, a.event, a.seen)
    <3>1. \A x : Becomes("accusation", x) => n = x
      BY OneMoves, AreConsumers
    <3> HIDE DEF n, a
    <3> QED BY <3>1 DEF AccusationMove, GoesOn, Correct, a
  <2> QED BY <2>1, <2>2, <2>3, <2>4, <2>5, <2>6, <2>7, Moved
<1> QED BY <1>1, <1>2 DEF EventsAreOwn

LEMMA FlowStep ==
  ASSUME FlowInv, Next
  PROVE  FlowInv'
<1> USE DEF FlowInv
<1>1. Shape'
  <2>1. ASSUME NEW c \in Consumers
        PROVE  worker'[c] = [pc |-> worker'[c].pc, turn |-> worker'[c].turn,
                             event |-> worker'[c].event, seen |-> worker'[c].seen]
    <3>1. CASE worker'[c] = worker[c]
      BY <3>1 DEF Shape
    <3>2. CASE \E q, t, e, s : worker'[c] = Delivery(q, t, e, s)
      BY <3>2, Fields
    <3>3. Fresh(c) => \E q, t, e, s : worker'[c] = Delivery(q, t, e, s)
      BY DEF Fresh
    <3>4. worker'[c] = Idle => \E q, t, e, s : worker'[c] = Delivery(q, t, e, s)
      BY Fields
    <3> QED BY <3>1, <3>2, <3>3, <3>4, NewDelivery
  <2>2. record' = [t \in Turns |-> [b \in Barriers |-> record'[t][b]]]
    <3>1. CASE Turns = {}
      BY <3>1, NextCases, TurnFrames, BarrierFrames, CompanionFrames, Working, AreConsumers DEF turnFrame, Shape, LandKnowledge, LandProgress, Commit, At
    <3>2. CASE Turns # {}
      BY <3>2, RecordStep
    <3> QED BY <3>1, <3>2
  <2>3. decision' = [t \in Turns |-> decision'[t]]
    BY DecisionStep DEF Shape
  <2>4. told' = [t \in Turns |-> told'[t]]
    BY ToldStep DEF Shape
  <2>5. ended' = [t \in Turns |-> ended'[t]]
    BY EndedStep DEF Shape, EndsBy
  <2> QED BY <2>1, <2>2, <2>3, <2>4, <2>5, Moved, StagedStep DEF Shape
<1>2. Deliveries'
  <2>1. ASSUME NEW c \in Consumers, worker'[c] # Idle
        PROVE  worker'[c].pc \in Steps(c) /\ worker'[c].turn \in Turns /\ <<c, worker'[c].turn>> \in sent'
    <3>1. CASE worker'[c] = worker[c]
      BY <2>1, <3>1, StreamStep DEF Deliveries
    <3>2. CASE Fresh(c)
      BY <3>2, Fields, StreamStep DEF Fresh
    <3> QED BY <2>1, <3>1, <3>2, NewDelivery
  <2>2. \A t \in Turns : decision[t] # None => decision'[t] = decision[t]
    BY DecisionStep
  <2>3. \A x \in sent' : decision'[x[2]] # None
    BY <2>2, StreamStep DEF Deliveries
  <2>4. ASSUME NEW t \in Turns PROVE decision'[t] \in Choices[t] \cup {None}
    BY DecisionStep DEF Deliveries
  <2>5. ASSUME NEW t \in Turns, decision'[t] = None
        PROVE  staged'[t] = None /\ told'[t] = None /\ \A b \in Barriers : record'[t][b] = None
    <3>1. decision[t] = None
      BY <2>2, <2>5
    <3>2. \A c \in Consumers : <<c, t>> \notin sent
      <4> SUFFICES ASSUME NEW c \in Consumers, <<c, t>> \in sent PROVE FALSE
        OBVIOUS
      <4>1. decision[<<c, t>>[2]] # None
        BY DEF Deliveries
      <4> QED BY <3>1, <4>1
    <3>3. staged'[t] = staged[t]
      BY <3>2, StagedStep, AreConsumers
    <3>4. told'[t] = told[t]
      BY <3>2, ToldStep, AreConsumers DEF Deliveries
    <3>5. \A c \in Consumers : worker[c].pc # "idle" => worker[c].turn # t
      BY <3>2, Working
    <3>6. \A b \in Barriers : record'[t][b] = record[t][b]
      BY <3>5, RecordStep, AreConsumers DEF LandsKnowledge, LandsProgress, LandsAccusation, Barriers
    <3> QED BY <3>1, <3>3, <3>4, <3>6 DEF Deliveries
  <2> QED BY <2>1, <2>3, <2>4, <2>5, StreamStep DEF Deliveries
<1>3. EventsAreOwn'
  BY EventsStep
<1>4. receipt' # None => receipt'.kind \in Events
  BY ReceiptStep DEF EventsAreOwn, Events
<1>5. phase' \in Phases
  BY PhaseStep, Climb
<1> QED BY <1>1, <1>2, <1>3, <1>4, <1>5

LEMMA FlowInit ==
  ASSUME Init
  PROVE  FlowInv
<1>1. Shape
  BY DEF Init, Shape, Idle
<1>2. Deliveries
  BY DEF Init, Deliveries
<1>3. EventsAreOwn
  <2>1. \A c \in Consumers : worker[c].pc = "idle"
    BY Fields DEF Init
  <2> QED BY <2>1, AreConsumers DEF EventsAreOwn
<1>4. phase \in Phases
  BY CaseAssumption DEF Init
<1>5. receipt # None => receipt.kind \in Events
  <2>1. phase # "cold-open" => \E k \in Events : To(k) = phase
    BY <1>4, PhaseSet, Edges DEF Events
  <2>2. phase # "cold-open" => (CHOOSE k \in Events : To(k) = phase) \in Events
    BY <2>1
  <2>3. receipt = IF phase = "cold-open" THEN None ELSE [Earlier EXCEPT !.kind = CHOOSE k \in Events : To(k) = phase]
    BY DEF Init
  <2> DEFINE k == CHOOSE k \in Events : To(k) = phase
  <2> HIDE DEF k
  <2>4. [Earlier EXCEPT !.kind = k].kind = k
    BY DEF Earlier
  <2> QED BY <2>2, <2>3, <2>4 DEF k
<1> QED BY <1>1, <1>2, <1>3, <1>4, <1>5 DEF FlowInv

LEMMA FlowHolds == Spec => []FlowInv
<1>1. FlowInv /\ UNCHANGED vars => FlowInv'
  BY DEF FlowInv, Shape, Deliveries, EventsAreOwn, vars, turnVars, graphVars, companionVars, streamVars
<1>2. FlowInv /\ [Next]_vars => FlowInv'
  BY <1>1, FlowStep
<1> QED BY <1>2, FlowInit, PTL DEF Spec

(* What a delivery is once it has moved.                                   *)
LEMMA Becoming == \A c \in Consumers : \A x : Becomes(c, x) => worker'[c] = x
BY DEF Becomes

(* The case only climbs, and a solved case stays solved.                   *)
LEMMA PhaseClimbs ==
  ASSUME FlowInv, Next
  PROVE  /\ phaseRank(phase) \in 1 .. 5 /\ phaseRank(phase') \in 1 .. 5 /\ phaseRank(phase) <= phaseRank(phase')
         /\ phase \in {"accusation", "denouement"} => phase' \in {"accusation", "denouement"}
         /\ phase = "denouement" => phase' = "denouement"
<1>1. phase \in Phases /\ phase' \in Phases
  BY FlowStep DEF FlowInv
<1>2. CASE UNCHANGED phase
  BY <1>1, <1>2, RankIsNumber
<1>3. CASE \E k \in Events : phase = From(k) /\ phase' = To(k)
  BY <1>1, <1>3, RankIsNumber, Climb, Edges, Ranks DEF Events
<1> QED BY <1>2, <1>3, PhaseStep DEF FlowInv

-----------------------------------------------------------------------------
(* A receipt is of a phase the case has reached.                           *)

LEMMA OrderStep ==
  ASSUME FlowInv, WritesInOrder, NoReceiptAhead, Next
  PROVE  WritesInOrder' /\ NoReceiptAhead'
<1> DEFINE Reached(e) == phaseRank(From(e.kind)) <= phaseRank(phase)
<1>0. \A k \in Events : phaseRank(From(k)) \in 1 .. 4
  BY Climb
<1>1. \A k \in Events : phaseRank(From(k)) <= phaseRank(phase) => phaseRank(From(k)) <= phaseRank(phase')
  BY <1>0, PhaseClimbs
<1>2. \A c \in {"case-progress", "accusation"} : worker[c].pc \in {"record", "write"} => worker[c].event.kind \in Events
  BY DEF FlowInv, EventsAreOwn, Events
<1>3. NoReceiptAhead'
  <2>1. CASE UNCHANGED receipt
    BY <1>1, <2>1 DEF NoReceiptAhead, FlowInv
  <2>2. CASE \E c \in {"case-progress", "accusation"} : worker[c].pc = "write" /\ receipt' = worker[c].event
    BY <1>1, <1>2, <2>2 DEF NoReceiptAhead, WritesInOrder
  <2> QED BY <2>1, <2>2, ReceiptStep
<1>4. ASSUME NEW c \in {"case-progress", "accusation"}, worker'[c].pc = "write"
      PROVE  phaseRank(From(worker'[c].event.kind)) <= phaseRank(phase')
  <2>1. CASE worker'[c] = worker[c]
    BY <1>1, <1>2, <1>4, <2>1 DEF WritesInOrder
  <2>2. CASE /\ worker'[c] = Delivery("write", worker[c].turn, worker[c].event, worker[c].seen)
             /\ worker[c].pc = "record" /\ NotAhead(worker[c].event)
    <3>1. worker'[c].event = worker[c].event /\ worker[c].event.kind \in Events
      BY <1>2, <2>2, Fields
    <3>2. phaseRank(From(worker[c].event.kind)) <= phaseRank(phase)
      BY <1>0, <2>2, <3>1, PhaseClimbs DEF NotAhead
    <3> QED BY <1>1, <3>1, <3>2
  <2>3. CASE c = "case-progress" /\ ProgressMove
    <3>1. \A pc, t, e, s : Becomes(c, Delivery(pc, t, e, s)) => pc = "write"
      BY <1>4, Becoming, Fields, AreConsumers
    <3>2. ~Becomes(c, Idle)
      BY <1>4, Becoming, Fields, AreConsumers
    <3>3. GoesOn(c, "write") /\ worker[c].pc = "record" /\ NotAhead(worker[c].event)
      BY <2>3, <3>1, <3>2 DEF ProgressMove, GoesOn
    <3> QED BY <2>2, <3>3, Becoming, AreConsumers DEF GoesOn
  <2>4. CASE c = "accusation" /\ AccusationMove
    <3>1. \A pc, t, e, s : Becomes(c, Delivery(pc, t, e, s)) => pc = "write"
      BY <1>4, Becoming, Fields, AreConsumers
    <3>2. ~Becomes(c, Idle)
      BY <1>4, Becoming, Fields, AreConsumers
    <3>3. GoesOn(c, "write") /\ worker[c].pc = "record" /\ NotAhead(worker[c].event)
      BY <2>4, <3>1, <3>2 DEF AccusationMove, GoesOn
    <3> QED BY <2>2, <3>3, Becoming, AreConsumers DEF GoesOn
  <2> QED BY <2>1, <2>3, <2>4, Moved
<1> QED BY <1>3, <1>4 DEF WritesInOrder

(* The receipt the case starts with is of the phase before.                *)
LEMMA FirstReceipt ==
  ASSUME Init
  PROVE  \/ receipt = None
         \/ \E k \in Events : receipt = [id |-> "earlier", kind |-> k] /\ To(k) = phase
<1>1. CASE phase = "cold-open"
  BY <1>1 DEF Init
<1>2. CASE phase # "cold-open"
  <2>1. \E k \in Events : To(k) = phase
    BY <1>2, FlowInit, PhaseSet, Edges DEF FlowInv, Events
  <2> DEFINE k == CHOOSE x \in Events : To(x) = phase
  <2>2. k \in Events /\ To(k) = phase
    BY <2>1
  <2>3. receipt = [Earlier EXCEPT !.kind = k]
    BY <1>2 DEF Init
  <2> HIDE DEF k
  <2>4. [Earlier EXCEPT !.kind = k] = [id |-> "earlier", kind |-> k]
    BY DEF Earlier
  <2> QED BY <2>2, <2>3, <2>4
<1> QED BY <1>1, <1>2

LEMMA AllIdle == Init => \A c \in Consumers : worker[c] = Idle /\ worker[c].pc = "idle"
BY Fields DEF Init

(* No receipt of the case is ahead of it: a consumer that finds its event  *)
(* out of order writes nothing, and one that did not may write late.       *)
THEOREM ReceiptsInOrder == Spec => []NoReceiptAhead
<1>1. ASSUME Init PROVE FlowInv /\ WritesInOrder /\ NoReceiptAhead
  <2>1. WritesInOrder
    BY <1>1, AllIdle, AreConsumers DEF WritesInOrder
  <2>2. CASE receipt = None
    BY <1>1, <2>1, <2>2, FlowInit DEF NoReceiptAhead
  <2>3. CASE \E k \in Events : receipt = [id |-> "earlier", kind |-> k] /\ To(k) = phase
    <3>1. PICK k \in Events : receipt.kind = k /\ To(k) = phase
      BY <2>3
    <3> QED BY <1>1, <2>1, <3>1, FlowInit, Climb DEF NoReceiptAhead
  <2> QED BY <1>1, <2>2, <2>3, FirstReceipt
<1>2. ASSUME FlowInv, WritesInOrder, NoReceiptAhead, [Next]_vars
      PROVE  (FlowInv /\ WritesInOrder /\ NoReceiptAhead)'
  <2>1. CASE Next
    BY <1>2, <2>1, FlowStep, OrderStep
  <2>2. CASE UNCHANGED vars
    BY <1>2, <2>2 DEF FlowInv, Shape, Deliveries, EventsAreOwn, WritesInOrder, NoReceiptAhead,
       vars, turnVars, graphVars, companionVars, streamVars
  <2> QED BY <1>2, <2>1, <2>2
<1> QED BY <1>1, <1>2, PTL DEF Spec

-----------------------------------------------------------------------------
(* A receipt of the knowledge barrier means what it lists.                 *)

LEMMA GrantStep ==
  ASSUME FlowInv, GrantedFirst, ReceiptMeansGranted, Next
  PROVE  GrantedFirst' /\ ReceiptMeansGranted'
<1> DEFINE k == worker["knowledge"]
           n == worker'["knowledge"]
<1>0. known \subseteq known' /\ revealed \subseteq revealed'
  BY KnownStep
<1>1. ASSUME n.pc = "reveal" PROVE \A x \in n.seen : <<x.who, x.what>> \in known'
  <2>1. CASE n = k
    BY <1>0, <1>1, <2>1 DEF GrantedFirst
  <2>2. CASE KnowledgeMove
    <3>1. \A pc, t, e, s : Becomes("knowledge", Delivery(pc, t, e, s)) => pc = "reveal" /\ n.seen = s
      BY <1>1, Becoming, Fields, AreConsumers
    <3>2. ~Becomes("knowledge", Idle)
      BY <1>1, Becoming, Fields, AreConsumers
    <3> DEFINE granted == \A x \in k.seen : <<x.who, x.what>> \in known
    <3>a. \A t, w : ~Becomes("knowledge", Delivery("grant", t, None, Plan(t, w)))
      BY <3>1
    <3>b. \/ Becomes("knowledge", Idle) \/ \E t, w : Becomes("knowledge", Delivery("grant", t, None, Plan(t, w)))
          \/ GoesOn("knowledge", "reveal") /\ granted
      BY <2>2 DEF KnowledgeMove
    <3>3. GoesOn("knowledge", "reveal") /\ granted
      BY <3>a, <3>b, <3>2
    <3>4. n.seen = k.seen
      BY <3>1, <3>3 DEF GoesOn
    <3> QED BY <1>0, <3>3, <3>4
  <2> QED BY <2>1, <2>2, Moved
<1>2. ASSUME NEW t \in Turns, record'[t]["knowledge"] # None, NEW x \in record'[t]["knowledge"]
      PROVE  <<x.who, x.what>> \in known' /\ [turn |-> t, entry |-> x] \in revealed'
  <2>1. CASE record'[t]["knowledge"] = record[t]["knowledge"]
    BY <1>0, <1>2, <2>1 DEF ReceiptMeansGranted
  <2>2. CASE LandsKnowledge(t)
    <3>1. k.pc = "reveal" /\ Reveals(t, k.seen) \subseteq revealed /\ record'[t]["knowledge"] = k.seen
      BY <2>2 DEF LandsKnowledge
    <3>2. [turn |-> t, entry |-> x] \in Reveals(t, k.seen)
      BY <1>2, <3>1 DEF Reveals
    <3> QED BY <1>0, <1>2, <3>1, <3>2 DEF GrantedFirst
  <2> QED BY <2>1, <2>2, RecordStep
<1> QED BY <1>1, <1>2 DEF GrantedFirst, ReceiptMeansGranted

(* Whatever interrupts a commit and whoever commits beside it, knowledge   *)
(* and revelation are there before the reference that vouches for them.    *)
THEOREM ReceiptsAreGranted == Spec => []ReceiptMeansGranted
<1>1. ASSUME Init PROVE FlowInv /\ GrantedFirst /\ ReceiptMeansGranted
  <2>1. GrantedFirst
    BY <1>1, AllIdle, AreConsumers DEF GrantedFirst
  <2>2. \A t \in Turns : record[t]["knowledge"] = None
    BY <1>1 DEF Init, Barriers
  <2> QED BY <1>1, <2>1, <2>2, FlowInit DEF ReceiptMeansGranted
<1>2. ASSUME FlowInv, GrantedFirst, ReceiptMeansGranted, [Next]_vars
      PROVE  (FlowInv /\ GrantedFirst /\ ReceiptMeansGranted)'
  <2>1. CASE Next
    BY <1>2, <2>1, FlowStep, GrantStep
  <2>2. CASE UNCHANGED vars
    BY <1>2, <2>2 DEF FlowInv, Shape, Deliveries, EventsAreOwn, GrantedFirst, ReceiptMeansGranted,
       vars, turnVars, graphVars, companionVars, streamVars
  <2> QED BY <1>2, <2>1, <2>2
<1> QED BY <1>1, <1>2, PTL DEF Spec

-----------------------------------------------------------------------------
(* A case is solved by a result.                                           *)

LEMMA AccusationWorks ==
  ASSUME FlowInv, worker["accusation"].pc # "idle"
  PROVE  /\ worker["accusation"].turn \in Turns /\ decision[worker["accusation"].turn] # None
         /\ worker["accusation"] # Idle
BY AreConsumers, Working DEF FlowInv

(* What the accusation consumer's delivery may have become.                *)
LEMMA AccusationCases ==
  ASSUME FlowInv, Next, worker'["accusation"].pc # "idle"
  PROVE  LET a == worker["accusation"]
             n == worker'["accusation"]
         IN \/ n = a
            \/ /\ n.pc = "record" /\ n.event.kind = "accusation-submitted" /\ n.seen = phase
               /\ decision[n.turn].kind = "accuse" /\ n.turn \in Turns /\ UNCHANGED caseVars
            \/ /\ n.pc = "commit" /\ n.seen = "none" /\ decision[n.turn].kind # "accuse"
               /\ n.turn \in Turns /\ UNCHANGED caseVars
            \/ /\ a.pc \in {"record", "write"} /\ n.pc \in {"write", "check"}
               /\ n.turn = a.turn /\ n.event = a.event /\ n.seen = a.seen /\ UNCHANGED caseVars
            \/ /\ a.pc = "check" /\ a.seen \in {"accusation", "denouement"} /\ n.pc = "commit"
               /\ n.turn = a.turn /\ n.seen = Verify(decision[a.turn]) /\ UNCHANGED caseVars
            \/ /\ a.pc = "commit" /\ a.seen = "correct" /\ n.pc = "record" /\ n.turn = a.turn
               /\ n.event.kind = "accusation-correct" /\ Writes(a.turn, "accusation", "correct")
               /\ UNCHANGED <<phase, known, decision>>
<1> DEFINE a == worker["accusation"]
           n == worker'["accusation"]
<1>1. \A x : Becomes("accusation", x) => n = x
  BY Becoming, AreConsumers
<1>2. \A pc, t, e, s : Becomes("accusation", Delivery(pc, t, e, s)) =>
        n.pc = pc /\ n.turn = t /\ n.event = e /\ n.seen = s
  BY <1>1, Fields
<1>3. ~Becomes("accusation", Idle)
  BY <1>1, Fields
<1>4. CASE AccusationMove
  <2>1. CASE \E t \in Turns : /\ decision[t].kind = "accuse" /\ UNCHANGED caseVars
                              /\ Becomes("accusation", Delivery("record", t, Event(t, "accusation-submitted"), phase))
    BY <1>2, <2>1, Fields
  <2>2. CASE \E t \in Turns : /\ decision[t].kind # "accuse" /\ UNCHANGED caseVars
                              /\ Becomes("accusation", Delivery("commit", t, None, "none"))
    BY <1>2, <2>2
  <2>3. CASE a.pc \in {"record", "write"} /\ UNCHANGED caseVars /\ \E pc \in {"write", "check"} : GoesOn("accusation", pc)
    BY <1>2, <2>3 DEF GoesOn
  <2>4. CASE /\ a.pc = "check" /\ a.seen \in {"accusation", "denouement"} /\ UNCHANGED caseVars
             /\ Becomes("accusation", Delivery("commit", a.turn, a.event, Verify(decision[a.turn])))
    BY <1>2, <2>4
  <2>5. CASE /\ a.pc = "commit" /\ a.seen = "correct" /\ UNCHANGED <<phase, known, decision>>
             /\ Becomes("accusation", Delivery("record", a.turn, Correct(a.turn), "correct"))
             /\ record' = [record EXCEPT ![a.turn]["accusation"] = "correct"]
    BY <1>2, <2>5, Fields DEF Correct, Writes
  <2> QED BY <1>3, <1>4, <2>1, <2>2, <2>3, <2>4, <2>5 DEF AccusationMove
<1> QED BY <1>4, Moved

(* A turn that has been interpreted keeps its decision, and a turn with a  *)
(* record has been interpreted.                                            *)
LEMMA DecisionStays ==
  ASSUME FlowInv, Next, NEW t \in Turns
  PROVE  /\ decision[t] # None => decision'[t] = decision[t]
         /\ record[t]["accusation"] # None => decision[t] # None
         /\ record[t]["knowledge"] # None => decision[t] # None
         /\ told[t] # None => decision[t] # None
BY DecisionStep DEF FlowInv, Deliveries, Barriers

LEMMA ResultStays ==
  ASSUME FlowInv, Next, NEW t \in Turns, record[t]["accusation"] = "correct"
  PROVE  record'[t]["accusation"] = "correct"
BY RecordStep, CaseAssumption DEF LandsAccusation

SolvedOn == (\E t \in Turns : record[t]["accusation"] = "correct") \/ "denouement" \in StartPhases
LEMMA ResultStep ==
  ASSUME FlowInv, ToldAfterResult, Next
  PROVE  ToldAfterResult'
<1> DEFINE a == worker["accusation"]
           n == worker'["accusation"]
<1>1. ASSUME n.pc \in {"record", "write"}, n.event.kind = "accusation-correct"
      PROVE  record'[n.turn]["accusation"] = "correct"
  <2>1. CASE n = a
    <3>1. a.turn \in Turns /\ record[a.turn]["accusation"] = "correct"
      BY <1>1, <2>1, AccusationWorks DEF ToldAfterResult
    <3> QED BY <2>1, <3>1, ResultStays
  <2>2. CASE a.pc \in {"record", "write"} /\ n.turn = a.turn /\ n.event = a.event /\ UNCHANGED caseVars
    BY <1>1, <2>2 DEF ToldAfterResult, caseVars
  <2>3. CASE a.pc = "commit" /\ n.turn = a.turn /\ Writes(a.turn, "accusation", "correct")
    <3>1. a.turn \in Turns
      BY <2>3, AccusationWorks
    <3> QED BY <2>3, <3>1, Written DEF FlowInv, Barriers
  <2> QED BY <1>1, <2>1, <2>2, <2>3, AccusationCases
<1>2. SolvedOn => SolvedOn'
  BY ResultStays DEF SolvedOn
<1>3. ASSUME receipt' # None, receipt'.kind = "accusation-correct" PROVE SolvedOn'
  <2>1. CASE UNCHANGED receipt
    BY <1>2, <1>3, <2>1 DEF ToldAfterResult, SolvedOn
  <2>2. CASE \E c \in {"case-progress", "accusation"} :
               worker[c].pc = "write" /\ receipt' = worker[c].event /\ UNCHANGED turnFrame
    <3>1. a.pc = "write" /\ a.event.kind = "accusation-correct"
      BY <1>3, <2>2 DEF FlowInv, EventsAreOwn
    <3>2. a.turn \in Turns /\ record[a.turn]["accusation"] = "correct"
      BY <3>1, AccusationWorks DEF ToldAfterResult
    <3> QED BY <1>2, <3>2 DEF SolvedOn
  <2> QED BY <2>1, <2>2, ReceiptStep
<1>4. ASSUME phase' = "denouement" PROVE SolvedOn'
  <2>1. CASE UNCHANGED phase
    BY <1>2, <1>4, <2>1 DEF ToldAfterResult, SolvedOn
  <2>2. CASE receipt # None /\ phase' = To(receipt.kind)
    <3>1. receipt.kind = "accusation-correct"
      BY <1>4, <2>2, Climb DEF FlowInv
    <3> QED BY <1>2, <2>2, <3>1 DEF ToldAfterResult, SolvedOn
  <2> QED BY <2>1, <2>2, PhaseStep
<1> QED BY <1>1, <1>3, <1>4 DEF ToldAfterResult, SolvedOn

LEMMA ResultsHold == Spec => [](FlowInv /\ ToldAfterResult)
<1>1. ASSUME Init PROVE FlowInv /\ ToldAfterResult
  <2>1. phase = "denouement" => "denouement" \in StartPhases
    BY <1>1 DEF Init
  <2>2. receipt # None /\ receipt.kind = "accusation-correct" => phase = "denouement"
    BY <1>1, FirstReceipt, Edges
  <2>3. worker["accusation"].pc = "idle"
    BY <1>1, AllIdle, AreConsumers
  <2> QED BY <1>1, <2>1, <2>2, <2>3, FlowInit DEF ToldAfterResult
<1>2. ASSUME FlowInv, ToldAfterResult, [Next]_vars PROVE (FlowInv /\ ToldAfterResult)'
  <2>1. CASE Next
    BY <1>2, <2>1, FlowStep, ResultStep
  <2>2. CASE UNCHANGED vars
    BY <1>2, <2>2 DEF FlowInv, Shape, Deliveries, EventsAreOwn, ToldAfterResult,
       vars, turnVars, graphVars, companionVars, streamVars
  <2> QED BY <1>2, <2>1, <2>2
<1> QED BY <1>1, <1>2, PTL DEF Spec

(* The case is solved by a result that is on its turn: neither a receipt   *)
(* another consumer replaced nor a repeated delivery solves it otherwise.  *)
THEOREM SolvedCaseHasResult == Spec => []SolvedByAResult
<1>1. ToldAfterResult => SolvedByAResult
  BY DEF ToldAfterResult, SolvedByAResult
<1> QED BY <1>1, ResultsHold, PTL

-----------------------------------------------------------------------------
(* The solution stays locked.                                              *)

(* Whatever a decision that is not refused grants, it grants a part of the *)
(* solution only when the case is solved or somebody knew it already.      *)
LEMMA PlanIsUnlocked ==
  ASSUME NEW t, NEW w, ~Denied(t), (\E k \in known : k[2] \in SolutionLocked) => phase = "denouement",
         NEW x \in Plan(t, w), x.what \in SolutionLocked
  PROVE  phase = "denouement"
<1> DEFINE d == decision[t]
<1> SUFFICES ASSUME phase # "denouement" PROVE FALSE
  OBVIOUS
<1>0. /\ d.kind # "not-applicable" /\ x \in Authorize(d, ActorOf(t), w)
      /\ ~Refuses(d, ActorOf(t), phase, known, CompanionFor(t))
  BY DEF Denied, Plan
<1> HIDE DEF d
<1>1. \A who, es, y : y \in actorEntries(who, es) => y.what \in es
  BY DEF actorEntries
<1>2. CASE d.kind \in {"observe", "investigate"}
  <2>1. ~RefusesReveal(d, phase) /\ x \in RevealEntries(d, ActorOf(t), w)
    BY <1>0, <1>2 DEF Refuses, Authorize
  <2>2. x.what \in d.reveals
    BY <1>1, <2>1 DEF RevealEntries
  <2> QED BY <2>1, <2>2 DEF RefusesReveal, Eligible, Unlocked
<1>3. CASE d.kind = "question"
  <2>1. ~RefusesQuestion(d, phase) /\ x \in QuestionEntries(d, ActorOf(t))
    BY <1>0, <1>3 DEF Refuses, Authorize
  <2>2. x.what \in d.reveals
    BY <2>1 DEF QuestionEntries
  <2> QED BY <2>1, <2>2 DEF RefusesQuestion, MayTestify, Unlocked
<1>4. CASE d.kind = "share"
  <2>1. ~RefusesShare(d, ActorOf(t), known, CompanionFor(t)) /\ x \in ShareEntries(d)
    BY <1>0, <1>4 DEF Refuses, Authorize
  <2>2. x.what \in d.reveals
    BY <1>1, <2>1 DEF ShareEntries
  <2>3. <<ActorOf(t), x.what>> \in known
    BY <2>1, <2>2 DEF RefusesShare
  <2>4. <<ActorOf(t), x.what>>[2] \in SolutionLocked
    OBVIOUS
  <2> QED BY <2>3, <2>4
<1>5. CASE d.kind \notin {"observe", "investigate", "question", "share"}
  BY <1>0, <1>5 DEF Authorize
<1> QED BY <1>2, <1>3, <1>4, <1>5

(* What the knowledge consumer's delivery may have become.                 *)
LEMMA KnowledgeCases ==
  ASSUME FlowInv, Next, worker'["knowledge"] # Idle
  PROVE  LET k == worker["knowledge"]
             n == worker'["knowledge"]
         IN \/ n = k
            \/ /\ \E w : n.seen = Plan(n.turn, w)
               /\ ~Denied(n.turn) /\ n.turn \in Turns /\ <<"knowledge", n.turn>> \in sent
               /\ UNCHANGED caseVars
            \/ k # Idle /\ n.turn = k.turn /\ n.seen = k.seen /\ UNCHANGED caseVars
<1> DEFINE k == worker["knowledge"]
           n == worker'["knowledge"]
<1>1. \A x : Becomes("knowledge", x) => n = x
  BY Becoming, AreConsumers
<1>2. \A pc, t, e, s : Becomes("knowledge", Delivery(pc, t, e, s)) => n.turn = t /\ n.seen = s
  BY <1>1, Fields
<1>3. ~Becomes("knowledge", Idle)
  BY <1>1
<1>4. \A t : <<"knowledge", t>> \in queue => <<"knowledge", t>> \in sent
  BY DEF FlowInv, Deliveries
<1>5. CASE KnowledgeMove
  <2>1. CASE /\ \E t \in Turns : \E w \in Witness(t) :
                  /\ <<"knowledge", t>> \in queue /\ ~Denied(t)
                  /\ Becomes("knowledge", Delivery("grant", t, None, Plan(t, w)))
             /\ UNCHANGED caseVars
    <3>1. PICK t \in Turns : \E w \in Witness(t) :
            <<"knowledge", t>> \in queue /\ ~Denied(t) /\ Becomes("knowledge", Delivery("grant", t, None, Plan(t, w)))
      BY <2>1
    <3>2. n.turn = t /\ \E w : n.seen = Plan(t, w)
      BY <1>2, <3>1
    <3> QED BY <1>4, <2>1, <3>1, <3>2
  <2>2. CASE k.pc = "grant" /\ GoesOn("knowledge", "reveal") /\ UNCHANGED caseVars
    <3>1. k # Idle
      BY <2>2, Fields
    <3> QED BY <1>2, <2>2, <3>1 DEF GoesOn
  <2> QED BY <1>3, <1>5, <2>1, <2>2 DEF KnowledgeMove
<1> QED BY <1>5, Moved

LEMMA UnlockStep ==
  ASSUME FlowInv, PlansAreUnlocked, Next
  PROVE  PlansAreUnlocked'
<1> DEFINE k == worker["knowledge"]
           n == worker'["knowledge"]
<1>0. phase = "denouement" => phase' = "denouement"
  BY PhaseClimbs
<1>1. ASSUME n # Idle, NEW x \in n.seen, x.what \in SolutionLocked PROVE phase' = "denouement"
  <2>1. CASE k # Idle /\ n.seen = k.seen
    BY <1>0, <1>1, <2>1 DEF PlansAreUnlocked
  <2>2. CASE \E w : n.seen = Plan(n.turn, w) /\ ~Denied(n.turn)
    BY <1>0, <1>1, <2>2, PlanIsUnlocked DEF PlansAreUnlocked
  <2> QED BY <1>1, <2>1, <2>2, KnowledgeCases
<1>2. ASSUME NEW h \in known', h[2] \in SolutionLocked PROVE phase' = "denouement"
  <2>1. CASE h \in known
    BY <1>0, <1>2, <2>1 DEF PlansAreUnlocked
  <2>2. CASE k.pc = "grant" /\ \E x \in k.seen : h = <<x.who, x.what>>
    <3>1. k # Idle
      BY <2>2, Fields
    <3> QED BY <1>0, <1>2, <2>2, <3>1 DEF PlansAreUnlocked
  <2> QED BY <1>2, <2>1, <2>2, KnownStep
<1> QED BY <1>1, <1>2 DEF PlansAreUnlocked

LEMMA VerifiedStep ==
  ASSUME FlowInv, ResultsAreVerified, Next
  PROVE  ResultsAreVerified'
<1> DEFINE a == worker["accusation"]
           n == worker'["accusation"]
<1>0. \A t \in Turns : decision[t] # None => (Right(t) => Right(t)')
  BY DecisionStays DEF Right
<1>1. ASSUME n.pc \in {"record", "write", "check"} PROVE decision'[n.turn].kind = "accuse"
  <2>1. CASE n = a
    BY <1>1, <2>1, AccusationWorks, DecisionStays DEF ResultsAreVerified
  <2>2. CASE decision[n.turn].kind = "accuse" /\ UNCHANGED caseVars
    BY <2>2 DEF caseVars
  <2>3. CASE a.pc \in {"record", "write"} /\ n.turn = a.turn /\ UNCHANGED caseVars
    BY <2>3 DEF ResultsAreVerified, caseVars
  <2>4. CASE a.pc = "commit" /\ a.seen = "correct" /\ n.turn = a.turn /\ UNCHANGED decision
    BY <2>4 DEF ResultsAreVerified, Right
  <2> QED BY <1>1, <2>1, <2>2, <2>3, <2>4, AccusationCases
<1>2. ASSUME n.pc = "commit", n.seen = "correct"
      PROVE  decision'[n.turn].kind = "accuse" /\ Verify(decision'[n.turn]) = "correct"
  <2>1. CASE n = a
    <3>1. a.turn \in Turns /\ decision'[a.turn] = decision[a.turn] /\ Right(a.turn)
      BY <1>2, <2>1, AccusationWorks, DecisionStays DEF ResultsAreVerified
    <3> QED BY <2>1, <3>1 DEF Right
  <2>2. CASE a.pc = "check" /\ n.turn = a.turn /\ n.seen = Verify(decision[a.turn]) /\ UNCHANGED caseVars
    BY <1>2, <2>2 DEF ResultsAreVerified, caseVars
  <2> QED BY <1>2, <2>1, <2>2, AccusationCases
<1>3. ASSUME NEW t \in Turns, record'[t]["accusation"] = "correct" PROVE Right(t)'
  <2>1. CASE record[t]["accusation"] = "correct"
    <3>1. decision[t] # None
      BY <2>1, DecisionStays, CaseAssumption
    <3> QED BY <1>0, <2>1, <3>1 DEF ResultsAreVerified
  <2>2. CASE a.pc = "commit" /\ a.turn = t /\ a.seen = "correct"
    BY <1>0, <2>2, AccusationWorks DEF ResultsAreVerified
  <2> QED BY <1>3, <2>1, <2>2, RecordStep DEF LandsAccusation
<1>4. ASSUME NEW t \in Turns, told'[t] # None, told'[t].solution PROVE phase' = "denouement" /\ Right(t)'
  <2>1. CASE told'[t] = told[t]
    BY <1>0, <1>4, <2>1, PhaseClimbs, DecisionStays DEF ResultsAreVerified
  <2>2. CASE Authorized(t) /\ UNCHANGED <<phase, decision>>
    BY <2>2 DEF Authorized, ResultsAreVerified, Right
  <2> QED BY <1>4, <2>1, <2>2, ToldStep
<1> QED BY <1>1, <1>2, <1>3, <1>4 DEF ResultsAreVerified, Right

(* Nobody learns a part of the solution before the case is solved, by      *)
(* revelation, testimony or sharing and however the turns interleave, and  *)
(* only a turn whose own accusation was right is narrated with it.         *)
THEOREM SolutionIsLocked == Spec => []SolutionStaysLocked
<1> DEFINE Inv == FlowInv /\ PlansAreUnlocked /\ ResultsAreVerified
<1>1. ASSUME Init PROVE Inv
  <2>1. worker["accusation"].pc = "idle" /\ worker["knowledge"] = Idle
    BY <1>1, AllIdle, AreConsumers
  <2>2. PlansAreUnlocked
    BY <1>1, <2>1, CaseAssumption DEF PlansAreUnlocked, Init
  <2>3. \A t \in Turns : told[t] = None /\ record[t]["accusation"] # "correct"
    BY <1>1, CaseAssumption DEF Init, Barriers
  <2>4. ResultsAreVerified
    BY <2>1, <2>3 DEF ResultsAreVerified
  <2> QED BY <1>1, <2>2, <2>4, FlowInit
<1>2. ASSUME Inv, [Next]_vars PROVE Inv'
  <2>1. CASE Next
    BY <1>2, <2>1, FlowStep, UnlockStep, VerifiedStep
  <2>2. CASE UNCHANGED vars
    BY <1>2, <2>2 DEF FlowInv, Shape, Deliveries, EventsAreOwn, PlansAreUnlocked, ResultsAreVerified, Right,
       vars, turnVars, graphVars, companionVars, streamVars
  <2> QED BY <1>2, <2>1, <2>2
<1>3. Inv => SolutionStaysLocked
  BY DEF PlansAreUnlocked, ResultsAreVerified, Right, SolutionStaysLocked
<1> QED BY <1>1, <1>2, <1>3, PTL DEF Spec

-----------------------------------------------------------------------------
(* A barrier passed is passed.                                             *)

(* What is authorized stays authorized while the case climbs and knowledge *)
(* grows.                                                                  *)
LEMMA AuthorizedStays ==
  ASSUME NEW d, NEW actor, NEW companion, NEW p \in Phases, NEW q \in Phases, phaseRank(p) <= phaseRank(q),
         p = "denouement" => q = "denouement", NEW kn, NEW kn2, kn \subseteq kn2,
         ~Refuses(d, actor, p, kn, companion)
  PROVE  ~Refuses(d, actor, q, kn2, companion)
<1>0. \A e : Unlocked(e, p) => Unlocked(e, q)
  BY DEF Unlocked
<1>1. ASSUME NEW e, Eligible(d, e, p) PROVE Eligible(d, e, q)
  <2>1. phaseRank(p) \in 1 .. 5 /\ phaseRank(q) \in 1 .. 5
    BY RankIsNumber
  <2>2. e \in DOMAIN Reveal /\ phaseRank(Reveal[e].phase) \in 1 .. 5
    BY <1>1, RankIsNumber, CaseAssumption DEF Eligible
  <2>3. phaseAtLeast(p, Reveal[e].phase) => phaseAtLeast(q, Reveal[e].phase)
    BY <2>1, <2>2 DEF phaseAtLeast
  <2> QED BY <1>0, <1>1, <2>3 DEF Eligible
<1>2. \A e : MayTestify(d, e, p) => MayTestify(d, e, q)
  BY <1>0 DEF MayTestify
<1>3. CASE d.kind \in {"observe", "investigate"}
  BY <1>1, <1>3 DEF Refuses, RefusesReveal
<1>4. CASE d.kind = "question"
  BY <1>2, <1>4 DEF Refuses, RefusesQuestion
<1>5. CASE d.kind = "share"
  BY <1>5 DEF Refuses, RefusesShare
<1>6. CASE d.kind \notin {"observe", "investigate", "question", "share"}
  BY <1>6 DEF Refuses
<1> QED BY <1>3, <1>4, <1>5, <1>6

LEMMA AcceptedStays ==
  ASSUME FlowInv, Next, NEW t \in Turns, decision[t] # None, ~Denied(t)
  PROVE  ~Denied(t)'
<1>1. decision'[t] = decision[t]
  BY DecisionStays
<1>2. phase \in Phases /\ phase' \in Phases
  BY FlowStep DEF FlowInv
<1>3. known \subseteq known'
  BY KnownStep
<1>4. CASE decision[t].kind = "not-applicable"
  BY <1>1, <1>4 DEF Denied
<1>5. CASE ~Refuses(decision[t], ActorOf(t), phase, known, CompanionFor(t))
  <2>1. ~Refuses(decision[t], ActorOf(t), phase', known', CompanionFor(t))
    BY <1>2, <1>3, <1>5, PhaseClimbs, AuthorizedStays
  <2> QED BY <1>1, <2>1 DEF Denied, ActorOf, CompanionFor
<1> QED BY <1>4, <1>5 DEF Denied

LEMMA AcceptedStep ==
  ASSUME FlowInv, AcceptedOnce, Next
  PROVE  AcceptedOnce'
<1> DEFINE k == worker["knowledge"]
           a == worker["accusation"]
           n == worker'["accusation"]
           late == {"accusation", "denouement"}
<1>a. \A t \in Turns, c \in Consumers : <<c, t>> \in sent => decision[t] # None
  <2> SUFFICES ASSUME NEW t \in Turns, NEW c \in Consumers, <<c, t>> \in sent PROVE decision[t] # None
    OBVIOUS
  <2>1. decision[<<c, t>>[2]] # None
    BY DEF FlowInv, Deliveries
  <2> QED BY <2>1
<1>1. ASSUME NEW t \in Turns,
             (worker'["knowledge"] # Idle /\ worker'["knowledge"].turn = t) \/ record'[t]["knowledge"] # None
      PROVE  ~Denied(t)'
  <2>1. CASE (k # Idle /\ k.turn = t) \/ record[t]["knowledge"] # None
    <3>1. decision[t] # None
      BY <1>a, <2>1, DecisionStays, AreConsumers DEF FlowInv, Deliveries
    <3> QED BY <2>1, <3>1, AcceptedStays DEF AcceptedOnce
  <2>2. CASE ~Denied(t) /\ <<"knowledge", t>> \in sent
    <3>1. decision[t] # None
      BY <1>a, <2>2, AreConsumers
    <3> QED BY <2>2, <3>1, AcceptedStays
  <2>3. CASE worker'["knowledge"] # Idle /\ worker'["knowledge"].turn = t
    BY <2>1, <2>2, <2>3, KnowledgeCases
  <2>4. CASE record'[t]["knowledge"] # record[t]["knowledge"]
    <3>1. k.pc = "reveal" /\ k.turn = t
      BY <2>4, RecordStep DEF LandsKnowledge
    <3>2. k # Idle
      BY <3>1, Fields
    <3> QED BY <2>1, <3>1, <3>2
  <2> QED BY <1>1, <2>1, <2>3, <2>4
<1>2. ASSUME worker'["case-progress"] # Idle
      PROVE  record'[worker'["case-progress"].turn]["case-progress"] = None
  <2> DEFINE p == worker["case-progress"]
             m == worker'["case-progress"]
  <2>1. \A x : Becomes("case-progress", x) => m = x
    BY Becoming, AreConsumers
  <2>2. \A pc, t, e, s : Becomes("case-progress", Delivery(pc, t, e, s)) => m.turn = t
    BY <2>1, Fields
  <2>3. CASE m = p
    <3>1. p.turn \in Turns /\ record[p.turn]["case-progress"] = None
      BY <1>2, <2>3, AreConsumers DEF AcceptedOnce, FlowInv, Deliveries
    <3>2. ~LandsProgress(p.turn)
      <4> SUFFICES ASSUME LandsProgress(p.turn) PROVE FALSE
        OBVIOUS
      <4>1. m = Idle
        BY <2>1 DEF LandsProgress
      <4> QED BY <1>2, <4>1
    <3> QED BY <2>3, <3>1, <3>2, RecordStep
  <2>4. CASE ProgressMove
    <3>1. CASE /\ UNCHANGED caseVars
               /\ \E t \in Turns : record[t]["case-progress"] = None /\ \E pc, e, s : Becomes("case-progress", Delivery(pc, t, e, s))
      BY <2>2, <3>1 DEF caseVars
    <3>2. CASE p.pc \in {"record", "write"} /\ UNCHANGED caseVars /\ \E pc : GoesOn("case-progress", pc)
      <4>1. p # Idle
        BY <3>2, Fields
      <4>2. m.turn = p.turn
        BY <2>2, <3>2 DEF GoesOn
      <4> QED BY <3>2, <4>1, <4>2 DEF AcceptedOnce, caseVars
    <3>3. ~Becomes("case-progress", Idle)
      BY <1>2, <2>1
    <3> QED BY <2>4, <3>1, <3>2, <3>3 DEF ProgressMove
  <2> QED BY <2>3, <2>4, Moved
<1>b. /\ phaseRank(phase) \in 1 .. 5 /\ phaseRank(phase') \in 1 .. 5 /\ phaseRank(phase) <= phaseRank(phase')
      /\ phase \in late => phase' \in late
  BY PhaseClimbs
<1>3. ASSUME n.pc \in {"record", "write", "check"}, n.event.kind = "accusation-submitted"
      PROVE  /\ n.seen \in Phases /\ phaseRank(n.seen) <= phaseRank(phase')
             /\ record'[n.turn]["accusation"] # None => n.seen \in late
  <2>1. CASE n = a
    <3>1. a.turn \in Turns /\ record'[a.turn]["accusation"] = record[a.turn]["accusation"]
      BY <1>3, <2>1, AccusationWorks, RecordStep DEF LandsAccusation
    <3>2. a.seen \in Phases /\ phaseRank(a.seen) <= phaseRank(phase) /\ phaseRank(a.seen) \in 1 .. 5
      BY <1>3, <2>1, RankIsNumber DEF AcceptedOnce
    <3> QED BY <1>3, <1>b, <2>1, <3>1, <3>2 DEF AcceptedOnce
  <2>2. CASE n.seen = phase /\ decision[n.turn].kind = "accuse" /\ n.turn \in Turns /\ UNCHANGED caseVars
    BY <1>b, <2>2 DEF AcceptedOnce, caseVars, FlowInv
  <2>3. CASE /\ a.pc \in {"record", "write"} /\ n.turn = a.turn /\ n.event = a.event /\ n.seen = a.seen
             /\ UNCHANGED caseVars
    BY <1>3, <2>3 DEF AcceptedOnce, caseVars
  <2> QED BY <1>3, <2>1, <2>2, <2>3, AccusationCases
<1>4. ASSUME n.pc = "commit", decision'[n.turn].kind = "accuse" PROVE phase' \in late
  <2>1. CASE n = a
    <3>1. decision'[a.turn] = decision[a.turn]
      BY <1>4, <2>1, AccusationWorks, DecisionStays
    <3> QED BY <1>4, <1>b, <2>1, <3>1 DEF AcceptedOnce
  <2>2. CASE decision[n.turn].kind # "accuse" /\ UNCHANGED caseVars
    BY <1>4, <2>2 DEF caseVars
  <2>3. CASE a.pc = "check" /\ a.seen \in late /\ UNCHANGED caseVars
    <3>1. phaseRank(a.seen) <= phaseRank(phase)
      BY <2>3 DEF AcceptedOnce, FlowInv, EventsAreOwn
    <3>2. phase \in late
      BY <2>3, <3>1, PhaseSet, Ranks DEF FlowInv
    <3> QED BY <1>b, <3>2
  <2> QED BY <1>4, <2>1, <2>2, <2>3, AccusationCases
<1>5. ASSUME NEW t \in Turns, record'[t]["accusation"] # None, decision'[t].kind = "accuse" PROVE phase' \in late
  <2>1. CASE record[t]["accusation"] # None
    BY <1>5, <1>b, <2>1, DecisionStays DEF AcceptedOnce
  <2>2. CASE a.pc = "commit" /\ a.turn = t /\ UNCHANGED decision
    BY <1>5, <1>b, <2>2 DEF AcceptedOnce
  <2> QED BY <1>5, <2>1, <2>2, RecordStep DEF LandsAccusation
<1> QED BY <1>1, <1>2, <1>3, <1>4, <1>5 DEF AcceptedOnce

LEMMA AcceptedHolds == Spec => [](FlowInv /\ AcceptedOnce)
<1>1. ASSUME Init PROVE FlowInv /\ AcceptedOnce
  <2>1. worker["accusation"].pc = "idle" /\ worker["knowledge"] = Idle /\ worker["case-progress"] = Idle
    BY <1>1, AllIdle, AreConsumers
  <2>2. \A t \in Turns, b \in Barriers : record[t][b] = None
    BY <1>1 DEF Init
  <2> QED BY <1>1, <2>1, <2>2, FlowInit DEF AcceptedOnce, Barriers
<1>2. ASSUME FlowInv, AcceptedOnce, [Next]_vars PROVE (FlowInv /\ AcceptedOnce)'
  <2>1. CASE Next
    BY <1>2, <2>1, FlowStep, AcceptedStep
  <2>2. CASE UNCHANGED vars
    BY <1>2, <2>2 DEF FlowInv, Shape, Deliveries, EventsAreOwn, AcceptedOnce, Denied, ActorOf, CompanionFor,
       vars, turnVars, graphVars, companionVars, streamVars
  <2> QED BY <1>2, <2>1, <2>2
<1> QED BY <1>1, <1>2, PTL DEF Spec

(* No late or repeated trigger of a barrier ends a turn whose decision the *)
(* barrier has accepted, for what it accepted it would accept again.       *)
THEOREM BarriersAreFinal == Spec => PassedBarrierIsFinal
<1>1. ASSUME FlowInv, AcceptedOnce, Next, NEW t \in Turns, ended[t] = None
      PROVE  /\ ended'[t] = "knowledge-unauthorized" => record[t]["knowledge"] = None
             /\ ended'[t] = "case-progress-invalid"  => record[t]["case-progress"] = None
             /\ ended'[t] = "accusation-invalid"     => record[t]["accusation"] = None
  <2>0. None \notin Endings
    BY CaseAssumption
  <2>1. CASE UNCHANGED ended
    BY <1>1, <2>0, <2>1 DEF Endings
  <2>2. CASE \E u \in Turns : EndsBy(u, "knowledge-unauthorized") /\ Denied(u)
    BY <1>1, <2>0, <2>2 DEF EndsBy, Endings, AcceptedOnce
  <2>3. CASE \E u \in Turns : EndsBy(u, "case-progress-invalid") /\ worker["case-progress"].pc = "record" /\ worker["case-progress"].turn = u
    BY <1>1, <2>0, <2>3, Fields DEF EndsBy, Endings, AcceptedOnce
  <2>4. CASE \E u \in Turns : /\ EndsBy(u, "accusation-invalid") /\ worker["accusation"].pc = "check"
                              /\ worker["accusation"].turn = u /\ worker["accusation"].seen \in {"cold-open", "discovery"}
    BY <1>1, <2>0, <2>4 DEF EndsBy, Endings, AcceptedOnce, FlowInv, EventsAreOwn
  <2>5. CASE \E u \in Turns : EndsBy(u, "complete")
    BY <1>1, <2>0, <2>5 DEF EndsBy, Endings
  <2> QED BY <1>1, <2>1, <2>2, <2>3, <2>4, <2>5, EndedStep
<1> DEFINE Kept == \A t \in Turns : ended[t] = None =>
             /\ ended'[t] = "knowledge-unauthorized" => record[t]["knowledge"] = None
             /\ ended'[t] = "case-progress-invalid"  => record[t]["case-progress"] = None
             /\ ended'[t] = "accusation-invalid"     => record[t]["accusation"] = None
<1>3. FlowInv /\ AcceptedOnce /\ [Next]_vars => [Kept]_vars
  BY <1>1
<1>4. Spec => [][Kept]_vars
  BY <1>3, AcceptedHolds, PTL DEF Spec
<1> QED BY <1>4 DEF PassedBarrierIsFinal
-----------------------------------------------------------------------------
(* Hints climb.                                                            *)

LEMMA LevelSet == Levels = {"nudge", "connect", "next-step"} /\ None \notin Levels
BY CaseAssumption DEF Levels, HintLevels

LEMMA NextLevels ==
  /\ hintRank("nudge") = 1 /\ hintRank("connect") = 2 /\ hintRank("next-step") = 3
  /\ NextHintLevel("nudge") = "connect" /\ NextHintLevel("connect") = "next-step"
  /\ NextHintLevel("next-step") = "next-step"
<1>1. \A i \in 1 .. 3 : hintRank(HintLevels[i]) = i
  <2> SUFFICES ASSUME NEW i \in 1 .. 3 PROVE hintRank(HintLevels[i]) = i
    OBVIOUS
  <2>1. i \in DOMAIN HintLevels /\ \A j \in DOMAIN HintLevels : HintLevels[j] = HintLevels[i] => j = i
    BY DEF HintLevels
  <2> HIDE DEF HintLevels
  <2> QED BY <2>1 DEF hintRank
<1>2. hintRank("nudge") = 1 /\ hintRank("connect") = 2 /\ hintRank("next-step") = 3
  BY <1>1 DEF HintLevels
<1> QED BY <1>2 DEF NextHintLevel, HintLevels

(* A finite set that has as many elements has a subset of that size.       *)
LEMMA FirstFew ==
  ASSUME NEW S, IsFiniteSet(S), NEW n \in 1 .. 3, ~(Cardinality(S) < n)
  PROVE  FirstOf(n, S) \in SUBSET S
<1>0. IsFiniteSet({}) /\ Cardinality({}) = 0
  BY FS_EmptySet
<1>1. ASSUME NEW T \in SUBSET S, Cardinality(T) < Cardinality(S), IsFiniteSet(T)
      PROVE  \E U \in SUBSET S : IsFiniteSet(U) /\ Cardinality(U) = Cardinality(T) + 1
  <2>1. T # S
    BY <1>1, FS_CardinalityType
  <2>2. PICK x \in S : x \notin T
    BY <2>1
  <2>3. IsFiniteSet(T \cup {x}) /\ Cardinality(T \cup {x}) = Cardinality(T) + 1
    BY <1>1, <2>2, FS_AddElement
  <2> QED BY <2>2, <2>3
<1>2. Cardinality(S) \in Nat
  BY FS_CardinalityType
<1>3. PICK A \in SUBSET S : IsFiniteSet(A) /\ Cardinality(A) = 1
  BY <1>0, <1>1, <1>2
<1>4. n >= 2 => \E B \in SUBSET S : IsFiniteSet(B) /\ Cardinality(B) = 2
  BY <1>1, <1>2, <1>3
<1>5. n = 3 => \E C \in SUBSET S : IsFiniteSet(C) /\ Cardinality(C) = 3
  BY <1>1, <1>2, <1>4
<1>6. \E T \in SUBSET S : Cardinality(T) = n
  BY <1>3, <1>4, <1>5
<1> QED BY <1>6 DEF FirstOf

(* A hint is of the level asked for, or silence.                           *)
LEMMA HintChosen ==
  ASSUME NEW kn, NEW c, NEW l \in Levels
  PROVE  /\ SelectHintEvidence(kn, c, CaseEvidence, l) \in Hints
         /\ SelectHintEvidence(kn, c, CaseEvidence, l).level \in {None, l}
<1> DEFINE S == {e \in CaseEvidence : <<c, e>> \in kn}
           n == HintEvidenceCount(l)
<1>1. n \in 1 .. 3
  BY LevelSet, NextLevels DEF HintEvidenceCount
<1>2. IsFiniteSet(S) /\ S \subseteq CaseEvidence
  BY CaseAssumption, FS_Subset
<1>3. ~(Cardinality(S) < n) => FirstOf(n, S) \in SUBSET CaseEvidence
  BY <1>1, <1>2, FirstFew
<1>4. SelectHintEvidence(kn, c, CaseEvidence, l) =
        IF Cardinality(S) < n THEN Silent ELSE [level |-> l, cites |-> FirstOf(n, S)]
  BY DEF SelectHintEvidence
<1> HIDE DEF S, n
<1> QED BY <1>3, <1>4 DEF Hints, Silent

LEMMA HintFacts ==
  /\ None \notin Hints /\ Silent \in Hints /\ Silent.level = None
  /\ \A x \in Hints : x.level \in Levels \cup {None}
BY CaseAssumption DEF Hints, Silent

(* What a step may do to the ladder, the claims and the companion's        *)
(* delivery, in the variables' own terms.                                  *)
Live(t) == ended[t] = None /\ staged[t] = None /\ <<"companion", t>> \in sent
Says(pc, t, e, s) == worker'["companion"] = Delivery(pc, t, e, s)
Rests == UNCHANGED companionVars /\ worker'["companion"] \in {worker["companion"], Idle}
Hushes(t) ==
  /\ Live(t) /\ ~Asked(t) /\ worker["companion"] = Idle /\ worker'["companion"] = Idle
  /\ staged' = [u \in Turns |-> IF u = t THEN Silent ELSE staged[u]] /\ UNCHANGED <<hint, claim, object>>
Resumes(t) ==
  /\ Live(t) /\ Asked(t) /\ worker["companion"] = Idle /\ object[t] /\ UNCHANGED companionVars
  /\ Says(advanceResidentHint(t), t, None, claim[t])
Chooses(t) ==
  /\ Live(t) /\ Asked(t) /\ worker["companion"] = Idle /\ UNCHANGED companionVars
  /\ Says("claim", t, None, SelectHintEvidence(known, CompanionFor(t), CaseEvidence, Rung(t)))
Held(pc, t) == worker["companion"].pc = pc /\ worker["companion"].turn = t
Claims(t) ==
  LET h == worker["companion"]
  IN /\ Held("claim", t) /\ Says("object", t, h.event, h.seen)
     /\ claim' = [u \in Turns |-> IF u = t /\ claim[t] = None THEN h.seen ELSE claim[u]]
     /\ UNCHANGED <<hint, object, staged>>
Stores(t) ==
  LET h == worker["companion"]
  IN /\ Held("object", t)
     /\ \/ worker'["companion"] = Idle
        \/ claim[t] = h.seen /\ Says(IF h.seen.level = None THEN "stage" ELSE "advance", t, h.event, h.seen)
     /\ object' = [u \in Turns |-> IF u = t THEN TRUE ELSE object[u]]
     /\ UNCHANGED <<hint, claim, staged>>
Advances(t) ==
  LET h == worker["companion"]
  IN /\ Held("advance", t) /\ Says("stage", t, h.event, h.seen)
     /\ hint' = [p \in DOMAIN Controls |-> IF p = PlayerOf[t] THEN NextHintLevel(h.seen.level) ELSE hint[p]]
     /\ UNCHANGED <<claim, object, staged>>
Stages(t) ==
  /\ Held("stage", t) /\ worker'["companion"] = Idle
  /\ staged' = [u \in Turns |-> IF u = t THEN worker["companion"].seen ELSE staged[u]]
  /\ UNCHANGED <<hint, claim, object>>
Tends(t) == Hushes(t) \/ Resumes(t) \/ Chooses(t) \/ Claims(t) \/ Stores(t) \/ Advances(t) \/ Stages(t)

(* The steps of all others leave the companion alone.                      *)
LEMMA OthersRest ==
  ASSUME FlowInv, NEW c \in Consumers \ {"companion"}
  PROVE  /\ \A t, pc, e, s : Go(c, t, pc, e, s) => UNCHANGED worker["companion"]
         /\ \A pc : Goto(c, pc) => UNCHANGED worker["companion"]
         /\ \A t : Ack(c, t) => UNCHANGED worker["companion"]
         /\ Nak(c) => UNCHANGED worker["companion"]
         /\ \A t, pc, s : Begin(c, t, pc, s) => UNCHANGED worker["companion"]
         /\ \A t, k, s : BeginEvent(c, t, k, s) => UNCHANGED worker["companion"]
         /\ \A t, reason : FailTurn(c, t, reason) => UNCHANGED worker["companion"]
         /\ AfterRecord(c) => UNCHANGED worker["companion"]
<1>1. ASSUME NEW x, worker' = [worker EXCEPT ![c] = x] PROVE UNCHANGED worker["companion"]
  BY <1>1 DEF FlowInv, Shape
<1>2. \A t, pc, e, s : Go(c, t, pc, e, s) => UNCHANGED worker["companion"]
  BY <1>1 DEF Go
<1>3. /\ \A t : Ack(c, t) => UNCHANGED worker["companion"]
      /\ Nak(c) => UNCHANGED worker["companion"]
  BY <1>1 DEF Ack, Nak
<1> QED BY <1>2, <1>3 DEF Goto, Begin, BeginEvent, FailTurn, AfterRecord

LEMMA NamedConsumers == {"knowledge", "case-progress", "accusation", "narration"} \subseteq Consumers \ {"companion"}
BY DEF Consumers, Barriers

LEMMA TurnsRest ==
  ASSUME FlowInv, NEW t \in Turns,
         \/ Interpret(t) \/ Sequence(t) \/ LoadKnowledge(t) \/ LoadProgress(t) \/ LoadAccusation(t) \/ Narrate(t)
  PROVE  Rests
<1>1. UNCHANGED companionVars
  BY DEF Interpret, Sequence, LoadKnowledge, LoadProgress, LoadAccusation, Narrate
<1>2. Interpret(t) \/ Sequence(t) => UNCHANGED worker["companion"]
  BY DEF Interpret, Sequence
<1>3. LoadKnowledge(t) \/ LoadProgress(t) \/ LoadAccusation(t) \/ Narrate(t) => UNCHANGED worker["companion"]
  BY OthersRest, NamedConsumers DEF LoadKnowledge, LoadProgress, LoadAccusation, Narrate
<1> QED BY <1>1, <1>2, <1>3 DEF Rests

LEMMA BarriersRest ==
  ASSUME FlowInv,
         \/ \E c \in {"case-progress", "accusation"} : Record(c) \/ WriteReceipt(c)
         \/ CaseRule \/ Grant \/ createOrVerify \/ LandKnowledge \/ LandProgress \/ Check \/ Commit
         \/ \E c \in Consumers, t \in Turns : Redeliver(c, t)
         \/ \E c \in Consumers : Interrupt(c)
  PROVE  Rests
<1>1. CASE \E c \in {"case-progress", "accusation"} : Record(c) \/ WriteReceipt(c)
  <2> PICK c \in {"case-progress", "accusation"} : Record(c) \/ WriteReceipt(c)
    BY <1>1
  <2>1. UNCHANGED companionVars
    BY DEF Record, WriteReceipt
  <2>2. Record(c) => UNCHANGED worker["companion"]
    BY OthersRest, NamedConsumers DEF Record
  <2>3. WriteReceipt(c) => UNCHANGED worker["companion"]
    BY OthersRest, NamedConsumers DEF WriteReceipt
  <2> QED BY <2>1, <2>2, <2>3 DEF Rests
<1>2. CASE CaseRule \/ createOrVerify \/ \E c \in Consumers, t \in Turns : Redeliver(c, t)
  BY <1>2 DEF CaseRule, createOrVerify, Redeliver, Rests
<1>3. CASE Grant \/ LandKnowledge \/ LandProgress \/ Check \/ Commit
  <2>1. UNCHANGED companionVars
    BY <1>3 DEF Grant, LandKnowledge, LandProgress, Check, Commit
  <2>2. Grant => UNCHANGED worker["companion"]
    BY OthersRest, NamedConsumers DEF Grant
  <2>3. LandKnowledge \/ LandProgress \/ Check \/ Commit => UNCHANGED worker["companion"]
    BY OthersRest, NamedConsumers DEF LandKnowledge, LandProgress, Check, Commit
  <2> QED BY <1>3, <2>1, <2>2, <2>3 DEF Rests
<1>4. CASE \E c \in Consumers : Interrupt(c)
  <2> PICK c \in Consumers : Interrupt(c)
    BY <1>4
  <2>1. UNCHANGED companionVars /\ Nak(c)
    BY DEF Interrupt
  <2>2. c = "companion" => worker'["companion"] = Idle
    BY <2>1 DEF Nak, FlowInv, Shape
  <2> QED BY <2>1, <2>2, OthersRest DEF Rests
<1> QED BY <1>1, <1>2, <1>3, <1>4

LEMMA LoadTends ==
  ASSUME FlowInv, NEW t \in Turns, LoadCompanion(t)
  PROVE  Rests \/ Tends(t)
<1> DEFINE chosen == SelectHintEvidence(known, CompanionFor(t), CaseEvidence, Rung(t))
           live == ended[t] = None /\ staged[t] = None
           asked == Asked(t)
<1>1. /\ worker["companion"] = Idle /\ <<"companion", t>> \in sent /\ UNCHANGED <<hint, claim, object>>
      /\ \/ ~live /\ Ack("companion", t) /\ UNCHANGED staged
         \/ live /\ ~asked /\ staged' = [staged EXCEPT ![t] = Silent] /\ Ack("companion", t)
         \/ live /\ asked /\ object[t] /\ Begin("companion", t, advanceResidentHint(t), claim[t]) /\ UNCHANGED staged
         \/ live /\ asked /\ ~object[t] /\ Begin("companion", t, "claim", chosen) /\ UNCHANGED staged
  BY DEF LoadCompanion, Deliver, FlowInv, Deliveries, Rung, Asked
<1>2. /\ Ack("companion", t) => worker'["companion"] = Idle
      /\ \A pc, s : Begin("companion", t, pc, s) => Says(pc, t, None, s)
  BY WorkerUpdates, Becoming, AreConsumers DEF FlowInv, Says
<1>3. staged' = [staged EXCEPT ![t] = Silent] => staged' = [u \in Turns |-> IF u = t THEN Silent ELSE staged[u]]
  BY DEF FlowInv, Shape
<1>4. live => Live(t)
  BY <1>1 DEF Live
<1>5. CASE ~live /\ Ack("companion", t) /\ UNCHANGED staged
  BY <1>1, <1>2, <1>5 DEF Rests, companionVars
<1>6. CASE live /\ ~asked /\ staged' = [staged EXCEPT ![t] = Silent] /\ Ack("companion", t)
  BY <1>1, <1>2, <1>3, <1>4, <1>6 DEF Tends, Hushes
<1>7. CASE live /\ asked /\ object[t] /\ Begin("companion", t, advanceResidentHint(t), claim[t]) /\ UNCHANGED staged
  BY <1>1, <1>2, <1>4, <1>7 DEF Tends, Resumes, companionVars
<1>8. CASE live /\ asked /\ ~object[t] /\ Begin("companion", t, "claim", chosen) /\ UNCHANGED staged
  BY <1>1, <1>2, <1>4, <1>8 DEF Tends, Chooses, companionVars
<1> QED BY <1>1, <1>5, <1>6, <1>7, <1>8

LEMMA WorkTends ==
  ASSUME FlowInv, LadderShape, ClaimExact \/ RepairObject \/ AdvanceHint \/ commitRecord
  PROVE  worker["companion"].turn \in Turns /\ Tends(worker["companion"].turn)
<1> DEFINE h == worker["companion"]
           t == h.turn
<1>0. h.pc \in {"claim", "object", "advance", "stage"}
  BY DEF ClaimExact, RepairObject, AdvanceHint, commitRecord, At
<1>1. t \in Turns /\ "companion" \in Consumers
  BY <1>0, Working, AreConsumers DEF FlowInv
<1>2. /\ \A pc : Goto("companion", pc) => Says(pc, t, h.event, h.seen)
      /\ Ack("companion", t) => worker'["companion"] = Idle
      /\ Nak("companion") => worker'["companion"] = Idle
  BY <1>1, WorkerUpdates, Becoming DEF FlowInv, Says
<1>3. CASE ClaimExact
  <2>1. /\ h.pc = "claim" /\ Goto("companion", "object") /\ UNCHANGED <<hint, object, staged>>
        /\ claim' = [claim EXCEPT ![t] = IF @ = None THEN h.seen ELSE @]
    BY <1>3 DEF ClaimExact, At, Turn
  <2>2. claim' = [u \in Turns |-> IF u = t /\ claim[t] = None THEN h.seen ELSE claim[u]]
    BY <1>1, <2>1 DEF LadderShape
  <2> QED BY <1>1, <1>2, <2>1, <2>2 DEF Tends, Claims, Held
<1>4. CASE RepairObject
  <2>1. /\ h.pc = "object" /\ object' = [object EXCEPT ![t] = TRUE] /\ UNCHANGED <<hint, claim, staged>>
        /\ IF claim[t] # h.seen THEN Nak("companion")
           ELSE Goto("companion", IF h.seen.level = None THEN "stage" ELSE "advance")
    BY <1>4 DEF RepairObject, At, Turn
  <2>2. object' = [u \in Turns |-> IF u = t THEN TRUE ELSE object[u]]
    BY <1>1, <2>1 DEF LadderShape
  <2>3. \/ worker'["companion"] = Idle
        \/ claim[t] = h.seen /\ Says(IF h.seen.level = None THEN "stage" ELSE "advance", t, h.event, h.seen)
    BY <1>2, <2>1
  <2> QED BY <1>1, <2>1, <2>2, <2>3 DEF Tends, Stores, Held
<1>5. CASE AdvanceHint
  <2>1. /\ h.pc = "advance" /\ Goto("companion", "stage") /\ UNCHANGED <<claim, object, staged>>
        /\ hint' = [hint EXCEPT ![PlayerOf[t]] = NextHintLevel(h.seen.level)]
    BY <1>5 DEF AdvanceHint, At, Turn
  <2>2. hint' = [p \in DOMAIN Controls |-> IF p = PlayerOf[t] THEN NextHintLevel(h.seen.level) ELSE hint[p]]
    BY <1>1, <2>1 DEF LadderShape
  <2> QED BY <1>1, <1>2, <2>1, <2>2 DEF Tends, Advances, Held
<1>6. CASE commitRecord
  <2>1. /\ h.pc = "stage" /\ Ack("companion", t) /\ UNCHANGED <<hint, claim, object>>
        /\ staged' = [staged EXCEPT ![t] = h.seen]
    BY <1>6 DEF commitRecord, At, Turn
  <2>2. staged' = [u \in Turns |-> IF u = t THEN h.seen ELSE staged[u]]
    BY <1>1, <2>1 DEF FlowInv, Shape
  <2> QED BY <1>1, <1>2, <2>1, <2>2 DEF Tends, Stages, Held
<1> QED BY <1>3, <1>4, <1>5, <1>6

LEMMA LadderCases ==
  ASSUME FlowInv, LadderShape, Next
  PROVE  Rests \/ \E t \in Turns : Tends(t) /\ UNCHANGED <<decision, ended, record, sent>>
<1>1. CASE \E t \in Turns : \/ Interpret(t) \/ Sequence(t) \/ LoadKnowledge(t) \/ LoadProgress(t)
                            \/ LoadAccusation(t) \/ Narrate(t)
  BY <1>1, TurnsRest
<1>2. CASE \E t \in Turns : LoadCompanion(t)
  BY <1>2, LoadTends, CompanionFrames
<1>3. CASE ClaimExact \/ RepairObject \/ AdvanceHint \/ commitRecord
  BY <1>3, WorkTends, CompanionFrames DEF turnFrame
<1> QED BY <1>1, <1>2, <1>3, NextCases, BarriersRest

LEMMA ShapeTends ==
  ASSUME FlowInv, LadderShape, Speaking, NEW t \in Turns, Tends(t)
  PROVE  LadderShape'
<1> DEFINE h == worker["companion"]
<1>1. CASE UNCHANGED <<hint, claim, object>>
  BY <1>1 DEF LadderShape
<1>2. CASE Claims(t)
  <2>1. h.seen \in Hints
    BY <1>2 DEF Claims, Held, Speaking
  <2>2. /\ claim' = [u \in Turns |-> IF u = t /\ claim[t] = None THEN h.seen ELSE claim[u]]
        /\ UNCHANGED <<hint, object>>
    BY <1>2 DEF Claims
  <2>3. claim' = [u \in Turns |-> claim'[u]]
    BY <2>2
  <2>4. \A u \in Turns : claim'[u] \in Hints \cup {None} /\ (object[u] => claim'[u] # None)
    BY <2>1, <2>2, HintFacts DEF LadderShape
  <2> QED BY <2>2, <2>3, <2>4 DEF LadderShape
<1>3. CASE Stores(t)
  <2>1. /\ claim[t] # None /\ UNCHANGED <<hint, claim>>
        /\ object' = [u \in Turns |-> IF u = t THEN TRUE ELSE object[u]]
    BY <1>3 DEF Stores, Held, Speaking
  <2> QED BY <2>1 DEF LadderShape
<1>4. CASE Advances(t)
  <2>1. /\ h.seen.level = Rung(t) /\ UNCHANGED <<claim, object>>
        /\ hint' = [p \in DOMAIN Controls |-> IF p = PlayerOf[t] THEN NextHintLevel(h.seen.level) ELSE hint[p]]
    BY <1>4 DEF Advances, Held, Speaking
  <2>2. NextHintLevel(h.seen.level) \in Levels
    BY <2>1, LevelSet, NextLevels, CaseAssumption DEF LadderShape, Rung
  <2> QED BY <2>1, <2>2 DEF LadderShape
<1> QED BY <1>1, <1>2, <1>3, <1>4 DEF Tends, Hushes, Resumes, Chooses, Stages, companionVars

LEMMA ShapeStays ==
  ASSUME FlowInv, LadderShape, Speaking, Next
  PROVE  LadderShape'
<1>1. CASE Rests
  BY <1>1 DEF Rests, companionVars, LadderShape
<1> QED BY <1>1, ShapeTends, LadderCases

(* The companion of a turn at work holds a trigger of it.                  *)
LEMMA HeldIsLive ==
  ASSUME FlowInv, StagedBeforeEnd, Speaking, NEW t \in Turns, NEW pc, pc # "idle", Held(pc, t)
  PROVE  Live(t) /\ Asked(t) /\ worker["companion"] # Idle /\ worker["companion"].seen \in Hints
<1>1. worker["companion"] # Idle /\ <<"companion", t>> \in sent
  BY Working, AreConsumers DEF Held, FlowInv
<1> QED BY <1>1 DEF Held, Live, StagedBeforeEnd, Speaking

(* What is staged stays, and so does what is claimed.                      *)
LEMMA SaidStays ==
  ASSUME FlowInv, LadderShape, StagedBeforeEnd, Speaking, Next, NEW u \in Turns
  PROVE  /\ staged[u] # None => staged'[u] = staged[u]
         /\ claim[u] # None => claim'[u] = claim[u]
<1>1. CASE Rests
  BY <1>1 DEF Rests, companionVars
<1>2. ASSUME NEW t \in Turns, Tends(t)
      PROVE  /\ staged[u] # None => staged'[u] = staged[u]
             /\ claim[u] # None => claim'[u] = claim[u]
  <2>1. CASE UNCHANGED <<claim, staged>>
    BY <2>1
  <2>2. CASE Hushes(t)
    BY <2>2 DEF Hushes, Live
  <2>3. CASE Claims(t)
    BY <2>3 DEF Claims
  <2>4. CASE Stages(t)
    BY <2>4, HeldIsLive DEF Stages, Live
  <2> QED BY <1>2, <2>1, <2>2, <2>3, <2>4 DEF Tends, Resumes, Chooses, Stores, Advances, companionVars
<1> QED BY <1>1, <1>2, LadderCases

(* A player's next turn is interpreted when the last has ended.            *)
LEMMA OneAtATimeStep ==
  ASSUME FlowInv, OneAtATime, Next
  PROVE  OneAtATime'
<1>1. \A t \in Turns : ended[t] # None => ended'[t] # None
  BY EndedStep, CaseAssumption DEF EndsBy
<1>2. CASE UNCHANGED decision
  BY <1>1, <1>2 DEF OneAtATime
<1>3. ASSUME NEW v \in Turns, Interpret(v)
      PROVE  OneAtATime'
  <2>1. /\ UNCHANGED ended /\ decision' = [decision EXCEPT ![v] = decision'[v]]
        /\ \A u \in Turns : PlayerOf[u] = PlayerOf[v] /\ decision[u] # None => ended[u] # None
    BY <1>3 DEF Interpret, FlowInv, Shape
  <2>2. \A u \in Turns : u # v => decision'[u] = decision[u]
    BY <2>1 DEF FlowInv, Shape
  <2> QED BY <2>1, <2>2 DEF OneAtATime
<1>4. UNCHANGED decision \/ \E v \in Turns : Interpret(v)
  BY NextCases, TurnFrames, BarrierFrames, CompanionFrames DEF turnFrame
<1> QED BY <1>2, <1>3, <1>4

(* A turn past its barriers ends only by narration, when its companion     *)
(* stage record stands.                                                    *)
LEMMA EndsLate ==
  ASSUME FlowInv, AcceptedOnce, Opened, Next, NEW t \in Turns, <<"companion", t>> \in sent,
         ended[t] = None, ended'[t] # None
  PROVE  staged[t] # None
<1>0. ~Denied(t) /\ record[t]["case-progress"] # None /\ record[t]["accusation"] # None
  BY DEF Opened
<1>1. CASE \E u \in Turns : EndsBy(u, "knowledge-unauthorized") /\ Denied(u)
  BY <1>0, <1>1 DEF EndsBy
<1>2. CASE \E u \in Turns : EndsBy(u, "case-progress-invalid") /\ worker["case-progress"].pc = "record" /\ worker["case-progress"].turn = u
  BY <1>0, <1>2, Fields DEF EndsBy, AcceptedOnce
<1>3. CASE \E u \in Turns : /\ EndsBy(u, "accusation-invalid") /\ worker["accusation"].pc = "check"
                            /\ worker["accusation"].turn = u /\ worker["accusation"].seen \in {"cold-open", "discovery"}
  BY <1>0, <1>3 DEF EndsBy, AcceptedOnce, FlowInv, EventsAreOwn
<1>4. CASE \E u \in Turns : EndsBy(u, "complete") /\ <<"narration", u>> \in sent
  BY <1>4 DEF EndsBy, Opened
<1> QED BY <1>1, <1>2, <1>3, <1>4, EndedStep

(* The rules publish a trigger when the record holds what it asks for.     *)
LEMMA OpensStep ==
  ASSUME FlowInv, Next, NEW t \in Turns
  PROVE  /\ <<"companion", t>> \in sent' \ sent =>
              (\A b \in Barriers : record[t][b] # None) /\ UNCHANGED <<phase, known, decision, record>>
         /\ <<"narration", t>> \in sent' \ sent => staged[t] # None
<1>1. ASSUME NEW v \in Turns, Interpret(v)
      PROVE  <<"companion", t>> \notin sent' \ sent /\ <<"narration", t>> \notin sent' \ sent
  BY <1>1 DEF Interpret, Publish
<1>2. ASSUME NEW v \in Turns, Sequence(v)
      PROVE  /\ <<"companion", t>> \in sent' \ sent =>
                  (\A b \in Barriers : record[t][b] # None) /\ UNCHANGED <<phase, known, decision, record>>
             /\ <<"narration", t>> \in sent' \ sent => staged[t] # None
  <2> DEFINE open == {<<"case-progress", v>> : x \in {y \in {1} : record[v]["knowledge"] # None}}
                       \cup {<<"companion", v>> : x \in {y \in {1} : \A b \in Barriers : record[v][b] # None}}
                       \cup {<<"narration", v>> : x \in {y \in {1} : staged[v] # None}}
  <2>1. sent' = sent \cup open /\ UNCHANGED <<phase, known, decision, record>>
    BY <1>2, TurnFrames DEF Sequence, Publish, turnFrame
  <2>2. <<"companion", t>> \in open => t = v /\ \A b \in Barriers : record[v][b] # None
    OBVIOUS
  <2>3. <<"narration", t>> \in open => t = v /\ staged[v] # None
    OBVIOUS
  <2> HIDE DEF open
  <2> QED BY <2>1, <2>2, <2>3
<1>3. UNCHANGED sent \/ \E v \in Turns : Interpret(v) \/ Sequence(v)
  BY NextCases, TurnFrames, BarrierFrames, CompanionFrames
<1> QED BY <1>1, <1>2, <1>3

LEMMA OpenedStep ==
  ASSUME FlowInv, AcceptedOnce, LadderInv, Next
  PROVE  Opened'
<1> SUFFICES ASSUME NEW t \in Turns
             PROVE  /\ <<"companion", t>> \in sent' =>
                         ~Denied(t)' /\ record'[t]["case-progress"] # None /\ record'[t]["accusation"] # None
                    /\ <<"narration", t>> \in sent' => staged'[t] # None
  BY DEF Opened
<1>1. ASSUME <<"companion", t>> \in sent
      PROVE  ~Denied(t)' /\ record'[t]["case-progress"] # None /\ record'[t]["accusation"] # None
  <2>1. ~Denied(t) /\ record[t]["case-progress"] # None /\ record[t]["accusation"] # None
    BY <1>1 DEF LadderInv, Opened
  <2>2. decision[<<"companion", t>>[2]] # None
    BY <1>1 DEF FlowInv, Deliveries
  <2>3. ~Denied(t)'
    BY <2>1, <2>2, AcceptedStays
  <2>4. ~LandsProgress(t)
    BY <2>1, Fields DEF LandsProgress, AcceptedOnce
  <2>5. record'[t]["case-progress"] # None
    BY <2>1, <2>4, RecordStep
  <2>6. record'[t]["accusation"] # None
    BY <2>1, RecordStep DEF LandsAccusation
  <2> QED BY <2>3, <2>5, <2>6
<1>2. ASSUME <<"companion", t>> \in sent' \ sent
      PROVE  ~Denied(t)' /\ record'[t]["case-progress"] # None /\ record'[t]["accusation"] # None
  <2>1. (\A b \in Barriers : record[t][b] # None) /\ UNCHANGED <<phase, known, decision, record>>
    BY <1>2, OpensStep
  <2>2. ~Denied(t)
    BY <2>1 DEF AcceptedOnce, Barriers
  <2>3. ~Denied(t)'
    BY <2>1, <2>2 DEF Denied, ActorOf, CompanionFor
  <2> QED BY <2>1, <2>3 DEF Barriers
<1>3. <<"narration", t>> \in sent' => staged[t] # None
  BY OpensStep DEF LadderInv, Opened
<1>4. staged[t] # None => staged'[t] # None
  BY SaidStays DEF LadderInv
<1> QED BY <1>1, <1>2, <1>3, <1>4

(* A live turn whose companion stage is open, and has no record, stays so  *)
(* in every step of the others.                                            *)
LEMMA LiveStays ==
  ASSUME FlowInv, AcceptedOnce, LadderInv, Next, NEW t \in Turns, Live(t)
  PROVE  ended'[t] = None
BY EndsLate DEF Live, LadderInv

LEMMA AskedStays ==
  ASSUME FlowInv, Next, NEW t \in Turns, decision[t] # None, Asked(t)
  PROVE  Asked(t)'
<1>1. decision'[t] = decision[t]
  BY DecisionStays
<1> QED BY <1>1 DEF Asked, SelectTrigger, ActiveBond, CompanionFor

LEMMA SentIsDecided ==
  ASSUME FlowInv, NEW t \in Turns, NEW c, <<c, t>> \in sent
  PROVE  decision[t] # None
<1>1. decision[<<c, t>>[2]] # None
  BY DEF FlowInv, Deliveries
<1> QED BY <1>1

LEMMA StagedBeforeEndStep ==
  ASSUME FlowInv, AcceptedOnce, LadderInv, Next
  PROVE  StagedBeforeEnd'
<1> USE DEF LadderInv
<1> DEFINE h == worker["companion"]
           g == worker'["companion"]
<1>0. sent \subseteq sent'
  BY StreamStep
<1>1. ASSUME NEW u \in Turns, claim'[u] # None
      PROVE  <<"companion", u>> \in sent' /\ Asked(u)' /\ (ended'[u] # None => staged'[u] # None)
  <2>1. CASE claim[u] # None
    <3>1. <<"companion", u>> \in sent /\ Asked(u) /\ (ended[u] # None => staged[u] # None)
      BY <2>1 DEF StagedBeforeEnd
    <3>2. ended'[u] # None => staged[u] # None
      BY <3>1, EndsLate
    <3> QED BY <1>0, <3>1, <3>2, SentIsDecided, AskedStays, SaidStays
  <2>2. CASE claim[u] = None
    <3>1. ~Rests
      BY <1>1, <2>2 DEF Rests, companionVars
    <3>2. PICK t \in Turns : Tends(t) /\ UNCHANGED <<decision, ended, record, sent>>
      BY <3>1, LadderCases
    <3>3. Claims(t) /\ u = t
      BY <1>1, <2>2, <3>2 DEF Tends, Hushes, Resumes, Chooses, Claims, Stores, Advances, Stages, companionVars
    <3>4. Live(u) /\ Asked(u)
      BY <3>3, HeldIsLive DEF Claims
    <3> QED BY <3>2, <3>4, SentIsDecided, AskedStays DEF Live
  <2> QED BY <2>1, <2>2
<1>2. ASSUME NEW u \in Turns, staged'[u] # None, staged'[u].level # None
      PROVE  claim'[u] = staged'[u]
  <2>1. CASE staged[u] # None
    <3>1. staged'[u] = staged[u] /\ claim[u] = staged[u]
      BY <1>2, <2>1, SaidStays DEF StagedBeforeEnd
    <3> QED BY <2>1, <3>1, SaidStays
  <2>2. CASE staged[u] = None
    <3>1. ~Rests
      BY <1>2, <2>2 DEF Rests, companionVars
    <3>2. PICK t \in Turns : Tends(t)
      BY <3>1, LadderCases
    <3>3. u = t /\ (Hushes(t) \/ Stages(t))
      BY <1>2, <2>2, <3>2 DEF Tends, Hushes, Resumes, Chooses, Claims, Stores, Advances, Stages, companionVars
    <3>4. ~Hushes(t)
      BY <1>2, <3>3, HintFacts DEF Hushes
    <3>5. staged'[u] = h.seen /\ h.seen = claim[u] /\ UNCHANGED claim
      BY <3>3, <3>4 DEF Stages, Held, Speaking
    <3> QED BY <3>5
  <2> QED BY <2>1, <2>2
<1>3. ASSUME g # Idle
      PROVE  \E t \in Turns : g.turn = t /\ Asked(t)' /\ ended'[t] = None /\ staged'[t] = None
  <2>1. CASE Rests
    <3>1. g = h /\ UNCHANGED staged
      BY <1>3, <2>1 DEF Rests, companionVars
    <3>2. h.turn \in Turns /\ <<"companion", h.turn>> \in sent
      BY <1>3, <3>1, AreConsumers DEF FlowInv, Deliveries
    <3>3. PICK t \in Turns : h.turn = t
      BY <3>2
    <3>4. Live(t) /\ Asked(t)
      BY <1>3, <3>1, <3>2, <3>3 DEF StagedBeforeEnd, Live
    <3>5. Asked(t)'
      BY <3>4, SentIsDecided, AskedStays DEF Live
    <3> QED BY <3>1, <3>3, <3>4, <3>5, LiveStays DEF Live
  <2>2. ASSUME NEW t \in Turns, Tends(t), UNCHANGED <<decision, ended, record, sent>>
        PROVE  g.turn = t /\ Asked(t)' /\ ended'[t] = None /\ staged'[t] = None
    <3>1. ~Hushes(t) /\ ~Stages(t)
      BY <1>3 DEF Hushes, Stages
    <3>2. UNCHANGED staged /\ \E pc, e, s : Says(pc, t, e, s)
      BY <1>3, <2>2, <3>1 DEF Tends, Resumes, Chooses, Claims, Stores, Advances, companionVars
    <3>3. g.turn = t
      BY <3>2, Fields DEF Says
    <3>4. Live(t) /\ Asked(t)
      BY <2>2, <3>1, HeldIsLive DEF Tends, Resumes, Chooses, Claims, Stores, Advances
    <3>5. Asked(t)'
      BY <3>4, SentIsDecided, AskedStays DEF Live
    <3> QED BY <2>2, <3>2, <3>3, <3>4, <3>5 DEF Live
  <2> QED BY <2>1, <2>2, LadderCases
<1>4. g # Idle => (LET t == worker["companion"].turn IN Asked(t) /\ ended[t] = None /\ staged[t] = None)'
  BY <1>3 DEF Asked, SelectTrigger, ActiveBond, CompanionFor
<1> QED BY <1>1, <1>2, <1>4 DEF StagedBeforeEnd

(* Another turn of the player that claimed a hint has ended, and left its  *)
(* rung.                                                                   *)
LEMMA OthersAreStaged ==
  ASSUME FlowInv, LadderInv, NEW t \in Turns, Live(t), NEW u \in Turns, u # t, PlayerOf[u] = PlayerOf[t],
         claim[u] # None
  PROVE  /\ staged[u] # None
         /\ claim[u].level # None => Rung(t) \in Above(claim[u].level)
<1>1. decision[t] # None /\ decision[u] # None
  BY SentIsDecided DEF LadderInv, StagedBeforeEnd, Live
<1>2. staged[u] # None
  BY <1>1 DEF LadderInv, OneAtATime, StagedBeforeEnd, Live
<1> QED BY <1>2 DEF LadderInv, ClaimsClimb, Rung

LEMMA ClaimsClimbTends ==
  ASSUME FlowInv, LadderInv, NEW t \in Turns, Tends(t)
  PROVE  ClaimsClimb'
<1> USE DEF LadderInv
<1> DEFINE h == worker["companion"]
<1>0. /\ \A u \in Turns : claim[u] # None => claim[u].level \in Levels \cup {None}
      /\ \A u \in Turns : Rung(u) \in Levels
  BY HintFacts, CaseAssumption DEF LadderShape, Rung
<1>1. CASE UNCHANGED <<hint, claim, staged>>
  BY <1>1 DEF ClaimsClimb, Rung
<1>2. CASE Hushes(t)
  <2>1. claim[t] = None
    BY <1>2 DEF Hushes, StagedBeforeEnd
  <2>2. /\ UNCHANGED <<hint, claim>> /\ \A u \in Turns : u # t => staged'[u] = staged[u]
    BY <1>2 DEF Hushes
  <2> QED BY <2>1, <2>2 DEF ClaimsClimb, Rung
<1>3. CASE Claims(t)
  <2>1. Live(t) /\ h.seen \in Hints /\ h.seen.level \in {None, Rung(t)}
    BY <1>3, HeldIsLive DEF Claims, Held, Speaking
  <2>2. /\ UNCHANGED <<hint, staged>> /\ \A u \in Turns : u # t \/ claim[t] # None => claim'[u] = claim[u]
        /\ claim[t] = None => claim'[t] = h.seen
    BY <1>3 DEF Claims
  <2>3. CASE claim[t] # None
    BY <2>2, <2>3 DEF ClaimsClimb, Rung
  <2>4. CASE claim[t] = None
    <3>1. ASSUME NEW u \in Turns, u # t, PlayerOf[u] = PlayerOf[t], claim[u] # None, claim[u].level = h.seen.level
          PROVE  h.seen.level \in {None, "next-step"}
      <4>1. claim[u].level # None => Rung(t) \in Above(claim[u].level)
        BY <2>1, <3>1, OthersAreStaged
      <4> QED BY <1>0, <2>1, <3>1, <4>1, LevelSet DEF Above
    <3>2. \A u \in Turns : claim'[u] # None /\ claim'[u].level # None =>
            IF staged'[u] = None THEN Rung(u)' \in {claim'[u].level, NextHintLevel(claim'[u].level)}
            ELSE Rung(u)' \in Above(claim'[u].level)
      BY <2>1, <2>2, <2>4 DEF ClaimsClimb, Rung, Live
    <3>3. \A v, u \in Turns :
            v # u /\ PlayerOf[v] = PlayerOf[u] /\ claim'[v] # None /\ claim'[u] # None /\ claim'[v].level = claim'[u].level
              => claim'[v].level \in {None, "next-step"}
      BY <2>2, <2>4, <3>1 DEF ClaimsClimb
    <3> QED BY <3>2, <3>3 DEF ClaimsClimb
  <2> QED BY <2>3, <2>4
<1>4. CASE Advances(t)
  <2>1. Live(t) /\ h.seen = claim[t] /\ h.seen.level = Rung(t) /\ h.seen \in Hints
    BY <1>4, HeldIsLive DEF Advances, Held, Speaking
  <2>2. /\ UNCHANGED <<claim, staged>>
        /\ \A u \in Turns : Rung(u)' = IF PlayerOf[u] = PlayerOf[t] THEN NextHintLevel(Rung(t)) ELSE Rung(u)
    BY <1>4, <2>1, CaseAssumption DEF Advances, Rung
  <2>3. ASSUME NEW u \in Turns, claim[u] # None, claim[u].level # None
        PROVE  IF staged[u] = None THEN Rung(u)' \in {claim[u].level, NextHintLevel(claim[u].level)}
               ELSE Rung(u)' \in Above(claim[u].level)
    <3>1. CASE PlayerOf[u] # PlayerOf[t]
      BY <2>2, <2>3, <3>1 DEF ClaimsClimb
    <3>2. CASE u = t
      BY <2>1, <2>2, <3>2 DEF Live
    <3>3. CASE u # t /\ PlayerOf[u] = PlayerOf[t]
      <4>1. staged[u] # None /\ Rung(t) \in Above(claim[u].level)
        BY <2>1, <2>3, <3>3, OthersAreStaged
      <4>2. NextHintLevel(Rung(t)) \in Above(claim[u].level)
        BY <4>1, NextLevels DEF Above
      <4> QED BY <2>2, <3>3, <4>1, <4>2
    <3> QED BY <3>1, <3>2, <3>3
  <2> QED BY <2>2, <2>3 DEF ClaimsClimb
<1>5. CASE Stages(t)
  <2>1. /\ h.seen = claim[t] /\ h.seen \in Hints
        /\ h.seen.level # None => Rung(t) = NextHintLevel(h.seen.level)
    BY <1>5, HeldIsLive DEF Stages, Held, Speaking
  <2>2. UNCHANGED <<hint, claim>> /\ \A u \in Turns : u # t => staged'[u] = staged[u]
    BY <1>5 DEF Stages
  <2>3. h.seen.level # None => Rung(t) \in Above(h.seen.level) \cap {NextHintLevel(h.seen.level)}
    BY <2>1, HintFacts, LevelSet, NextLevels DEF Above
  <2>4. \A u \in Turns : claim[u] # None /\ claim[u].level # None =>
          IF staged'[u] = None THEN Rung(u) \in {claim[u].level, NextHintLevel(claim[u].level)}
          ELSE Rung(u) \in Above(claim[u].level)
    BY <2>1, <2>2, <2>3 DEF ClaimsClimb
  <2> QED BY <2>2, <2>4 DEF ClaimsClimb, Rung
<1> QED BY <1>1, <1>2, <1>3, <1>4, <1>5 DEF Tends, Resumes, Chooses, Stores, companionVars

LEMMA SpeakingTends ==
  ASSUME FlowInv, LadderInv, NEW t \in Turns, Tends(t)
  PROVE  Speaking'
<1> USE DEF LadderInv
<1> DEFINE h == worker["companion"]
           g == worker'["companion"]
<1>0. \A pc, e, s : Says(pc, t, e, s) => g.pc = pc /\ g.turn = t /\ g.seen = s
  BY Fields DEF Says
<1>1. CASE g = Idle
  BY <1>1, Fields DEF Speaking
<1>2. CASE Resumes(t)
  <2>1. /\ claim[t] \in Hints /\ staged[t] = None /\ claim[t] # None /\ UNCHANGED <<hint, claim>>
        /\ g.pc = advanceResidentHint(t) /\ g.turn = t /\ g.seen = claim[t]
    BY <1>0, <1>2 DEF Resumes, Live, LadderShape, companionVars
  <2>2. g.pc = IF claim[t].level # None /\ Rung(t) # NextHintLevel(claim[t].level) THEN "advance" ELSE "stage"
    BY <2>1 DEF advanceResidentHint, Rung
  <2>3. claim[t].level # None => Rung(t) \in {claim[t].level, NextHintLevel(claim[t].level)}
    BY <2>1 DEF ClaimsClimb
  <2> QED BY <2>1, <2>2, <2>3 DEF Speaking, Rung
<1>3. CASE Chooses(t)
  <2>1. Rung(t) \in Levels
    BY CaseAssumption DEF LadderShape, Rung
  <2>2. g.pc = "claim" /\ g.turn = t /\ g.seen \in Hints /\ g.seen.level \in {None, Rung(t)} /\ UNCHANGED <<hint, claim>>
    BY <1>0, <1>3, <2>1, HintChosen DEF Chooses, companionVars
  <2> QED BY <2>2 DEF Speaking, Rung
<1>4. CASE Claims(t)
  <2>1. h.seen \in Hints /\ h.seen.level \in {None, Rung(t)}
    BY <1>4, HeldIsLive DEF Claims, Held, Speaking
  <2>2. claim'[t] # None
    BY <1>4, <2>1, HintFacts DEF Claims
  <2>3. g.pc = "object" /\ g.turn = t /\ g.seen = h.seen /\ UNCHANGED hint
    BY <1>0, <1>4 DEF Claims
  <2> QED BY <2>1, <2>2, <2>3 DEF Speaking, Rung
<1>5. CASE Stores(t) /\ g # Idle
  <2>1. h.seen \in Hints /\ h.seen.level \in {None, Rung(t)} /\ claim[t] = h.seen /\ UNCHANGED <<hint, claim>>
    BY <1>5, HeldIsLive DEF Stores, Held, Speaking
  <2>2. g.pc = (IF h.seen.level = None THEN "stage" ELSE "advance") /\ g.turn = t /\ g.seen = h.seen
    BY <1>0, <1>5 DEF Stores
  <2> QED BY <2>1, <2>2 DEF Speaking, Rung
<1>6. CASE Advances(t)
  <2>1. h.seen \in Hints /\ h.seen = claim[t] /\ UNCHANGED claim
    BY <1>6, HeldIsLive DEF Advances, Held, Speaking
  <2>2. hint'[PlayerOf[t]] = NextHintLevel(h.seen.level)
    BY <1>6, CaseAssumption DEF Advances
  <2>3. g.pc = "stage" /\ g.turn = t /\ g.seen = h.seen
    BY <1>0, <1>6 DEF Advances
  <2> QED BY <2>1, <2>2, <2>3 DEF Speaking, Rung
<1> QED BY <1>1, <1>2, <1>3, <1>4, <1>5, <1>6 DEF Tends, Hushes, Stages

LEMMA LadderStep ==
  ASSUME FlowInv, AcceptedOnce, LadderInv, Next
  PROVE  LadderInv'
<1>1. LadderShape' /\ OneAtATime' /\ Opened' /\ StagedBeforeEnd'
  BY ShapeStays, OneAtATimeStep, OpenedStep, StagedBeforeEndStep DEF LadderInv
<1>2. CASE Rests
  <2>1. ClaimsClimb'
    BY <1>2 DEF Rests, companionVars, LadderInv, ClaimsClimb, Rung
  <2>2. CASE worker'["companion"] = Idle
    BY <1>1, <2>1, <2>2, Fields DEF LadderInv, Speaking
  <2>3. CASE worker'["companion"] = worker["companion"]
    BY <1>1, <1>2, <2>1, <2>3 DEF Rests, companionVars, LadderInv, Speaking, Rung
  <2> QED BY <1>2, <2>2, <2>3 DEF Rests
<1>3. CASE \E t \in Turns : Tends(t)
  BY <1>1, <1>3, ClaimsClimbTends, SpeakingTends DEF LadderInv
<1> QED BY <1>2, <1>3, LadderCases DEF LadderInv

LEMMA LadderInit == Init => LadderInv
<1> SUFFICES ASSUME Init PROVE LadderInv
  OBVIOUS
<1>1. worker["companion"] = Idle /\ worker["companion"].pc = "idle"
  BY AllIdle, AreConsumers
<1>2. /\ hint = [p \in DOMAIN Controls |-> "nudge"] /\ claim = [t \in Turns |-> None]
      /\ object = [t \in Turns |-> FALSE] /\ staged = [t \in Turns |-> None]
      /\ decision = [t \in Turns |-> None] /\ sent = {}
  BY DEF Init, HintLevels
<1> QED BY <1>1, <1>2, LevelSet
        DEF LadderInv, LadderShape, OneAtATime, Opened, StagedBeforeEnd, ClaimsClimb, Speaking

LEMMA LadderHolds == Spec => [](FlowInv /\ AcceptedOnce /\ LadderInv)
<1>1. ASSUME FlowInv, LadderInv, UNCHANGED vars PROVE LadderInv'
  <2>1. UNCHANGED <<phase, decision, ended, known, record, hint, claim, object, staged, sent, worker>>
    BY <1>1 DEF vars, turnVars, graphVars, companionVars, streamVars
  <2>2. LadderShape' /\ OneAtATime' /\ ClaimsClimb' /\ Speaking'
    BY <1>1, <2>1 DEF LadderInv, LadderShape, OneAtATime, ClaimsClimb, Speaking, Rung
  <2>3. Opened' /\ StagedBeforeEnd'
    BY <1>1, <2>1 DEF LadderInv, Opened, StagedBeforeEnd, Denied, ActorOf, CompanionFor, Asked, SelectTrigger, ActiveBond
  <2> QED BY <2>2, <2>3 DEF LadderInv
<1>2. FlowInv /\ AcceptedOnce /\ LadderInv /\ [Next]_vars => LadderInv'
  BY <1>1, LadderStep
<1> QED BY <1>2, LadderInit, AcceptedHolds, PTL DEF Spec

(* A player hears each rung of the hint ladder once, the top excepted, and *)
(* a companion about to advance the ladder finds it where it claimed its   *)
(* hint: whatever deliveries are interrupted between claim, object, bond   *)
(* and stage record, and whatever the other turns do meanwhile.            *)
THEOREM HintsClimbOnce == Spec => []HintsClimb
<1>1. ASSUME FlowInv, LadderInv PROVE HintsClimb
  <2>1. ASSUME NEW t \in Turns, NEW u \in Turns, t # u, PlayerOf[t] = PlayerOf[u], staged[t] # None, staged[u] # None,
               staged[t].level = staged[u].level, staged[t].level # None
        PROVE  staged[t].level = "next-step"
    <3>1. claim[t] = staged[t] /\ claim[u] = staged[u]
      BY <1>1, <2>1 DEF LadderInv, StagedBeforeEnd
    <3> QED BY <1>1, <2>1, <3>1 DEF LadderInv, ClaimsClimb
  <2>2. At("companion", "advance") => hint[PlayerOf[Turn("companion")]] = worker["companion"].seen.level
    BY <1>1 DEF LadderInv, Speaking, Rung, At, Turn
  <2> QED BY <2>1, <2>2 DEF HintsClimb
<1> QED BY <1>1, LadderHolds, PTL

-----------------------------------------------------------------------------
(* Types, and the refusals that never come.                                *)

LEMMA ResultsDeterminedStep ==
  ASSUME FlowInv, ResultsAreDetermined, Next
  PROVE  ResultsAreDetermined'
<1> DEFINE a == worker["accusation"]
           n == worker'["accusation"]
<1>0. \A t \in Turns : decision[t] # None => decision'[t] = decision[t] /\ Result(t)' = Result(t)
  BY DecisionStays DEF Result
<1>1. ASSUME n.pc # "idle"
      PROVE  /\ n.pc \in {"record", "write", "check"} => decision'[n.turn].kind = "accuse"
             /\ n.pc = "commit" => \E t \in Turns : n.turn = t /\ n.seen = Result(t)'
  <2>1. CASE n = a
    <3>1. a.turn \in Turns /\ decision[a.turn] # None
      BY <1>1, <2>1, AccusationWorks
    <3> QED BY <1>0, <2>1, <3>1 DEF ResultsAreDetermined
  <2>2. CASE n.pc = "record" /\ decision[n.turn].kind = "accuse" /\ UNCHANGED caseVars
    BY <2>2 DEF caseVars
  <2>3. CASE n.pc = "commit" /\ n.seen = "none" /\ decision[n.turn].kind # "accuse" /\ n.turn \in Turns /\ UNCHANGED caseVars
    BY <2>3 DEF caseVars, Result
  <2>4. CASE a.pc \in {"record", "write"} /\ n.pc \in {"write", "check"} /\ n.turn = a.turn /\ UNCHANGED caseVars
    BY <2>4 DEF caseVars, ResultsAreDetermined
  <2>5. CASE a.pc = "check" /\ n.pc = "commit" /\ n.turn = a.turn /\ n.seen = Verify(decision[a.turn]) /\ UNCHANGED caseVars
    <3>1. a.turn \in Turns /\ decision[a.turn].kind = "accuse"
      BY <2>5, AccusationWorks DEF ResultsAreDetermined
    <3> QED BY <2>5, <3>1 DEF caseVars, Result
  <2>6. CASE a.pc = "commit" /\ a.seen = "correct" /\ n.pc = "record" /\ n.turn = a.turn /\ UNCHANGED decision
    BY <2>6 DEF ResultsAreDetermined, Result
  <2> QED BY <1>1, <2>1, <2>2, <2>3, <2>4, <2>5, <2>6, AccusationCases
<1>2. ASSUME NEW t \in Turns PROVE record'[t]["accusation"] \in {None, Result(t)'}
  <2>1. CASE record'[t]["accusation"] = record[t]["accusation"]
    BY <1>0, <2>1, DecisionStays DEF ResultsAreDetermined
  <2>2. CASE LandsAccusation(t) /\ UNCHANGED decision
    BY <2>2 DEF LandsAccusation, ResultsAreDetermined, Result
  <2> QED BY <2>1, <2>2, RecordStep
<1>3. n.pc = "commit" => n.seen = Result(worker["accusation"].turn)'
  BY <1>1 DEF Result
<1> QED BY <1>1, <1>2, <1>3 DEF ResultsAreDetermined

LEMMA ValuesStep ==
  ASSUME FlowInv, LadderInv, ValuesAreKnown, Next
  PROVE  ValuesAreKnown'
<1> SUFFICES ASSUME NEW t \in Turns
             PROVE  /\ ended'[t] \in Endings \cup {None} /\ staged'[t] \in Hints \cup {None}
                    /\ record'[t]["case-progress"] \in {None, "none"} \cup Events
  BY DEF ValuesAreKnown
<1>1. ended'[t] \in Endings \cup {None}
  BY EndedStep DEF EndsBy, ValuesAreKnown, Endings
<1>2. staged'[t] \in Hints \cup {None}
  <2>1. CASE UNCHANGED staged
    BY <2>1 DEF ValuesAreKnown
  <2>2. ASSUME NEW u \in Turns, Hushes(u) PROVE staged'[t] \in Hints \cup {None}
    BY <2>2, HintFacts DEF Hushes, ValuesAreKnown
  <2>3. ASSUME NEW u \in Turns, Stages(u) PROVE staged'[t] \in Hints \cup {None}
    BY <2>3, HeldIsLive DEF Stages, ValuesAreKnown, LadderInv
  <2> QED BY <2>1, <2>2, <2>3, LadderCases
          DEF LadderInv, Rests, Tends, Resumes, Chooses, Claims, Stores, Advances, companionVars
<1>3. record'[t]["case-progress"] \in {None, "none"} \cup Events
  <2>1. ProgressRecord(t) \in {None, "none"} \cup Events
    BY DEF ProgressRecord, derive, Events
  <2> QED BY <2>1, RecordStep DEF LandsProgress, ValuesAreKnown
<1> QED BY <1>1, <1>2, <1>3

(* Only the consumer that is done with a delivery acknowledges it.         *)
Acked == \A c \in Consumers, t \in Turns : <<c, t>> \in queue \ queue' => worker'[c] = Idle
LEMMA AckedOnly ==
  ASSUME FlowInv, Next
  PROVE  Acked
<1>1. ASSUME NEW c \in Consumers
      PROVE  /\ \A t : Ack(c, t) => Acked
             /\ Nak(c) => Acked
             /\ \A t, reason : FailTurn(c, t, reason) => Acked
             /\ \A t, pc, seen : Begin(c, t, pc, seen) => Acked
             /\ \A t, kind, seen : BeginEvent(c, t, kind, seen) => Acked
             /\ AfterRecord(c) => Acked
  <2>1. \A t : Ack(c, t) => Acked
    BY DEF Ack, Acked, FlowInv, Shape
  <2>2. queue' = queue => Acked
    BY DEF Acked
  <2> QED BY <2>1, <2>2 DEF Nak, FailTurn, Begin, BeginEvent, AfterRecord
<1>2. queue \subseteq queue' => Acked
  BY DEF Acked
<1>3. CASE \E t \in Turns : LoadKnowledge(t) \/ LoadProgress(t) \/ LoadAccusation(t) \/ LoadCompanion(t) \/ Narrate(t)
  BY <1>1, <1>2, <1>3, AreConsumers DEF LoadKnowledge, LoadProgress, LoadAccusation, LoadCompanion, Narrate
<1>4. CASE \E c \in {"case-progress", "accusation"} : Record(c) \/ WriteReceipt(c)
  BY <1>1, <1>2, <1>4, AreConsumers DEF Record, WriteReceipt
<1>5. CASE LandKnowledge \/ LandProgress \/ Check \/ Commit \/ RepairObject \/ commitRecord
  BY <1>1, <1>2, <1>5, AreConsumers DEF LandKnowledge, LandProgress, Check, Commit, RepairObject, commitRecord
<1>6. CASE \E t \in Turns : Interpret(t) \/ Sequence(t)
  BY <1>2, <1>6 DEF Interpret, Sequence, Publish
<1>7. CASE \E c \in Consumers, t \in Turns : Redeliver(c, t)
  BY <1>2, <1>7 DEF Redeliver
<1>8. CASE UNCHANGED queue
  BY <1>2, <1>8
<1> QED BY <1>3, <1>4, <1>5, <1>6, <1>7, <1>8, NextCases, TurnFrames, BarrierFrames, CompanionFrames

(* A delivery goes on with its turn, or takes one from the queue.          *)
LEMMA TurnOfDelivery ==
  ASSUME FlowInv, Next, NEW c \in Consumers, worker'[c] # Idle
  PROVE  \/ worker[c] # Idle /\ worker'[c].turn = worker[c].turn
         \/ <<c, worker'[c].turn>> \in queue
<1>0. \A d \in Consumers : \A x : Becomes(d, x) => worker'[d] = x
  BY Becoming
<1>1. \A d \in Consumers : \A pc, t, e, s : Becomes(d, Delivery(pc, t, e, s)) => worker'[d].turn = t
  BY <1>0, Fields
<1>2. \A d \in Consumers : worker[d].pc # "idle" => worker[d] # Idle
  BY Fields
<1>3. \A d \in Consumers : \A pc : GoesOn(d, pc) => worker'[d].turn = worker[d].turn
  BY <1>1 DEF GoesOn
<1>4. CASE c = "knowledge" /\ KnowledgeMove
  BY <1>0, <1>1, <1>2, <1>3, <1>4 DEF KnowledgeMove
<1>5. CASE c = "case-progress" /\ ProgressMove
  BY <1>0, <1>1, <1>2, <1>3, <1>5 DEF ProgressMove
<1>6. CASE c = "accusation" /\ AccusationMove
  BY <1>0, <1>1, <1>2, <1>3, <1>6 DEF AccusationMove
<1>7. CASE c = "companion" /\ CompanionMove
  BY <1>0, <1>1, <1>2, <1>3, <1>7 DEF CompanionMove
<1> QED BY <1>4, <1>5, <1>6, <1>7, Moved, AreConsumers

LEMMA QueuedStep ==
  ASSUME FlowInv, DeliveriesAreQueued, Next
  PROVE  DeliveriesAreQueued'
<1> SUFFICES ASSUME NEW c \in Consumers, worker'[c] # Idle PROVE <<c, worker'[c].turn>> \in queue'
  BY DEF DeliveriesAreQueued
<1>1. <<c, worker'[c].turn>> \in queue
  BY TurnOfDelivery DEF DeliveriesAreQueued
<1>2. worker'[c].turn \in Turns
  BY <1>1 DEF FlowInv, Deliveries
<1> QED BY <1>1, <1>2, AckedOnly DEF Acked

LEMMA FaultsStep ==
  ASSUME Next
  PROVE  faults' = faults \/ (faults < MaxFaults /\ faults' = faults + 1)
<1>1. /\ \A t : Interpret(t) \/ Sequence(t) \/ LoadKnowledge(t) \/ LoadProgress(t) => faults' = faults
      /\ \A t : LoadAccusation(t) \/ LoadCompanion(t) \/ Narrate(t) => faults' = faults
      /\ \A c : Record(c) \/ WriteReceipt(c) => faults' = faults
  BY DEF Interpret, Sequence, LoadKnowledge, LoadProgress, LoadAccusation, LoadCompanion, Narrate, Record, WriteReceipt
<1>2. /\ CaseRule \/ Grant \/ createOrVerify \/ LandKnowledge \/ LandProgress \/ Check \/ Commit => faults' = faults
      /\ ClaimExact \/ RepairObject \/ AdvanceHint \/ commitRecord => faults' = faults
  BY DEF CaseRule, Grant, createOrVerify, LandKnowledge, LandProgress, Check, Commit,
         ClaimExact, RepairObject, AdvanceHint, commitRecord
<1>3. /\ \A c : Interrupt(c) => faults < MaxFaults /\ faults' = faults + 1
      /\ \A c, t : Redeliver(c, t) => faults < MaxFaults /\ faults' = faults + 1
  BY DEF Interrupt, Redeliver
<1> QED BY <1>1, <1>2, <1>3, NextCases

(* The state of the case is well typed; a consumer only works on a trigger *)
(* it has not acknowledged; and Committer.Commit never finds a record      *)
(* other than the one it is about to write, so that its conflict is an     *)
(* error no delivery can meet.                                             *)
THEOREM CaseTypeCorrect == Spec => []TypeOK
<1> DEFINE Rest == ResultsAreDetermined /\ ValuesAreKnown /\ DeliveriesAreQueued /\ faults \in 0 .. MaxFaults
<1>1. ASSUME Init PROVE Rest
  <2>1. \A c \in Consumers : worker[c] = Idle /\ worker[c].pc = "idle"
    BY <1>1, AllIdle
  <2>2. \A t \in Turns : ended[t] = None /\ staged[t] = None /\ \A b \in Barriers : record[t][b] = None
    BY <1>1 DEF Init
  <2>3. faults \in 0 .. MaxFaults
    BY <1>1, CaseAssumption DEF Init
  <2> QED BY <2>1, <2>2, <2>3, AreConsumers DEF ResultsAreDetermined, ValuesAreKnown, DeliveriesAreQueued, Barriers
<1>2. ASSUME FlowInv, LadderInv, Rest, [Next]_vars PROVE Rest'
  <2>1. CASE Next
    <3>1. faults' \in 0 .. MaxFaults
      BY <1>2, <2>1, FaultsStep, CaseAssumption
    <3> QED BY <1>2, <2>1, <3>1, ResultsDeterminedStep, ValuesStep, QueuedStep
  <2>2. CASE UNCHANGED vars
    BY <1>2, <2>2 DEF ResultsAreDetermined, Result, ValuesAreKnown, DeliveriesAreQueued,
       vars, turnVars, graphVars, companionVars, streamVars
  <2> QED BY <1>2, <2>1, <2>2
<1>3. ASSUME FlowInv, LadderInv, Rest PROVE TypeOK
  <2>1. /\ phase \in Phases /\ (receipt # None => receipt.kind \in Events)
        /\ queue \subseteq sent /\ sent \subseteq Consumers \X Turns
        /\ \A t \in Turns : decision[t] \in Choices[t] \cup {None}
    BY <1>3 DEF FlowInv, Deliveries
  <2>2. \A t \in Turns : record[t]["accusation"] \in {None, "none", "correct", "incorrect"}
    BY <1>3 DEF ResultsAreDetermined, Result, Verify
  <2>3. hint \in [DOMAIN Controls -> Levels]
    BY <1>3 DEF LadderInv, LadderShape
  <2>4. \A t \in Turns : {claim[t], staged[t]} \subseteq Hints \cup {None} /\ (object[t] => claim[t] # None)
    BY <1>3 DEF LadderInv, LadderShape, ValuesAreKnown
  <2>5. At("accusation", "commit") => record[Turn("accusation")]["accusation"] \in {None, worker["accusation"].seen}
    <3> SUFFICES ASSUME worker["accusation"].pc = "commit"
                 PROVE  record[worker["accusation"].turn]["accusation"] \in {None, worker["accusation"].seen}
      BY DEF At, Turn
    <3>1. worker["accusation"].turn \in Turns
      BY <1>3, AccusationWorks
    <3> QED BY <1>3, <3>1 DEF ResultsAreDetermined
  <2> QED BY <1>3, <2>1, <2>2, <2>3, <2>4, <2>5 DEF TypeOK, ValuesAreKnown, DeliveriesAreQueued, Turn
<1> HIDE DEF Rest
<1>4. Spec => []Rest
  BY <1>1, <1>2, LadderHolds, PTL DEF Spec
<1> QED BY <1>3, <1>4, LadderHolds, PTL
=============================================================================
