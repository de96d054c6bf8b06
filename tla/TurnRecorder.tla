---------------------------- MODULE TurnRecorder ----------------------------
(***************************************************************************)
(* internal/turn: the component that owns the turn entity.  The intake     *)
(* consumer (intake.go) turns a delivered action into a turn and points    *)
(* the player at it; every other durable consumer moves a turn with        *)
(* Advance or ends it with Fail (recorder.go), and the terminal transition *)
(* points the player at the turn that ended.  Results.Latest               *)
(* (internal/egress/results.go) is the reader both pointers exist for.     *)
(*                                                                         *)
(* Every graph operation is one round trip, so a handler is a sequence of  *)
(* steps that interleaves with the other consumers' steps; within one      *)
(* consumer deliveries are sequential.  A step may fail, before or after   *)
(* its write commits, and the delivery is then redelivered later; a crash  *)
(* of the process is every operation in flight failing.                    *)
(***************************************************************************)
EXTENDS TurnPhases

CONSTANTS
  Turns,        \* turn ids, one per action id
  Players,
  PlayerOf,     \* the player on each action, fixed by the turn's create
  Consumers,    \* the durable consumers that call Advance or Fail
  Calls,        \* the phases each of them asks for
  Malformed,    \* actions that fail validation (RejectedActionError)
  Absent,       \* no such turn entity
  NoTurn,       \* a pointer that has never been written
  Faulty,       \* whether a round trip may fail
  SingleFlight, \* whether one turn has at most one transition in flight
  MaxStamp      \* bound: terminal transitions composed

ASSUME RecorderAssumption ==
  /\ PlayerOf \in [Turns -> Players]
  /\ Calls \in [Consumers -> SUBSET (Advanceable \cup {"failed"})]
  /\ Malformed \subseteq Turns
  /\ Absent \notin Phases
  /\ NoTurn \notin Turns
  /\ Faulty \in BOOLEAN
  /\ SingleFlight \in BOOLEAN
  /\ MaxStamp \in Nat

VARIABLES
  phase,      \* turn -> its recorded phase, or Absent
  stamp,      \* turn -> when its recorded terminal phase was composed
  ended,      \* turns that have held a terminal phase (history)
  current,    \* player.turn.current
  resolved,   \* player.turn.resolved
  actions,    \* actions published and not acknowledged by intake
  intake,     \* the delivery the intake consumer is handling
  op,         \* consumer -> the transition it is running
  clock       \* the recorder's clock, one tick per terminal stamp

vars == <<phase, stamp, ended, current, resolved, actions, intake, op, clock>>

Live(t) == phase[t] \in Phases /\ ~IsTerminal(phase[t])
Terminal(t) == IsTerminal(phase[t])

IdleIntake == [pc |-> "idle", turn |-> NoTurn, held |-> NoTurn]
IdleOp == [pc |-> "idle", turn |-> NoTurn, to |-> "failed", at |-> 0]

(* Every variable has its type, and an operation in flight names a turn    *)
(* and a phase its consumer asks for.                                      *)
TypeOK ==
  /\ phase \in [Turns -> Phases \cup {Absent}]
  /\ stamp \in [Turns -> Nat]
  /\ ended \subseteq Turns
  /\ current \in [Players -> Turns \cup {NoTurn}]
  /\ resolved \in [Players -> Turns \cup {NoTurn}]
  /\ actions \subseteq Turns
  /\ intake \in [pc : {"idle", "create", "readPhase", "readPlayer", "readHeld", "write"},
                 turn : Turns \cup {NoTurn}, held : Turns \cup {NoTurn}]
  /\ op \in [Consumers -> [pc : {"idle", "compose", "write", "repair", "point"},
                           turn : Turns \cup {NoTurn}, to : Phases, at : Nat]]
  /\ clock \in Nat
  /\ intake.pc # "idle" => intake.turn \in Turns
  /\ intake.pc = "readHeld" => intake.held \in Turns
  /\ \A c \in Consumers : op[c].pc # "idle" => op[c].turn \in Turns /\ op[c].to \in Calls[c]

Init ==
  /\ phase = [t \in Turns |-> Absent]
  /\ stamp = [t \in Turns |-> 0]
  /\ ended = {}
  /\ current = [p \in Players |-> NoTurn]
  /\ resolved = [p \in Players |-> NoTurn]
  /\ actions = {}
  /\ intake = IdleIntake
  /\ op = [c \in Consumers |-> IdleOp]
  /\ clock = 0

-----------------------------------------------------------------------------
(* Intake: one delivery at a time, from the action stream.                 *)

(* An ingress adapter publishes an action, or publishes it again: the      *)
(* action id names the turn, so a repeat of any age meets the same turn.   *)
Publish(t) ==
  /\ t \notin actions
  /\ actions' = actions \cup {t}
  /\ UNCHANGED <<phase, stamp, ended, current, resolved, intake, op, clock>>

(* Handle begins.  A rejected action is terminated: it can never compose a *)
(* turn, so it leaves the stream and nothing else happens.                 *)
Handle(t) ==
  /\ intake.pc = "idle"
  /\ t \in actions
  /\ IF t \in Malformed
       THEN actions' = actions \ {t} /\ UNCHANGED intake
       ELSE intake' = [IdleIntake EXCEPT !.pc = "create", !.turn = t] /\ UNCHANGED actions
  /\ UNCHANGED <<phase, stamp, ended, current, resolved, op, clock>>

Acknowledge == actions' = actions \ {intake.turn} /\ intake' = IdleIntake
Nak == UNCHANGED actions /\ intake' = IdleIntake

(* Accept: the atomic create is the duplicate-delivery guard.  A turn that *)
(* exists is read instead, since a redelivery may find it in any phase.    *)
Accept ==
  /\ intake.pc = "create"
  /\ LET t == intake.turn IN
       IF phase[t] = Absent
         THEN /\ phase' = [phase EXCEPT ![t] = "accepted"]
              /\ \/ intake' = [intake EXCEPT !.pc = "readPlayer"] /\ UNCHANGED actions
                 \/ Faulty /\ Nak
         ELSE intake' = [intake EXCEPT !.pc = "readPhase"] /\ UNCHANGED <<phase, actions>>
  /\ UNCHANGED <<stamp, ended, current, resolved, op, clock>>

(* Current, on the exists path, and pointPlayerAtTurn's terminal return.   *)
AcceptExisting ==
  /\ intake.pc = "readPhase"
  /\ IF Terminal(intake.turn)
       THEN Acknowledge
       ELSE intake' = [intake EXCEPT !.pc = "readPlayer"] /\ UNCHANGED actions
  /\ UNCHANGED <<phase, stamp, ended, current, resolved, op, clock>>

(* holdsAnotherLiveTurn, first read: which turn the player holds.          *)
ReadHeldTurns ==
  /\ intake.pc = "readPlayer"
  /\ LET held == current[PlayerOf[intake.turn]] IN
       intake' = IF held \in {NoTurn, intake.turn}
                   THEN [intake EXCEPT !.pc = "write"]
                   ELSE [intake EXCEPT !.pc = "readHeld", !.held = held]
  /\ UNCHANGED <<phase, stamp, ended, current, resolved, actions, op, clock>>

(* Mutant of TurnIsLive: the late-pointer guard is dropped.                *)
TurnIsLiveIgnored ==
  /\ intake.pc = "readHeld"
  /\ intake' = [intake EXCEPT !.pc = "write"]
  /\ UNCHANGED <<phase, stamp, ended, current, resolved, actions, op, clock>>

(* holdsAnotherLiveTurn, second read: a live turn is not moved off; the    *)
(* delivery is acknowledged with the pointer left alone.                   *)
TurnIsLive ==
  /\ intake.pc = "readHeld"
  /\ IF Live(intake.held)
       THEN Acknowledge
       ELSE intake' = [intake EXCEPT !.pc = "write"] /\ UNCHANGED actions
  /\ UNCHANGED <<phase, stamp, ended, current, resolved, op, clock>>

(* pointPlayerAtTurn's write, and the acknowledgement.                     *)
PointPlayerAtTurn ==
  /\ intake.pc = "write"
  /\ current' = [current EXCEPT ![PlayerOf[intake.turn]] = intake.turn]
  /\ \/ Acknowledge
     \/ Faulty /\ Nak
  /\ UNCHANGED <<phase, stamp, ended, resolved, op, clock>>

(* Any transient error before a write commits: the delivery is nak'd.      *)
IntakeFails ==
  /\ Faulty
  /\ intake.pc # "idle"
  /\ Nak
  /\ UNCHANGED <<phase, stamp, ended, current, resolved, op, clock>>

-----------------------------------------------------------------------------
(* Advance and Fail: transition, as run by one durable consumer.           *)

InFlight(t) == \E c \in Consumers : op[c].pc # "idle" /\ op[c].turn = t

(* currentState and classify.  A late or repeated terminal transition goes *)
(* on to repairResolvedPointer; every other outcome but "advanced" ends    *)
(* the call with nothing written.                                          *)
ReadPhase(c, t, to) ==
  /\ op[c].pc = "idle"
  /\ phase[t] # Absent
  /\ to \in Calls[c]
  /\ SingleFlight => ~InFlight(t)
  /\ LET outcome == Classify(phase[t], to)
         start(pc) == [pc |-> pc, turn |-> t, to |-> to, at |-> 0]
     IN op' = [op EXCEPT ![c] =
                 IF outcome = "advanced"
                   THEN start(IF IsTerminal(to) THEN "compose" ELSE "write")
                 ELSE IF outcome = "declined" /\ IsTerminal(to) /\ Terminal(t)
                   THEN start("repair")
                 ELSE IdleOp]
  /\ UNCHANGED <<phase, stamp, ended, current, resolved, actions, intake, clock>>

(* The phase triples are composed with the recorder's clock before the     *)
(* write is sent; only a terminal phase's timestamp is ever compared.      *)
Compose(c) ==
  /\ op[c].pc = "compose"
  /\ clock < MaxStamp
  /\ clock' = clock + 1
  /\ op' = [op EXCEPT ![c] = [pc |-> "write", turn |-> @.turn, to |-> @.to, at |-> clock + 1]]
  /\ UNCHANGED <<phase, stamp, ended, current, resolved, actions, intake>>

(* The reconcile write of the phase group.  It replaces whatever phase is  *)
(* there, not the phase that was read.                                     *)
WritePhase(c) ==
  /\ op[c].pc = "write"
  /\ LET t == op[c].turn
         to == op[c].to
     IN /\ phase' = [phase EXCEPT ![t] = to]
        /\ stamp' = [stamp EXCEPT ![t] = op[c].at]
        /\ ended' = IF IsTerminal(to) THEN ended \cup {t} ELSE ended
        /\ \/ op' = [op EXCEPT ![c] = IF IsTerminal(to) THEN [@ EXCEPT !.pc = "point"] ELSE IdleOp]
           \/ Faulty /\ op' = [op EXCEPT ![c] = IdleOp]
  /\ UNCHANGED <<current, resolved, actions, intake, clock>>

(* repairResolvedPointer's read: nothing to do when the pointer landed,    *)
(* and no repair when the player has moved on to another turn.             *)
RepairResolvedPointer(c) ==
  /\ op[c].pc = "repair"
  /\ LET t == op[c].turn
         p == PlayerOf[t]
     IN op' = [op EXCEPT ![c] = IF resolved[p] # t /\ current[p] = t
                                  THEN [@ EXCEPT !.pc = "point"]
                                  ELSE IdleOp]
  /\ UNCHANGED <<phase, stamp, ended, current, resolved, actions, intake, clock>>

(* pointPlayerAtResolvedTurn, and repairResolvedPointer's write: unguarded.*)
PointPlayerAtResolvedTurn(c) ==
  /\ op[c].pc = "point"
  /\ resolved' = [resolved EXCEPT ![PlayerOf[op[c].turn]] = op[c].turn]
  /\ op' = [op EXCEPT ![c] = IdleOp]
  /\ UNCHANGED <<phase, stamp, ended, current, actions, intake, clock>>

(* A round trip fails with nothing written; the delivery is redelivered.   *)
CallFails(c) ==
  /\ Faulty
  /\ op[c].pc # "idle"
  /\ op' = [op EXCEPT ![c] = IdleOp]
  /\ UNCHANGED <<phase, stamp, ended, current, resolved, actions, intake, clock>>

IntakeStep == \/ Accept \/ AcceptExisting \/ ReadHeldTurns \/ TurnIsLive
              \/ PointPlayerAtTurn \/ IntakeFails

ConsumerStep(c) == \/ \E t \in Turns, to \in Phases : ReadPhase(c, t, to)
                   \/ Compose(c)
                   \/ WritePhase(c)
                   \/ RepairResolvedPointer(c)
                   \/ PointPlayerAtResolvedTurn(c)
                   \/ CallFails(c)

Next == \/ \E t \in Turns : Publish(t) \/ Handle(t)
        \/ IntakeStep
        \/ \E c \in Consumers : ConsumerStep(c)

Spec == Init /\ [][Next]_vars

-----------------------------------------------------------------------------
(* Results.Latest: both pointers are addresses; a candidate that has not   *)
(* ended is skipped, and the recorded timestamp decides between two.       *)

(* Mutant of CandidateTurns: only the turn the player holds is looked at.  *)
CandidateTurnsHeldOnly(p) == {current[p]} \ {NoTurn}

CandidateTurns(p) == {resolved[p], current[p]} \ {NoTurn}

Deliverable(p) == {t \in CandidateTurns(p) : PlayerOf[t] = p /\ Terminal(t)}

Latest(p) == {t \in Deliverable(p) : \A u \in Deliverable(p) : stamp[t] >= stamp[u]}

-----------------------------------------------------------------------------
(* What holds whatever the interleaving and the failures.                  *)

(* A pointer is never ahead of the record it names: player.turn.current    *)
(* and player.turn.resolved name only turns that were created, and only    *)
(* the player's own, though each is written round trips after the create.  *)
PointersNameOwnTurns ==
  \A p \in Players : \A t \in {current[p], resolved[p]} \ {NoTurn} :
    phase[t] # Absent /\ PlayerOf[t] = p

(* The resolved pointer is written after the phase, never before: it only  *)
(* ever names a turn that has held a terminal phase, across lost replies,  *)
(* repairs by a redelivery and crashes between the two writes.             *)
ResolvedHasEnded ==
  \A p \in Players : resolved[p] # NoTurn => resolved[p] \in ended

(* Intake acknowledges an action only once its turn exists, so no failure  *)
(* between the create and the acknowledgement loses a player's move.       *)
AckedOnlyWithTurn ==
  [][\A t \in actions \ actions' : t \in Malformed \/ phase[t] # Absent]_vars

(* What holds when a turn has one transition in flight at a time, the      *)
(* posture internal/vocabulary/phases.go names ("Exclusion in this slice   *)
(* comes from single-flight execution").                                   *)

(* A turn is created once, in accepted, and afterwards moves only along    *)
(* the legal hops of the table: no stage is skipped, none is re-entered,   *)
(* an ending is final, and a repeated action never resets a turn.          *)
EveryHopIsLegal ==
  [][\A t \in Turns : phase'[t] # phase[t] =>
       \/ phase[t] = Absent /\ phase'[t] = "accepted"
       \/ PhaseFollows(phase[t], phase'[t])]_vars

(* A late pointer write does not move a player off a turn they are still   *)
(* running, although holdsAnotherLiveTurn's two reads and the write are    *)
(* three separate round trips.                                             *)
HeldTurnNotAbandoned ==
  [][\A p \in Players : current'[p] # current[p] =>
       current[p] = NoTurn \/ ~Live(current[p])]_vars

(* The resolved pointer names a turn whose recorded phase is terminal, so  *)
(* a player who once had an answer through it always has one.              *)
ResolvedNamesTerminalTurn ==
  \A p \in Players : resolved[p] # NoTurn => Terminal(resolved[p])

(* A player who has an answer keeps one.  The only step that can take it   *)
(* away is intake moving the player to a new turn, and only while no       *)
(* resolved pointer ever landed: the write that follows the terminal phase *)
(* was lost and nothing has repaired it.                                   *)
AnswerIsKept ==
  [][\A p \in Players : Latest(p) # {} /\ Latest(p)' = {} =>
       resolved[p] = NoTurn /\ intake.pc = "write" /\ PlayerOf[intake.turn] = p]_vars
=============================================================================
