-------------------------- MODULE AdmissionProofs --------------------------
(***************************************************************************)
(* The recorder and the gateway in front of it, for every set of turns,    *)
(* players, consumers, clients and keys.  First TurnRecorder on its own;   *)
(* then Admission, which implements it step by step, so that what is       *)
(* proved of the recorder holds of the composition too.                    *)
(***************************************************************************)
EXTENDS Admission, TLAPS

-----------------------------------------------------------------------------
(* The recorder.                                                           *)


(* A legal hop is one the guard lets through and no other outcome: what    *)
(* classify answers "advanced" to is exactly the predecessor relation.     *)
LEMMA ClassifyAdvances ==
  ASSUME NEW from \in Phases, NEW to \in Phases
  PROVE  (Classify(from, to) = "advanced") <=> PhaseFollows(from, to)
  BY DEF Classify, PhaseFollows, Predecessors, Phases, TerminalPhases, IsTerminal, Rank

(* A terminal target is declined only by a turn that has itself ended.     *)
LEMMA TerminalDeclined ==
  ASSUME NEW from \in Phases, NEW to \in TerminalPhases
  PROVE  (Classify(from, to) = "declined") <=> IsTerminal(from)
  BY DEF Classify, PhaseFollows, Predecessors, Phases, TerminalPhases, IsTerminal, Rank

(* Nothing leads out of a terminal phase.                                  *)
LEMMA TerminalHasNoSuccessor ==
  ASSUME NEW from \in TerminalPhases, NEW to \in Phases
  PROVE  ~PhaseFollows(from, to)
  BY DEF PhaseFollows, Predecessors, Phases, TerminalPhases

LEMMA TerminalArePhases == TerminalPhases \subseteq Phases /\ "accepted" \in Phases
                           /\ "failed" \in Phases /\ ~IsTerminal("accepted")
  BY DEF TerminalPhases, Phases, IsTerminal

-----------------------------------------------------------------------------
(* Type correctness.                                                       *)

LEMMA TypeStep == ASSUME TypeOK, [Next]_vars PROVE TypeOK'
<1> USE RecorderAssumption, TerminalArePhases
<1>1. ASSUME NEW t \in Turns, Publish(t) PROVE TypeOK'
  BY <1>1 DEF TypeOK, Publish
<1>2. ASSUME NEW t \in Turns, Handle(t) PROVE TypeOK'
  BY <1>2 DEF TypeOK, Handle, IdleIntake
<1>3. CASE Accept
  BY <1>3 DEF TypeOK, Accept, Nak, IdleIntake
<1>4. CASE AcceptExisting
  BY <1>4 DEF TypeOK, AcceptExisting, Acknowledge, IdleIntake
<1>5. CASE ReadHeldTurns
  BY <1>5 DEF TypeOK, ReadHeldTurns
<1>6. CASE TurnIsLive
  BY <1>6 DEF TypeOK, TurnIsLive, Acknowledge, IdleIntake
<1>7. CASE PointPlayerAtTurn
  BY <1>7 DEF TypeOK, PointPlayerAtTurn, Acknowledge, Nak, IdleIntake
<1>8. CASE IntakeFails
  BY <1>8 DEF TypeOK, IntakeFails, Nak, IdleIntake
<1>9. ASSUME NEW c \in Consumers, ConsumerStep(c) PROVE TypeOK'
  <2>1. ASSUME NEW t \in Turns, NEW to \in Phases, ReadPhase(c, t, to) PROVE TypeOK'
    BY <2>1 DEF TypeOK, ReadPhase, IdleOp
  <2>2. CASE Compose(c)
    BY <2>2 DEF TypeOK, Compose
  <2>3. CASE WritePhase(c)
    <3>1. /\ op' \in [Consumers -> [pc : {"idle", "compose", "write", "repair", "point"},
                                    turn : Turns \cup {NoTurn}, to : Phases, at : Nat]]
          /\ \A d \in Consumers : op'[d].pc # "idle" => op'[d].turn \in Turns /\ op'[d].to \in Calls[d]
      BY <2>3 DEF TypeOK, WritePhase, IdleOp
    <3>2. phase' \in [Turns -> Phases \cup {Absent}] /\ stamp' \in [Turns -> Nat] /\ ended' \subseteq Turns
      BY <2>3 DEF TypeOK, WritePhase
    <3> QED BY <2>3, <3>1, <3>2 DEF TypeOK, WritePhase
  <2>4. CASE RepairResolvedPointer(c)
    BY <2>4 DEF TypeOK, RepairResolvedPointer, IdleOp
  <2>5. CASE PointPlayerAtResolvedTurn(c)
    BY <2>5 DEF TypeOK, PointPlayerAtResolvedTurn, IdleOp
  <2>6. CASE CallFails(c)
    BY <2>6 DEF TypeOK, CallFails, IdleOp
  <2> QED BY <1>9, <2>1, <2>2, <2>3, <2>4, <2>5, <2>6 DEF ConsumerStep
<1>10. CASE UNCHANGED vars
  BY <1>10 DEF TypeOK, vars
<1> QED
  BY <1>1, <1>2, <1>3, <1>4, <1>5, <1>6, <1>7, <1>8, <1>9, <1>10 DEF Next, IntakeStep

(* Every variable keeps its type, and an operation in flight names a turn  *)
(* and a phase its consumer asks for (Accept, Advance and Fail).           *)
THEOREM TypeCorrect == Spec => []TypeOK
<1>1. Init => TypeOK
  BY RecorderAssumption, TerminalArePhases DEF Init, TypeOK, IdleIntake, IdleOp
<1> QED BY <1>1, TypeStep, PTL DEF Spec

-----------------------------------------------------------------------------
(* Pointers, with no assumption on how transitions interleave.             *)

(* What an operation in flight knows: the turn it works on was created,    *)
(* and one that is about to move the resolved pointer works on a turn that *)
(* has ended.  Neither follows from the pointers alone, which is why       *)
(* PointersNameOwnTurns and ResolvedHasEnded are not inductive.            *)
InFlightKnows ==
  /\ intake.pc \in {"readPhase", "readPlayer", "readHeld", "write"} => phase[intake.turn] # Absent
  /\ \A c \in Consumers : op[c].pc # "idle" => phase[op[c].turn] # Absent
  /\ \A c \in Consumers : op[c].pc \in {"repair", "point"} => op[c].turn \in ended
  /\ \A t \in Turns : Terminal(t) => t \in ended

PointerInv == TypeOK /\ PointersNameOwnTurns /\ ResolvedHasEnded /\ InFlightKnows

(* A turn once created is never absent again.                              *)
LEMMA CreatedStays ==
  ASSUME TypeOK, [Next]_vars, NEW t \in Turns, phase[t] # Absent
  PROVE  phase'[t] # Absent
<1> USE RecorderAssumption, TerminalArePhases
<1>1. CASE Accept
  BY <1>1 DEF Accept, TypeOK
<1>2. ASSUME NEW c \in Consumers, WritePhase(c) PROVE phase'[t] # Absent
  BY <1>2 DEF WritePhase, TypeOK
<1>3. CASE UNCHANGED phase
  BY <1>3
<1> QED
  BY <1>1, <1>2, <1>3 DEF Next, IntakeStep, ConsumerStep, Publish, Handle, AcceptExisting,
     ReadHeldTurns, TurnIsLive, PointPlayerAtTurn, IntakeFails, ReadPhase, Compose,
     RepairResolvedPointer, PointPlayerAtResolvedTurn, CallFails, vars

LEMMA PointerStep == ASSUME PointerInv, [Next]_vars PROVE PointerInv'
<1> USE RecorderAssumption, TerminalArePhases DEF PointerInv
<1>0. TypeOK' /\ \A t \in Turns : phase[t] # Absent => phase'[t] # Absent
  BY TypeStep, CreatedStays
<1>1. ASSUME NEW t \in Turns, Publish(t) PROVE PointerInv'
  BY <1>0, <1>1 DEF Publish, PointersNameOwnTurns, ResolvedHasEnded, InFlightKnows, Terminal
<1>2. ASSUME NEW t \in Turns, Handle(t) PROVE PointerInv'
  <2>1. UNCHANGED <<phase, ended, current, resolved, op>>
    BY <1>2 DEF Handle
  <2>2. intake' = intake \/ intake'.pc = "create"
    BY <1>2 DEF Handle, IdleIntake
  <2> QED BY <1>0, <2>1, <2>2 DEF PointersNameOwnTurns, ResolvedHasEnded, InFlightKnows, Terminal
<1>3. CASE Accept
  <2>1. PointersNameOwnTurns' /\ ResolvedHasEnded'
    BY <1>0, <1>3 DEF Accept, PointersNameOwnTurns, ResolvedHasEnded, TypeOK
  <2>2. InFlightKnows'
    <3>1. \A c \in Consumers : op'[c].pc # "idle" => phase'[op'[c].turn] # Absent
      BY <1>0, <1>3 DEF Accept, InFlightKnows, TypeOK
    <3>2. \A t \in Turns : Terminal(t)' => t \in ended'
      BY <1>3 DEF Accept, InFlightKnows, Terminal, TypeOK, IsTerminal
    <3>3. intake'.pc \in {"readPhase", "readPlayer", "readHeld", "write"} => phase'[intake'.turn] # Absent
      BY <1>3 DEF Accept, TypeOK, Nak, IdleIntake
    <3> QED BY <1>3, <3>1, <3>2, <3>3 DEF Accept, InFlightKnows
  <2> QED BY <1>0, <2>1, <2>2
<1>4. CASE AcceptExisting
  BY <1>0, <1>4 DEF AcceptExisting, Acknowledge, IdleIntake, PointersNameOwnTurns, ResolvedHasEnded,
     InFlightKnows, Terminal, TypeOK
<1>5. CASE ReadHeldTurns
  BY <1>0, <1>5 DEF ReadHeldTurns, PointersNameOwnTurns, ResolvedHasEnded, InFlightKnows, Terminal, TypeOK
<1>6. CASE TurnIsLive
  BY <1>0, <1>6 DEF TurnIsLive, Acknowledge, IdleIntake, PointersNameOwnTurns, ResolvedHasEnded,
     InFlightKnows, Terminal, TypeOK
<1>7. CASE PointPlayerAtTurn
  BY <1>0, <1>7 DEF PointPlayerAtTurn, Acknowledge, Nak, IdleIntake, PointersNameOwnTurns,
     ResolvedHasEnded, InFlightKnows, Terminal, TypeOK
<1>8. CASE IntakeFails
  BY <1>0, <1>8 DEF IntakeFails, Nak, IdleIntake, PointersNameOwnTurns, ResolvedHasEnded,
     InFlightKnows, Terminal, TypeOK
<1>9. ASSUME NEW c \in Consumers, ConsumerStep(c) PROVE PointerInv'
  <2>1. ASSUME NEW t \in Turns, NEW to \in Phases, ReadPhase(c, t, to) PROVE PointerInv'
    BY <1>0, <2>1 DEF ReadPhase, IdleOp, PointersNameOwnTurns, ResolvedHasEnded, InFlightKnows, Terminal, TypeOK
  <2>2. CASE Compose(c)
    BY <1>0, <2>2 DEF Compose, PointersNameOwnTurns, ResolvedHasEnded, InFlightKnows, Terminal, TypeOK
  <2>3. CASE WritePhase(c)
    <3>1. PointersNameOwnTurns' /\ ResolvedHasEnded'
      BY <1>0, <2>3 DEF WritePhase, PointersNameOwnTurns, ResolvedHasEnded, TypeOK
    <3>2. \A t \in Turns : Terminal(t)' => t \in ended'
      BY <2>3 DEF WritePhase, InFlightKnows, Terminal, TypeOK
    <3>3. \A d \in Consumers : /\ op'[d].pc # "idle" => phase'[op'[d].turn] # Absent
                               /\ op'[d].pc \in {"repair", "point"} => op'[d].turn \in ended'
      BY <1>0, <2>3 DEF WritePhase, InFlightKnows, IdleOp, TypeOK
    <3>4. intake'.pc \in {"readPhase", "readPlayer", "readHeld", "write"} => phase'[intake'.turn] # Absent
      BY <1>0, <2>3 DEF WritePhase, InFlightKnows, TypeOK
    <3> QED BY <1>0, <3>1, <3>2, <3>3, <3>4 DEF InFlightKnows
  <2>4. CASE RepairResolvedPointer(c)
    BY <1>0, <2>4 DEF RepairResolvedPointer, IdleOp, PointersNameOwnTurns, ResolvedHasEnded,
       InFlightKnows, Terminal, TypeOK
  <2>5. CASE PointPlayerAtResolvedTurn(c)
    BY <1>0, <2>5 DEF PointPlayerAtResolvedTurn, IdleOp, PointersNameOwnTurns, ResolvedHasEnded,
       InFlightKnows, Terminal, TypeOK
  <2>6. CASE CallFails(c)
    BY <1>0, <2>6 DEF CallFails, IdleOp, PointersNameOwnTurns, ResolvedHasEnded, InFlightKnows, Terminal, TypeOK
  <2> QED BY <1>9, <2>1, <2>2, <2>3, <2>4, <2>5, <2>6 DEF ConsumerStep
<1>10. CASE UNCHANGED vars
  BY <1>0, <1>10 DEF vars, PointersNameOwnTurns, ResolvedHasEnded, InFlightKnows, Terminal
<1> QED
  BY <1>1, <1>2, <1>3, <1>4, <1>5, <1>6, <1>7, <1>8, <1>9, <1>10 DEF Next, IntakeStep

LEMMA PointerInvariant == Spec => []PointerInv
<1>1. Init => PointerInv
  BY RecorderAssumption, TerminalArePhases DEF Init, PointerInv, TypeOK, IdleIntake, IdleOp,
     PointersNameOwnTurns, ResolvedHasEnded, InFlightKnows, Terminal, IsTerminal
<1> QED BY <1>1, PointerStep, PTL DEF Spec

(* Both pointers name only created turns of the player they belong to,     *)
(* whatever interleaves with Accept and transition and whatever fails.     *)
THEOREM PointersAreSound == Spec => []PointersNameOwnTurns
BY PointerInvariant, PTL DEF PointerInv

(* The resolved pointer names only a turn that has held a terminal phase:  *)
(* the phase is written before the pointer on every path, the repair of a  *)
(* redelivered transition included.                                        *)
THEOREM ResolvedAfterEnding == Spec => []ResolvedHasEnded
BY PointerInvariant, PTL DEF PointerInv

(* Intake never acknowledges an action whose turn does not exist: every    *)
(* acknowledging path of Handle comes after the create, or after a read    *)
(* that found the turn, or terminates an action that can never become one. *)
THEOREM NoActionIsLost == Spec => AckedOnlyWithTurn
<1>1. PointerInv /\ [Next]_vars =>
        [\A t \in actions \ actions' : t \in Malformed \/ phase[t] # Absent]_vars
  <2> SUFFICES ASSUME PointerInv, [Next]_vars, NEW t \in actions \ actions'
               PROVE  t \in Malformed \/ phase[t] # Absent
    OBVIOUS
  <2>1. CASE \E u \in Turns : Handle(u)
    BY <2>1 DEF Handle
  <2>2. CASE t = intake.turn /\ intake.pc \in {"readPhase", "readHeld", "write"}
    BY <2>2 DEF PointerInv, InFlightKnows
  <2> QED
    BY <2>1, <2>2 DEF Next, IntakeStep, ConsumerStep, Publish, Accept, AcceptExisting, ReadHeldTurns,
       TurnIsLive, PointPlayerAtTurn, IntakeFails, Acknowledge, Nak, ReadPhase, Compose, WritePhase,
       RepairResolvedPointer, PointPlayerAtResolvedTurn, CallFails, vars
<1> QED BY <1>1, PointerInvariant, PTL DEF Spec, AckedOnlyWithTurn

-----------------------------------------------------------------------------
(* One transition in flight per turn.                                      *)

(* With the flight exclusive, what a transition read still holds when it   *)
(* writes, and what intake read of the player still holds when it points.  *)
Exclusive ==
  \A c, d \in Consumers :
    op[c].pc # "idle" /\ op[d].pc # "idle" /\ op[c].turn = op[d].turn => c = d

GuardStillHolds ==
  \A c \in Consumers :
    /\ op[c].pc \in {"compose", "write"} => PhaseFollows(phase[op[c].turn], op[c].to)
    /\ op[c].pc \in {"repair", "point"} => Terminal(op[c].turn)

HeldStillHolds ==
  LET held == current[PlayerOf[intake.turn]] IN
  /\ intake.pc = "readHeld" => held = intake.held
  /\ intake.pc = "write" => held \in {NoTurn, intake.turn} \/ Terminal(held)

FlightInv == PointerInv /\ Exclusive /\ GuardStillHolds /\ HeldStillHolds /\ ResolvedNamesTerminalTurn

LegalHop(t) == phase'[t] # phase[t] =>
                 \/ phase[t] = Absent /\ phase'[t] = "accepted"
                 \/ PhaseFollows(phase[t], phase'[t])

LEMMA HopStep ==
  ASSUME FlightInv, [Next]_vars
  PROVE  \A t \in Turns : LegalHop(t) /\ (Terminal(t) => Terminal(t)')
<1> USE RecorderAssumption, TerminalArePhases DEF FlightInv, PointerInv
<1> SUFFICES ASSUME NEW t \in Turns PROVE LegalHop(t) /\ (Terminal(t) => Terminal(t)')
  OBVIOUS
<1>0. phase[t] \in Phases \cup {Absent} /\ phase'[t] \in Phases \cup {Absent}
  BY TypeStep DEF TypeOK
<1>1. LegalHop(t)
  <2>1. CASE Accept
    BY <2>1 DEF Accept, LegalHop, TypeOK
  <2>2. ASSUME NEW c \in Consumers, WritePhase(c) PROVE LegalHop(t)
    BY <2>2 DEF WritePhase, LegalHop, GuardStillHolds, TypeOK
  <2>3. CASE UNCHANGED phase
    BY <2>3 DEF LegalHop
  <2> QED
    BY <2>1, <2>2, <2>3 DEF Next, IntakeStep, ConsumerStep, Publish, Handle, AcceptExisting,
       ReadHeldTurns, TurnIsLive, PointPlayerAtTurn, IntakeFails, ReadPhase, Compose,
       RepairResolvedPointer, PointPlayerAtResolvedTurn, CallFails, vars
<1>2. Terminal(t) => Terminal(t)'
  <2> SUFFICES ASSUME Terminal(t), phase'[t] # phase[t] PROVE FALSE
    BY DEF Terminal
  <2>1. phase[t] \in TerminalPhases /\ phase[t] # Absent
    BY <1>0 DEF Terminal, IsTerminal
  <2>2. PhaseFollows(phase[t], phase'[t]) /\ phase'[t] \in Phases
    BY <1>0, <1>1, <2>1, CreatedStays DEF LegalHop
  <2> QED BY <2>1, <2>2, TerminalHasNoSuccessor
<1> QED BY <1>1, <1>2

LEMMA FlightStep == ASSUME SingleFlight, FlightInv, [Next]_vars PROVE FlightInv'
<1> USE RecorderAssumption, TerminalArePhases DEF FlightInv, PointerInv
<1>0. /\ PointerInv'
      /\ \A t \in Turns : (Terminal(t) => Terminal(t)') /\ (phase[t] # Absent => phase'[t] # Absent)
  BY PointerStep, HopStep, CreatedStays
<1> HIDE DEF PointerInv
<1>t. TypeOK /\ TypeOK'
  BY <1>0 DEF PointerInv
<1>1. ASSUME NEW t \in Turns, Publish(t) PROVE FlightInv'
  BY <1>0, <1>1 DEF Publish, Exclusive, GuardStillHolds, HeldStillHolds, ResolvedNamesTerminalTurn, Terminal
<1>2. ASSUME NEW t \in Turns, Handle(t) PROVE FlightInv'
  <2>1. UNCHANGED <<phase, current, resolved, op>> /\ (intake' = intake \/ intake'.pc = "create")
    BY <1>2 DEF Handle, IdleIntake
  <2> QED BY <1>0, <2>1 DEF Exclusive, GuardStillHolds, HeldStillHolds, ResolvedNamesTerminalTurn, Terminal
<1>3. CASE Accept
  <2>1. UNCHANGED <<current, resolved, op>> /\ intake'.pc \notin {"readHeld", "write"}
    BY <1>3, <1>t DEF Accept, Nak, IdleIntake, TypeOK
  <2>2. \A t \in Turns : phase[t] # Absent => phase'[t] = phase[t]
    BY <1>3, <1>t DEF Accept, TypeOK
  <2>3. GuardStillHolds'
    <3>1. \A c \in Consumers : op[c].pc # "idle" => phase'[op[c].turn] = phase[op[c].turn]
      BY <2>2, <1>t DEF PointerInv, InFlightKnows, TypeOK
    <3> QED BY <2>1, <3>1 DEF GuardStillHolds, Terminal
  <2>4. ResolvedNamesTerminalTurn'
    BY <1>0, <1>t, <2>1 DEF ResolvedNamesTerminalTurn, TypeOK
  <2> QED BY <1>0, <2>1, <2>3, <2>4 DEF Exclusive, HeldStillHolds
<1>4. CASE AcceptExisting
  <2>1. UNCHANGED <<phase, current, resolved, op>> /\ intake'.pc \notin {"readHeld", "write"}
    BY <1>4, <1>t DEF AcceptExisting, Acknowledge, IdleIntake, TypeOK
  <2> QED BY <1>0, <2>1 DEF Exclusive, GuardStillHolds, HeldStillHolds, ResolvedNamesTerminalTurn, Terminal
<1>5. CASE ReadHeldTurns
  <2>1. UNCHANGED <<phase, current, resolved, op>>
    BY <1>5 DEF ReadHeldTurns
  <2>2. HeldStillHolds'
    BY <1>t, <1>5 DEF ReadHeldTurns, HeldStillHolds, TypeOK
  <2> QED BY <1>0, <2>1, <2>2 DEF Exclusive, GuardStillHolds, ResolvedNamesTerminalTurn, Terminal
<1>6. CASE TurnIsLive
  <2>1. UNCHANGED <<phase, current, resolved, op>>
    BY <1>6 DEF TurnIsLive
  <2>2. HeldStillHolds'
    <3>1. intake'.pc = "write" => intake'.turn = intake.turn /\ ~Live(intake.held) /\ intake.pc = "readHeld"
      BY <1>6, <1>t DEF TurnIsLive, TypeOK, Acknowledge, IdleIntake
    <3>2. intake'.pc # "readHeld"
      BY <1>6, <1>t DEF TurnIsLive, TypeOK, Acknowledge, IdleIntake
    <3>3. ASSUME intake'.pc = "write" PROVE Terminal(current[PlayerOf[intake.turn]])
      BY <3>1, <3>3, <1>t DEF HeldStillHolds, PointerInv, PointersNameOwnTurns, TypeOK, Live, Terminal
    <3> QED BY <2>1, <3>1, <3>2, <3>3 DEF HeldStillHolds, Terminal
  <2> QED BY <1>0, <2>1, <2>2 DEF Exclusive, GuardStillHolds, ResolvedNamesTerminalTurn, Terminal
<1>7. CASE PointPlayerAtTurn
  BY <1>0, <1>7 DEF PointPlayerAtTurn, Acknowledge, Nak, IdleIntake, Exclusive, GuardStillHolds,
     HeldStillHolds, ResolvedNamesTerminalTurn, Terminal
<1>8. CASE IntakeFails
  BY <1>0, <1>8 DEF IntakeFails, Nak, IdleIntake, Exclusive, GuardStillHolds, HeldStillHolds,
     ResolvedNamesTerminalTurn, Terminal
<1>9. ASSUME NEW c \in Consumers, ConsumerStep(c) PROVE FlightInv'
  <2>1. ASSUME NEW t \in Turns, NEW to \in Phases, ReadPhase(c, t, to) PROVE FlightInv'
    <3>1. UNCHANGED <<phase, current, resolved, intake>>
      BY <2>1 DEF ReadPhase
    <3>2. Exclusive'
      BY <2>1, <1>t DEF ReadPhase, Exclusive, InFlight, IdleOp, TypeOK
    <3>3. GuardStillHolds'
      <4>1. phase[t] \in Phases
        BY <2>1, <1>t DEF ReadPhase, TypeOK
      <4>2. (Classify(phase[t], to) = "advanced") <=> PhaseFollows(phase[t], to)
        BY <4>1, ClassifyAdvances
      <4> QED BY <2>1, <1>t, <4>2 DEF ReadPhase, GuardStillHolds, Terminal, IdleOp, TypeOK
    <3> QED BY <1>0, <3>1, <3>2, <3>3 DEF HeldStillHolds, ResolvedNamesTerminalTurn, Terminal
  <2>2. CASE Compose(c)
    BY <1>0, <1>t, <2>2 DEF Compose, Exclusive, GuardStillHolds, HeldStillHolds, ResolvedNamesTerminalTurn,
       Terminal, TypeOK
  <2>3. CASE WritePhase(c)
    <3>1. Exclusive'
      BY <2>3, <1>t DEF WritePhase, Exclusive, IdleOp, TypeOK
    <3>2. GuardStillHolds'
      BY <2>3, <1>t DEF WritePhase, Exclusive, GuardStillHolds, Terminal, IdleOp, TypeOK
    <3>3. HeldStillHolds'
      BY <1>0, <2>3, <1>t DEF WritePhase, HeldStillHolds, TypeOK
    <3>4. ResolvedNamesTerminalTurn'
      BY <1>0, <2>3, <1>t DEF WritePhase, ResolvedNamesTerminalTurn, TypeOK
    <3> QED BY <1>0, <3>1, <3>2, <3>3, <3>4
  <2>4. CASE RepairResolvedPointer(c)
    BY <1>0, <1>t, <2>4 DEF RepairResolvedPointer, IdleOp, Exclusive, GuardStillHolds, HeldStillHolds,
       ResolvedNamesTerminalTurn, Terminal, TypeOK
  <2>5. CASE PointPlayerAtResolvedTurn(c)
    BY <1>0, <1>t, <2>5 DEF PointPlayerAtResolvedTurn, IdleOp, Exclusive, GuardStillHolds, HeldStillHolds,
       ResolvedNamesTerminalTurn, Terminal, TypeOK
  <2>6. CASE CallFails(c)
    BY <1>0, <1>t, <2>6 DEF CallFails, IdleOp, Exclusive, GuardStillHolds, HeldStillHolds,
       ResolvedNamesTerminalTurn, Terminal, TypeOK
  <2> QED BY <1>9, <2>1, <2>2, <2>3, <2>4, <2>5, <2>6 DEF ConsumerStep
<1>10. CASE UNCHANGED vars
  BY <1>0, <1>10 DEF vars, Exclusive, GuardStillHolds, HeldStillHolds, ResolvedNamesTerminalTurn, Terminal
<1> QED
  BY <1>1, <1>2, <1>3, <1>4, <1>5, <1>6, <1>7, <1>8, <1>9, <1>10 DEF Next, IntakeStep

LEMMA FlightInit == Init => FlightInv
  BY RecorderAssumption, TerminalArePhases DEF Init, FlightInv, PointerInv, TypeOK, IdleIntake, IdleOp,
     PointersNameOwnTurns, ResolvedHasEnded, InFlightKnows, Exclusive, GuardStillHolds, HeldStillHolds,
     ResolvedNamesTerminalTurn, Terminal, IsTerminal

(* With one transition in flight per turn, a turn moves only along the     *)
(* table's legal hops: the guard transition checks on the phase it read is *)
(* still true of the phase it overwrites, so no stage is skipped or run    *)
(* twice and an ending is final.                                           *)
THEOREM HopsAreLegal == ASSUME SingleFlight PROVE Spec => EveryHopIsLegal
<1>1. Init => FlightInv
  BY FlightInit
<1>2. FlightInv /\ [Next]_vars => FlightInv'
  BY FlightStep
<1>3. FlightInv /\ [Next]_vars =>
        [\A t \in Turns : phase'[t] # phase[t] =>
           \/ phase[t] = Absent /\ phase'[t] = "accepted"
           \/ PhaseFollows(phase[t], phase'[t])]_vars
  BY HopStep DEF LegalHop
<1> QED BY <1>1, <1>2, <1>3, PTL DEF Spec, EveryHopIsLegal

(* And the resolved pointer then names a turn whose phase is terminal now, *)
(* not only once: retrieval through it always finds a result.              *)
THEOREM ResolvedIsTerminal == ASSUME SingleFlight PROVE Spec => []ResolvedNamesTerminalTurn
<1>1. FlightInv /\ [Next]_vars => FlightInv'
  BY FlightStep
<1> QED BY FlightInit, <1>1, PTL DEF Spec, FlightInv

(* And holdsAnotherLiveTurn's answer cannot go stale before the pointer    *)
(* write: a player is never moved off a turn they are still running.       *)
THEOREM LiveTurnIsKept == ASSUME SingleFlight PROVE Spec => HeldTurnNotAbandoned
<1>1. FlightInv /\ [Next]_vars => FlightInv'
  BY FlightStep
<1>2. FlightInv /\ [Next]_vars =>
        [\A p \in Players : current'[p] # current[p] =>
           current[p] = NoTurn \/ ~Live(current[p])]_vars
  <2> SUFFICES ASSUME FlightInv, [Next]_vars, NEW p \in Players, current'[p] # current[p]
               PROVE  current[p] = NoTurn \/ ~Live(current[p])
    OBVIOUS
  <2>1. PointPlayerAtTurn
    BY DEF Next, IntakeStep, ConsumerStep, Publish, Handle, Accept, AcceptExisting, ReadHeldTurns,
       TurnIsLive, IntakeFails, ReadPhase, Compose, WritePhase, RepairResolvedPointer,
       PointPlayerAtResolvedTurn, CallFails, vars
  <2>2. p = PlayerOf[intake.turn] /\ intake.pc = "write" /\ current'[p] = intake.turn
    BY <2>1, RecorderAssumption DEF PointPlayerAtTurn, FlightInv, PointerInv, TypeOK
  <2> QED BY <2>2 DEF FlightInv, HeldStillHolds, Live, Terminal
<1> QED BY FlightInit, <1>1, <1>2, PTL DEF Spec, HeldTurnNotAbandoned

-----------------------------------------------------------------------------
(* What a player can retrieve.                                             *)

(* Of at most two candidates one has the latest stamp: retrieval answers   *)
(* whenever some candidate has a result to deliver.                        *)
LEMMA SomeAnswerIsLatest ==
  ASSUME TypeOK, NEW p \in Players, Deliverable(p) # {}
  PROVE  Latest(p) # {}
<1>1. Deliverable(p) \subseteq {resolved[p], current[p]} /\ Deliverable(p) \subseteq Turns
  BY RecorderAssumption DEF Deliverable, CandidateTurns, TypeOK
<1>2. \A t \in Turns : stamp[t] \in Nat
  BY DEF TypeOK
<1>3. PICK t \in Deliverable(p) : TRUE
  OBVIOUS
<1>4. CASE \A u \in Deliverable(p) : stamp[t] >= stamp[u]
  BY <1>3, <1>4 DEF Latest
<1>5. CASE \E u \in Deliverable(p) : ~(stamp[t] >= stamp[u])
  <2>1. PICK u \in Deliverable(p) : ~(stamp[t] >= stamp[u])
    BY <1>5
  <2>2. u # t /\ Deliverable(p) \subseteq {t, u}
    BY <1>1, <1>2, <1>3, <2>1
  <2>3. stamp[u] >= stamp[t] /\ stamp[u] >= stamp[u]
    BY <1>1, <1>2, <1>3, <2>1
  <2> QED BY <2>1, <2>2, <2>3 DEF Latest
<1> QED BY <1>4, <1>5

(* With one transition in flight per turn, a player who can retrieve an    *)
(* answer loses it in one way only: intake points them at a new turn while *)
(* the resolved pointer that should have followed the ending never landed  *)
(* (Results.Latest over pointPlayerAtTurn and repairResolvedPointer).      *)
THEOREM AnswersAreKept == ASSUME SingleFlight PROVE Spec => AnswerIsKept
<1>1. FlightInv /\ [Next]_vars => FlightInv'
  BY FlightStep
<1>2. FlightInv /\ FlightInv' /\ [Next]_vars =>
        [\A p \in Players : Latest(p) # {} /\ Latest(p)' = {} =>
           resolved[p] = NoTurn /\ intake.pc = "write" /\ PlayerOf[intake.turn] = p]_vars
  <2> SUFFICES ASSUME FlightInv, FlightInv', [Next]_vars,
                      NEW p \in Players, Latest(p) # {}, Latest(p)' = {}
               PROVE  resolved[p] = NoTurn /\ intake.pc = "write" /\ PlayerOf[intake.turn] = p
    OBVIOUS
  <2> USE RecorderAssumption
  <2>0. TypeOK /\ TypeOK' /\ ResolvedNamesTerminalTurn' /\ PointersNameOwnTurns'
    BY DEF FlightInv, PointerInv
  <2>1. Deliverable(p)' = {}
    <3>1. (TypeOK /\ Deliverable(p) # {} => Latest(p) # {})'
      BY SomeAnswerIsLatest, PTL
    <3> QED BY <2>0, <3>1
  <2>2. resolved'[p] = NoTurn
    <3> SUFFICES ASSUME resolved'[p] # NoTurn PROVE FALSE
      OBVIOUS
    <3>1. Terminal(resolved[p])' /\ PlayerOf[resolved'[p]] = p
      BY <2>0 DEF ResolvedNamesTerminalTurn, PointersNameOwnTurns
    <3> QED BY <2>1, <3>1 DEF Deliverable, CandidateTurns
  <2>3. resolved[p] = NoTurn
    <3>1. CASE \E c \in Consumers : PointPlayerAtResolvedTurn(c)
      BY <2>0, <2>2, <3>1 DEF PointPlayerAtResolvedTurn, TypeOK
    <3>2. CASE UNCHANGED resolved
      BY <2>2, <3>2
    <3> QED
      BY <3>1, <3>2 DEF Next, IntakeStep, ConsumerStep, Publish, Handle, Accept, AcceptExisting,
         ReadHeldTurns, TurnIsLive, PointPlayerAtTurn, IntakeFails, ReadPhase, Compose, WritePhase,
         RepairResolvedPointer, CallFails, vars
  <2>4. current[p] \in Turns /\ Terminal(current[p]) /\ PlayerOf[current[p]] = p
    BY <2>0, <2>3 DEF Latest, Deliverable, CandidateTurns, TypeOK
  <2>5. Terminal(current[p])'  => current'[p] # current[p]
    BY <2>0, <2>1, <2>4 DEF Deliverable, CandidateTurns, TypeOK
  <2>6. current'[p] # current[p]
    <3> SUFFICES ASSUME current'[p] = current[p] PROVE FALSE
      OBVIOUS
    <3>1. IsTerminal(phase'[current[p]])
      BY <2>4, HopStep DEF Terminal
    <3> QED BY <2>5, <3>1 DEF Terminal
  <2>7. PointPlayerAtTurn
    BY <2>6 DEF Next, IntakeStep, ConsumerStep, Publish, Handle, Accept, AcceptExisting, ReadHeldTurns,
       TurnIsLive, IntakeFails, ReadPhase, Compose, WritePhase, RepairResolvedPointer,
       PointPlayerAtResolvedTurn, CallFails, vars
  <2> QED BY <2>0, <2>3, <2>6, <2>7 DEF PointPlayerAtTurn, TypeOK
<1> QED BY FlightInit, <1>1, <1>2, PTL DEF Spec, AnswerIsKept

-----------------------------------------------------------------------------
(* The gateway in front of it.                                             *)


(* What a submission in flight knows: the turn its key derives can become  *)
(* one, and belongs to the player the connection is bound to.              *)
SubmissionKnows ==
  \A c \in Clients : sub[c].pc # "idle" =>
    sub[c].turn \in Turns \ Malformed /\ PlayerOf[sub[c].turn] = SenderOf[c]

(* Every variable keeps its type, as far as admission is concerned.        *)
GatewayTypeOK ==
  /\ sub \in [Clients -> [pc : {"idle", "readPlayer", "readHeld", "publish"},
                          turn : Turns \cup {NoTurn}, held : Turns \cup {NoTurn}]]
  /\ window \subseteq Turns \ Malformed
  /\ accepted \subseteq Turns \ Malformed
  /\ \A c \in Clients : sub[c].pc = "readHeld" => sub[c].held \in Turns
  /\ SubmissionKnows

LEMMA TurnOfKey ==
  ASSUME NEW c \in Clients, NEW key \in KeysOf[c]
  PROVE  /\ TurnFor[<<SenderOf[c], key>>] \in Turns \ Malformed
         /\ PlayerOf[TurnFor[<<SenderOf[c], key>>]] = SenderOf[c]
<1>1. SenderOf[c] \in Players /\ key \in Keys
  BY AdmissionAssumption
<1>2. <<SenderOf[c], key>> \in Players \X Keys
  BY <1>1
<1>3. PlayerOf[TurnFor[<<SenderOf[c], key>>]] = <<SenderOf[c], key>>[1]
  BY <1>2, AdmissionAssumption
<1> QED BY <1>2, <1>3, AdmissionAssumption

-----------------------------------------------------------------------------
(* Each step of the composition is a step of the recorder or leaves it     *)
(* alone.                                                                  *)

LEMMA GatewayTypeStep ==
  ASSUME TypeOK, GatewayTypeOK, [AdmissionNext]_avars
  PROVE  GatewayTypeOK'
<1> USE RecorderAssumption DEF GatewayTypeOK, SubmissionKnows
<1>1. ASSUME NEW c \in Clients, NEW r \in Requests, NEW key \in KeysOf[c], Submit(c, r, key)
      PROVE  GatewayTypeOK'
  <2> DEFINE t == TurnFor[<<SenderOf[c], key>>]
  <2>1. t \in Turns \ Malformed /\ PlayerOf[t] = SenderOf[c]
    BY TurnOfKey
  <2>2. \/ sub' = [sub EXCEPT ![c] = [pc |-> "readPlayer", turn |-> t, held |-> NoTurn]]
        \/ sub' = [sub EXCEPT ![c] = IdleSub]
    BY <1>1 DEF Submit, Answered
  <2>3. UNCHANGED <<window, accepted>>
    BY <1>1 DEF Submit
  <2> HIDE DEF t
  <2>4. CASE sub' = [sub EXCEPT ![c] = [pc |-> "readPlayer", turn |-> t, held |-> NoTurn]]
    BY <2>1, <2>3, <2>4
  <2>5. CASE sub' = [sub EXCEPT ![c] = IdleSub]
    BY <2>3, <2>5 DEF IdleSub
  <2> QED BY <2>2, <2>4, <2>5
<1>2. ASSUME NEW c \in Clients, ReadPlayer(c) PROVE GatewayTypeOK'
  <2>1. SenderOf[c] \in Players
    BY AdmissionAssumption
  <2> QED BY <1>2, <2>1 DEF ReadPlayer, TypeOK
<1>3. ASSUME NEW c \in Clients, RefuseIfLive(c) PROVE GatewayTypeOK'
  <2>1. sub' = [sub EXCEPT ![c] = IdleSub] \/ sub' = [sub EXCEPT ![c].pc = "publish"]
    BY <1>3 DEF RefuseIfLive, Answered, Step
  <2>2. sub[c].pc = "readHeld" /\ UNCHANGED <<window, accepted>>
    BY <1>3 DEF RefuseIfLive
  <2>3. CASE sub' = [sub EXCEPT ![c] = IdleSub]
    BY <2>2, <2>3 DEF IdleSub
  <2>4. CASE sub' = [sub EXCEPT ![c].pc = "publish"]
    BY <2>2, <2>4
  <2> QED BY <2>1, <2>3, <2>4
<1>4. ASSUME NEW c \in Clients, PublishAction(c) PROVE GatewayTypeOK'
  BY <1>4 DEF PublishAction, StoreOnce, Answered, IdleSub
<1>5. ASSUME NEW c \in Clients, Unavailable(c) PROVE GatewayTypeOK'
  BY <1>5 DEF Unavailable, Answered, IdleSub
<1>6. ASSUME NEW t \in Turns, WindowExpires(t) PROVE GatewayTypeOK'
  BY <1>6 DEF WindowExpires
<1>7. CASE UNCHANGED gatewayVars
  BY <1>7 DEF gatewayVars
<1> QED
  BY <1>1, <1>2, <1>3, <1>4, <1>5, <1>6, <1>7 DEF AdmissionNext, GatewayStep, RecorderStep, avars

LEMMA StepRefinesRecorder ==
  ASSUME GatewayTypeOK, [AdmissionNext]_avars
  PROVE  [Next]_vars
<1>1. ASSUME NEW c \in Clients, PublishAction(c) PROVE [Next]_vars
  <2>1. sub[c].turn \in Turns
    BY <1>1 DEF PublishAction, GatewayTypeOK, SubmissionKnows
  <2>2. CASE actions' = actions
    BY <1>1, <2>2 DEF PublishAction, vars
  <2>3. CASE actions' = actions \cup {sub[c].turn} /\ sub[c].turn \notin actions
    BY <1>1, <2>1, <2>3 DEF PublishAction, Publish, Next
  <2> QED BY <1>1, <2>2, <2>3 DEF PublishAction, StoreOnce
<1>2. CASE UNCHANGED vars
  BY <1>2
<1>3. CASE RecorderStep
  BY <1>3 DEF RecorderStep, Next
<1> QED
  BY <1>1, <1>2, <1>3 DEF AdmissionNext, GatewayStep, Submit, ReadPlayer, RefuseIfLive, Unavailable,
     WindowExpires, avars

LEMMA AdmissionTypes == AdmissionSpec => [](PointerInv /\ GatewayTypeOK)
<1>1. AdmissionInit => PointerInv /\ GatewayTypeOK
  <2>1. AdmissionInit => GatewayTypeOK
    BY RecorderAssumption DEF AdmissionInit, GatewayTypeOK, SubmissionKnows, IdleSub
  <2>2. Init => PointerInv
    BY FlightInit DEF FlightInv
  <2> QED BY <2>1, <2>2 DEF AdmissionInit
<1>2. PointerInv /\ GatewayTypeOK /\ [AdmissionNext]_avars => (PointerInv /\ GatewayTypeOK)'
  BY GatewayTypeStep, StepRefinesRecorder, PointerStep DEF PointerInv
<1> QED BY <1>1, <1>2, PTL DEF AdmissionSpec

(* Every variable keeps its type, and a submission past its decoding is    *)
(* for a turn of the sender, as the key derives it (Gateway.Submit).       *)
THEOREM AdmissionTypeCorrect == AdmissionSpec => []AdmissionTypeOK
<1>1. PointerInv /\ GatewayTypeOK => AdmissionTypeOK
  BY DEF PointerInv, GatewayTypeOK, SubmissionKnows, AdmissionTypeOK
<1> QED BY <1>1, AdmissionTypes, PTL

(* Refinement: with the gateway as the only ingress, whatever clients send *)
(* and repeat, the system does nothing to turns, pointers and the stream   *)
(* that TurnRecorder does not allow.                                       *)
THEOREM AdmissionRefinesRecorder == AdmissionSpec => ImplementsRecorder
<1>1. AdmissionInit => Init
  BY DEF AdmissionInit
<1>2. GatewayTypeOK /\ [AdmissionNext]_avars => [Next]_vars
  BY StepRefinesRecorder
<1> QED BY <1>1, <1>2, AdmissionTypes, PTL DEF AdmissionSpec, ImplementsRecorder, Spec

-----------------------------------------------------------------------------
(* An acceptance is a promise.                                             *)

(* The stream remembers an id only after it stored the action, and intake  *)
(* takes an action off it only once its turn exists.  The window must be   *)
(* in the invariant: an acceptance may rest on a publish that was dropped. *)
OnItsWay(t) == t \in actions \/ phase[t] # Absent
StoredOnItsWay == \A t \in window \cup accepted : OnItsWay(t)

LEMMA OnItsWayStep ==
  ASSUME PointerInv, GatewayTypeOK, [AdmissionNext]_avars,
         NEW t \in Turns \ Malformed, OnItsWay(t)
  PROVE  OnItsWay(t)'
<1> USE DEF OnItsWay
<1>1. [Next]_vars /\ TypeOK
  BY StepRefinesRecorder DEF PointerInv
<1>2. CASE phase[t] # Absent
  BY <1>1, <1>2, CreatedStays
<1>3. CASE t \in actions /\ t \notin actions' /\ phase[t] = Absent
  <2>1. CASE \E u \in Turns : Handle(u)
    BY <1>3, <2>1 DEF Handle
  <2>2. CASE t = intake.turn /\ intake.pc \in {"readPhase", "readHeld", "write"}
    BY <1>3, <2>2 DEF PointerInv, InFlightKnows
  <2> QED
    BY <1>1, <1>3, <2>1, <2>2 DEF Next, IntakeStep, ConsumerStep, Publish, Accept, AcceptExisting,
       ReadHeldTurns, TurnIsLive, PointPlayerAtTurn, IntakeFails, Acknowledge, Nak, ReadPhase, Compose,
       WritePhase, RepairResolvedPointer, PointPlayerAtResolvedTurn, CallFails, vars
<1> QED BY <1>2, <1>3

(* What Submit answers "accepted" to is never lost: the turn it names      *)
(* exists, or its action is still on the stream, through dropped           *)
(* duplicates, expired windows, lost replies and failed deliveries.        *)
THEOREM AcceptanceIsKept == AdmissionSpec => []AcceptedIsNotLost
<1>1. AdmissionInit => StoredOnItsWay
  BY DEF AdmissionInit, StoredOnItsWay
<1>2. StoredOnItsWay /\ PointerInv /\ GatewayTypeOK /\ [AdmissionNext]_avars => StoredOnItsWay'
  <2> SUFFICES ASSUME StoredOnItsWay, PointerInv, GatewayTypeOK, [AdmissionNext]_avars,
                      NEW t \in window' \cup accepted'
               PROVE  OnItsWay(t)'
    BY DEF StoredOnItsWay
  <2>1. CASE t \in window \cup accepted
    <3>1. t \in Turns \ Malformed /\ OnItsWay(t)
      BY <2>1 DEF StoredOnItsWay, GatewayTypeOK
    <3> QED BY <3>1, OnItsWayStep
  <2>2. CASE t \notin window \cup accepted
    <3>1. PICK c \in Clients : PublishAction(c)
      BY <2>2 DEF AdmissionNext, GatewayStep, Submit, ReadPlayer, RefuseIfLive, Unavailable,
         WindowExpires, RecorderStep, gatewayVars, avars
    <3>2. t = sub[c].turn
      BY <2>2, <3>1 DEF PublishAction, StoreOnce
    <3>3. t \in actions'
      BY <2>2, <3>1, <3>2 DEF PublishAction, StoreOnce
    <3> QED BY <3>3 DEF OnItsWay
  <2> QED BY <2>1, <2>2
<1>3. StoredOnItsWay => AcceptedIsNotLost
  BY DEF StoredOnItsWay, OnItsWay, AcceptedIsNotLost
<1> QED BY <1>1, <1>2, <1>3, AdmissionTypes, PTL DEF AdmissionSpec

-----------------------------------------------------------------------------
(* No turn over a held one, with one transition in flight per turn.        *)

(* The held turn admission found over is over when it publishes: nothing   *)
(* brings an ended turn back while transitions of a turn do not overlap.   *)
HeldIsOver ==
  \A c \in Clients :
    /\ sub[c].pc = "readHeld" => phase[sub[c].held] # Absent
    /\ sub[c].pc = "publish" /\ sub[c].held # NoTurn => Terminal(sub[c].held)
    /\ sub[c].pc = "readPlayer" => sub[c].held = NoTurn

AdmitInv == FlightInv /\ GatewayTypeOK /\ HeldIsOver

LEMMA AdmitStep == ASSUME SingleFlight, AdmitInv, [AdmissionNext]_avars PROVE AdmitInv'
<1> USE RecorderAssumption DEF AdmitInv
<1>0. PointerInv /\ TypeOK /\ [Next]_vars
  BY StepRefinesRecorder DEF FlightInv, PointerInv
<1>1. FlightInv' /\ GatewayTypeOK'
  BY <1>0, GatewayTypeStep, FlightStep
<1>2. \A t \in Turns : (Terminal(t) => IsTerminal(phase'[t])) /\ (phase[t] # Absent => phase'[t] # Absent)
  BY <1>0, HopStep, CreatedStays DEF Terminal
<1>3. ASSUME NEW c \in Clients, sub'[c].pc # "idle", sub'[c] # sub[c]
      PROVE  /\ sub'[c].pc = "readHeld" => phase'[sub'[c].held] # Absent
             /\ sub'[c].pc = "publish" /\ sub'[c].held # NoTurn => IsTerminal(phase'[sub'[c].held])
             /\ sub'[c].pc = "readPlayer" => sub'[c].held = NoTurn
  <2>1. CASE \E r \in Requests, key \in KeysOf[c] : Submit(c, r, key)
    <3>1. PICK key \in KeysOf[c] :
            \/ sub' = [sub EXCEPT ![c] = [pc |-> "readPlayer", turn |-> TurnFor[<<SenderOf[c], key>>],
                                          held |-> NoTurn]]
            \/ sub' = [sub EXCEPT ![c] = IdleSub]
      BY <2>1 DEF Submit, Answered
    <3> QED BY <1>3, <3>1 DEF IdleSub, GatewayTypeOK
  <2>2. CASE ReadPlayer(c)
    <3>1. UNCHANGED phase /\ SenderOf[c] \in Players /\ sub[c].held = NoTurn
      BY <2>2, AdmissionAssumption DEF ReadPlayer, HeldIsOver, vars
    <3>2. current[SenderOf[c]] # NoTurn => phase[current[SenderOf[c]]] # Absent
      BY <1>0, <3>1 DEF PointerInv, PointersNameOwnTurns
    <3> QED BY <2>2, <3>1, <3>2 DEF ReadPlayer, GatewayTypeOK
  <2>3. CASE RefuseIfLive(c)
    <3>1. UNCHANGED phase /\ sub[c].held \in Turns /\ phase[sub[c].held] # Absent
      BY <2>3 DEF RefuseIfLive, HeldIsOver, GatewayTypeOK, vars
    <3>2. ~Live(sub[c].held) => Terminal(sub[c].held)
      BY <1>0, <3>1 DEF Live, Terminal, TypeOK
    <3>3. ~Live(sub[c].held) /\ sub'[c].pc = "publish" /\ sub'[c].held = sub[c].held
      BY <1>3, <2>3 DEF RefuseIfLive, Answered, Step, IdleSub, GatewayTypeOK
    <3> QED BY <3>1, <3>2, <3>3 DEF Terminal
  <2>4. CASE \E d \in Clients : d # c /\ GatewayStep(d)
    <3>1. PICK d \in Clients : d # c /\ GatewayStep(d)
      BY <2>4
    <3>2. CASE \E r \in Requests, key \in KeysOf[d] : Submit(d, r, key)
      <4>1. \E x : sub' = [sub EXCEPT ![d] = x]
        BY <3>2 DEF Submit, Answered
      <4> QED BY <1>3, <3>1, <4>1 DEF GatewayTypeOK
    <3>3. CASE ReadPlayer(d)
      BY <1>3, <3>1, <3>3 DEF ReadPlayer, GatewayTypeOK
    <3>4. CASE RefuseIfLive(d)
      BY <1>3, <3>1, <3>4 DEF RefuseIfLive, Answered, Step, GatewayTypeOK
    <3>5. CASE PublishAction(d) \/ Unavailable(d)
      BY <1>3, <3>1, <3>5 DEF PublishAction, Unavailable, Answered, GatewayTypeOK
    <3> QED BY <3>1, <3>2, <3>3, <3>4, <3>5 DEF GatewayStep
  <2>5. CASE PublishAction(c) \/ Unavailable(c)
    BY <1>3, <2>5 DEF PublishAction, Unavailable, Answered, IdleSub, GatewayTypeOK
  <2>6. CASE UNCHANGED sub
    BY <1>3, <2>6
  <2> QED
    BY <2>1, <2>2, <2>3, <2>4, <2>5, <2>6 DEF AdmissionNext, GatewayStep, WindowExpires, RecorderStep,
       gatewayVars, avars
<1>4. HeldIsOver'
  <2> SUFFICES ASSUME NEW c \in Clients
               PROVE  /\ sub'[c].pc = "readHeld" => phase'[sub'[c].held] # Absent
                      /\ sub'[c].pc = "publish" /\ sub'[c].held # NoTurn => IsTerminal(phase'[sub'[c].held])
                      /\ sub'[c].pc = "readPlayer" => sub'[c].held = NoTurn
    BY DEF HeldIsOver, Terminal
  <2>1. CASE sub'[c] = sub[c]
    <3>1. sub[c].held \in Turns \cup {NoTurn} /\ (sub[c].pc = "readHeld" => sub[c].held \in Turns)
      BY DEF GatewayTypeOK
    <3> QED BY <1>2, <2>1, <3>1 DEF HeldIsOver, Terminal
  <2> QED BY <1>3, <2>1
<1> QED BY <1>1, <1>4

(* With one transition in flight per turn, a player is not given a second  *)
(* turn over one they hold: admission publishes over a held turn that is   *)
(* the one it read only after that turn has ended (admit, refuseIfLive).   *)
THEOREM HeldTurnIsRespected == ASSUME SingleFlight PROVE AdmissionSpec => NoTurnOverHeldTurn
<1>1. AdmissionInit => AdmitInv
  <2>1. AdmissionInit => GatewayTypeOK /\ HeldIsOver
    BY RecorderAssumption DEF AdmissionInit, GatewayTypeOK, SubmissionKnows, HeldIsOver, IdleSub
  <2> QED BY <2>1, FlightInit DEF AdmissionInit, AdmitInv
<1>2. AdmitInv /\ [AdmissionNext]_avars => AdmitInv'
  BY AdmitStep
<1>3. AdmitInv /\ [AdmissionNext]_avars =>
        [\A c \in Clients :
           LET s == sub[c]
               held == current[SenderOf[c]]
           IN accepted' # accepted /\ s.pc = "publish" /\ sub'[c].pc = "idle"
                /\ s.held = held /\ held \notin {NoTurn, s.turn} => ~Live(held)]_avars
  BY DEF AdmitInv, HeldIsOver, Live, Terminal
<1> QED BY <1>1, <1>2, <1>3, PTL DEF AdmissionSpec, NoTurnOverHeldTurn

(* The recorder's theorems, of the composition: no player is moved off a   *)
(* turn that is still running ...                                          *)
THEOREM AdmissionKeepsLiveTurn == ASSUME SingleFlight PROVE AdmissionSpec => HeldTurnNotAbandoned
BY AdmissionRefinesRecorder, LiveTurnIsKept DEF ImplementsRecorder

(* ... and an answer is lost only where the recorder loses it.             *)
THEOREM AdmissionKeepsAnswers == ASSUME SingleFlight PROVE AdmissionSpec => AnswerIsKept
BY AdmissionRefinesRecorder, AnswersAreKept DEF ImplementsRecorder
=============================================================================
