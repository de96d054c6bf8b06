----------------------------- MODULE TurnPhases -----------------------------
(***************************************************************************)
(* The turn state machine as data: the closed set of phases, their order,  *)
(* the legal predecessors of each, and what a proposed transition means.   *)
(* internal/vocabulary/phases.go states the tables and                     *)
(* internal/turn/recorder.go (classify) reads them.  Everything here is    *)
(* constant-level; the modules that move a turn EXTEND this one.           *)
(***************************************************************************)
EXTENDS Naturals, FiniteSets

Phases == {"accepted", "interpreting", "adjudicating", "resolving",
           "applying", "companion", "narrating", "complete", "failed"}

(* Both terminal phases share the last rank: which way a turn ended does   *)
(* not make it more or less past its stages.                               *)
Rank == [p \in Phases |->
           CASE p = "accepted"     -> 0
             [] p = "interpreting" -> 1
             [] p = "adjudicating" -> 2
             [] p = "resolving"    -> 3
             [] p = "applying"     -> 4
             [] p = "companion"    -> 5
             [] p = "narrating"    -> 6
             [] OTHER              -> 7]

TerminalPhases == {"complete", "failed"}

IsTerminal(p) == p \in TerminalPhases

(* Nothing transitions into "accepted": it is written by the turn entity's *)
(* atomic create.  "applying" admits "adjudicating" because a no-roll      *)
(* verdict skips the dice.                                                 *)
Predecessors == [p \in Phases |->
           CASE p = "accepted"     -> {}
             [] p = "interpreting" -> {"accepted"}
             [] p = "adjudicating" -> {"interpreting"}
             [] p = "resolving"    -> {"adjudicating"}
             [] p = "applying"     -> {"adjudicating", "resolving"}
             [] p = "companion"    -> {"applying"}
             [] p = "narrating"    -> {"companion"}
             [] p = "complete"     -> {"narrating"}
             [] OTHER              -> Phases \ TerminalPhases]

PhaseFollows(from, to) == from \in Predecessors[to]

(* What a guarded transition answers: it moves the turn ("advanced"), finds*)
(* it already there ("resumed"), is late ("declined"), or is a wiring bug  *)
(* ("skipped-stage", "unknown-phase").  The order of the tests is the      *)
(* code's: a terminal turn declines everything, its own ending included.   *)
Classify(previous, to) ==
  CASE previous \notin Phases \/ to \notin Phases -> "unknown-phase"
    [] OTHER -> IF IsTerminal(previous) THEN "declined"
                ELSE IF previous = to THEN "resumed"
                ELSE IF PhaseFollows(previous, to) THEN "advanced"
                ELSE IF Rank[previous] > Rank[to] THEN "declined"
                ELSE "skipped-stage"

Outcomes == {"advanced", "resumed", "declined"}
Faults == {"unknown-phase", "skipped-stage"}

(* Advance refuses two targets outright, before the turn is read: accepted *)
(* is created and never advanced to, and failed needs a reason (Fail).     *)
Advanceable == Phases \ {"accepted", "failed"}
=============================================================================
