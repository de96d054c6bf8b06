---------------------------- MODULE TurnProgress ----------------------------
(***************************************************************************)
(* What the engine promises about one turn, whatever machinery moves it:   *)
(* the turn carries a growing record, and enters a stage only along a      *)
(* legal hop and only when the record holds everything the earlier stages  *)
(* owe (internal/vocabulary/artifacts.go and the conditions of the rule    *)
(* pack).  It may be failed at any time.  The phase guard converges and    *)
(* does not exclude (turn/doc.go): a failure decided while the turn lived  *)
(* may be written over its completion, and a stage that read the phase     *)
(* before a failure was written may still enter after it.  Whatever wins,  *)
(* the phase never outruns the record.  TurnLoop implements this.          *)
(***************************************************************************)
EXTENDS TurnPhases

VARIABLES
  phase,   \* the turn's recorded phase
  record   \* the artifacts recorded on it

(* The artifacts a turn has when it is in a phase.                         *)
AfterApplying == {"case-decision", "verdict", "batch", "knowledge", "accusation", "case-progress"}
Owed == [p \in Phases |->
  CASE p = "adjudicating" -> {"case-decision"}
    [] p \in {"resolving", "applying"} -> {"case-decision", "verdict"}
    [] p = "companion" -> AfterApplying
    [] p = "narrating" -> AfterApplying \cup {"companion"}
    [] p = "complete"  -> AfterApplying \cup {"companion", "narration"}
    [] OTHER -> {}]

Init == phase = "accepted" /\ record = {}

Deposit == UNCHANGED phase /\ record \subseteq record' /\ record' # record

Enter(p) ==
  /\ p # "failed"
  /\ PhaseFollows(phase, p)
  /\ Owed[p] \subseteq record
  /\ phase' = p
  /\ UNCHANGED record

Fail ==
  /\ phase # "failed"
  /\ phase' = "failed"
  /\ UNCHANGED record

(* The late write of a stage that had classified its hop while the turn    *)
(* was alive: the turn leaves "failed", with the record the stage needs.   *)
Revive(p) ==
  /\ phase = "failed"
  /\ p \notin {"accepted", "failed"}
  /\ Owed[p] \subseteq record
  /\ phase' = p
  /\ UNCHANGED record

Next == Deposit \/ Fail \/ \E p \in Phases : Enter(p) \/ Revive(p)

Spec == Init /\ [][Next]_<<phase, record>>
=============================================================================
