----------------------------- MODULE MCTurnLoop -----------------------------
(***************************************************************************)
(* Instances of TurnLoop for TLC: which verdicts an adjudicator can return.*)
(***************************************************************************)
EXTENDS TurnLoop

RollVerdict == {"roll"}
EitherVerdict == {"roll", "auto"}
AutoVerdict == {"auto"}
OnlyAutoDeclines == [v \in Verdicts |-> v # "auto"]
=============================================================================
