-------------------------- MODULE MCCampaignLedger --------------------------
(***************************************************************************)
(* Instances of CampaignLedger for TLC.                                    *)
(***************************************************************************)
EXTENDS CampaignLedger

OneTurn == <<"t1">>
TwoTurns == <<"t1", "t2">>
=============================================================================
