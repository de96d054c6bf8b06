--------------------------- MODULE MCCampaignBoot ---------------------------
(***************************************************************************)
(* Instances of CampaignBoot for TLC: the processes e1 and e2 select one   *)
(* experience, any other process a different one.                          *)
(***************************************************************************)
EXTENDS CampaignBoot

HeroThenBond == <<"hero", "bond">>
OnlyHero == {"hero"}
OthersDiffer == [e \in Engines |-> IF e \in {"e1", "e2"} THEN "cosy" ELSE "grim"]
=============================================================================
