---------------------------- MODULE MCAdmission ----------------------------
(* Instances of Admission for TLC.                                         *)
EXTENDS Admission

TheKeys == {"k1", "k2"}
TurnOfKey == [x \in Players \X TheKeys |-> IF x[2] = "k1" THEN "t1" ELSE "t2"]
OneOwner == [t \in Turns |-> "p1"]
OwnKey == [c \in Clients |-> IF c = "c1" THEN {"k1"} ELSE {"k2"}]
Bound == [c \in Clients |-> "p1"]

(* One consumer that moves turns and ends them; what more of them can do   *)
(* to the recorder is proved in AdmissionProofs.                           *)
OneEngine == [c \in Consumers |-> {"interpreting", "failed"}]

Good == [oversize |-> FALSE, object |-> TRUE, fields |-> {"client"},
         protocol |-> TRUE, text |-> TRUE, key |-> TRUE]
GoodOrBad == {Good, [Good EXCEPT !.fields = {"client", "server", "unknown"}]}
=============================================================================
