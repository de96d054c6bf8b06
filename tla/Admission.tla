----------------------------- MODULE Admission -----------------------------
(***************************************************************************)
(* internal/gateway in front of internal/turn: a client's submission is    *)
(* decoded, checked against the turn its player holds, published to the    *)
(* action stream and answered (gateway.go Submit), while intake and the    *)
(* stage consumers of TurnRecorder create, point at, move and end turns.   *)
(*                                                                         *)
(* Admission reads the player and then the turn, and the publish is a      *)
(* third round trip, so other submissions and every consumer interleave    *)
(* between them.  The gateway replaces the recorder's unconstrained        *)
(* Publish: that the composition still implements TurnRecorder is checked  *)
(* as a refinement, and with it what is proved of the recorder holds here. *)
(***************************************************************************)
EXTENDS TurnRecorder

CONSTANTS
  Clients,     \* authenticated connections
  SenderOf,    \* the player each is bound to
  Keys,        \* idempotency keys
  KeysOf,      \* the keys each client sends
  TurnFor,     \* the turn of a player's key
  Requests     \* the requests a client can send, as Decode sees them

(* ActionIDFor hashes the framed player and key, and TurnIDForAction       *)
(* prefixes the result: distinct pairs have distinct turns, and a pair     *)
(* always the same one.  Submit validates the action it composes, so none  *)
(* is malformed.                                                           *)
ASSUME AdmissionAssumption ==
  /\ SenderOf \in [Clients -> Players]
  /\ KeysOf \in [Clients -> SUBSET Keys]
  /\ TurnFor \in [Players \X Keys -> Turns \ Malformed]
  /\ \A x, y \in Players \X Keys : TurnFor[x] = TurnFor[y] => x = y
  /\ \A x \in Players \X Keys : PlayerOf[TurnFor[x]] = x[1]

VARIABLES
  sub,        \* client -> the submission it is waiting on
  window,     \* action ids the stream still recognises as duplicates
  accepted    \* turns some client was told were accepted (history)

gatewayVars == <<sub, window, accepted>>
avars == <<vars, gatewayVars>>

IdleSub == [pc |-> "idle", turn |-> NoTurn, held |-> NoTurn]

(* Every variable has its type, and a submission past its first read is    *)
(* for a turn of the sender, as the key derives it.                        *)
AdmissionTypeOK ==
  /\ TypeOK
  /\ sub \in [Clients -> [pc : {"idle", "readPlayer", "readHeld", "publish"},
                          turn : Turns \cup {NoTurn}, held : Turns \cup {NoTurn}]]
  /\ window \subseteq Turns
  /\ accepted \subseteq Turns
  /\ \A c \in Clients : sub[c].pc # "idle" => PlayerOf[sub[c].turn] = SenderOf[c]

AdmissionInit ==
  /\ Init
  /\ sub = [c \in Clients |-> IdleSub]
  /\ window = {}
  /\ accepted = {}

Step(c, pc) == sub' = [sub EXCEPT ![c].pc = pc]
(* The response leaves; only what it promises is remembered.               *)
Answered(c) == sub' = [sub EXCEPT ![c] = IdleSub]

-----------------------------------------------------------------------------
(* UnmarshalJSON: the field names, among which a server-owned one is       *)
(* reported before an unknown one.                                         *)
Unmarshal(r) == IF ~r.object THEN "malformed-request"
                ELSE IF "server" \in r.fields THEN "server-owned-field"
                ELSE IF "unknown" \in r.fields THEN "unknown-field"
                ELSE "ok"

(* Validate: the protocol, the text and the key, in this order.            *)
Validate(r) == IF ~r.protocol THEN "unsupported-protocol"
               ELSE IF ~r.text \/ ~r.key THEN "invalid-field"
               ELSE "ok"

(* decode: the size cap comes before anything is parsed.                   *)
Decode(r) == IF r.oversize THEN "malformed-request"
             ELSE IF Unmarshal(r) # "ok" THEN Unmarshal(r)
             ELSE Validate(r)

(* Submit begins: a request that does not decode is refused and nothing    *)
(* is read; any other is given the action id its key derives.              *)
Submit(c, r, key) ==
  /\ sub[c].pc = "idle"
  /\ IF Decode(r) = "ok"
       THEN sub' = [sub EXCEPT ![c] = [pc |-> "readPlayer", turn |-> TurnFor[<<SenderOf[c], key>>],
                                       held |-> NoTurn]]
       ELSE Answered(c)
  /\ UNCHANGED <<vars, window, accepted>>

(* admit: the turn the player holds.  The submission's own turn is not in  *)
(* its way: a retry of an accepted action is answered, not refused.        *)
ReadPlayer(c) ==
  /\ sub[c].pc = "readPlayer"
  /\ LET held == current[SenderOf[c]] IN
       sub' = IF held \in {NoTurn, sub[c].turn}
                THEN [sub EXCEPT ![c].pc = "publish"]
                ELSE [sub EXCEPT ![c] = [pc |-> "readHeld", turn |-> @.turn, held |-> held]]
  /\ UNCHANGED <<vars, window, accepted>>

(* Mutant of RefuseIfLive: only a turn that was never started blocks.      *)
RefuseIfLiveAccepted(c) ==
  /\ sub[c].pc = "readHeld"
  /\ IF phase[sub[c].held] = "accepted"
       THEN Answered(c)
       ELSE Step(c, "publish")
  /\ UNCHANGED <<vars, window, accepted>>

(* refuseIfLive: a held turn that has not ended refuses the submission and *)
(* is named; one that has ended, or is gone, does not.                     *)
RefuseIfLive(c) ==
  /\ sub[c].pc = "readHeld"
  /\ IF Live(sub[c].held)
       THEN Answered(c)
       ELSE Step(c, "publish")
  /\ UNCHANGED <<vars, window, accepted>>

(* The stream drops a message whose id it still remembers; the publisher   *)
(* is acknowledged either way.                                             *)
StoreOnce(t) ==
  /\ actions' = IF t \in window THEN actions ELSE actions \cup {t}
  /\ window' = window \cup {t}

(* Mutant of PublishAction: the client is answered before the publish.     *)
PublishActionAnswersFirst(c) ==
  /\ sub[c].pc = "publish"
  /\ \/ StoreOnce(sub[c].turn)
     \/ Faulty /\ UNCHANGED <<actions, window>>
  /\ Answered(c)
  /\ accepted' = accepted \cup {sub[c].turn}
  /\ UNCHANGED <<phase, stamp, ended, current, resolved, intake, op, clock>>

(* Mutant of PublishAction: an acceptance clears the player's last answer. *)
PublishActionClearsAnswer(c) ==
  /\ sub[c].pc = "publish"
  /\ StoreOnce(sub[c].turn)
  /\ Answered(c)
  /\ accepted' = accepted \cup {sub[c].turn}
  /\ resolved' = [resolved EXCEPT ![SenderOf[c]] = NoTurn]
  /\ UNCHANGED <<phase, stamp, ended, current, intake, op, clock>>

(* publish under the action id, and the acceptance.  A publish whose reply *)
(* is lost has stored the action and is answered as unavailable.           *)
PublishAction(c) ==
  /\ sub[c].pc = "publish"
  /\ StoreOnce(sub[c].turn)
  /\ Answered(c)
  /\ \/ accepted' = accepted \cup {sub[c].turn}
     \/ Faulty /\ UNCHANGED accepted
  /\ UNCHANGED <<phase, stamp, ended, current, resolved, intake, op, clock>>

(* unavailable: a read or the publish failed and nothing was stored.       *)
Unavailable(c) ==
  /\ Faulty
  /\ sub[c].pc # "idle"
  /\ Answered(c)
  /\ UNCHANGED <<vars, window, accepted>>

(* The stream forgets an action id once its duplicate window has passed.   *)
WindowExpires(t) ==
  /\ t \in window
  /\ window' = window \ {t}
  /\ UNCHANGED <<vars, sub, accepted>>

GatewayStep(c) == \/ \E r \in Requests, key \in KeysOf[c] : Submit(c, r, key)
                  \/ ReadPlayer(c) \/ RefuseIfLive(c) \/ PublishAction(c) \/ Unavailable(c)

RecorderStep == /\ \/ \E t \in Turns : Handle(t)
                   \/ IntakeStep
                   \/ \E c \in Consumers : ConsumerStep(c)
                /\ UNCHANGED gatewayVars

AdmissionNext == \/ \E c \in Clients : GatewayStep(c)
                 \/ \E t \in Turns : WindowExpires(t)
                 \/ RecorderStep

AdmissionSpec == AdmissionInit /\ [][AdmissionNext]_avars

-----------------------------------------------------------------------------
(* What the gateway promises.                                              *)

(* An acceptance is a promise: the turn it names exists, or its action is  *)
(* still on the stream, although the stream may have dropped this publish  *)
(* as a duplicate of one that intake had already consumed, and the client  *)
(* who published first may have been told the engine was unavailable.      *)
AcceptedIsNotLost ==
  \A t \in accepted : t \in actions \/ phase[t] # Absent

(* A player is not given a second turn over one they hold: when the player *)
(* pointer has not moved since admission read it, an action is published   *)
(* only if the turn it names has ended by then or is the action's own.     *)
NoTurnOverHeldTurn ==
  [][\A c \in Clients :
       LET s == sub[c]
           held == current[SenderOf[c]]
       IN accepted' # accepted /\ s.pc = "publish" /\ sub'[c].pc = "idle"
            /\ s.held = held /\ held \notin {NoTurn, s.turn} => ~Live(held)]_avars

(* Refinement: with the gateway as the only ingress, the composed system   *)
(* does nothing to turns, pointers and the stream that TurnRecorder does   *)
(* not allow.                                                              *)
ImplementsRecorder == Spec
=============================================================================
