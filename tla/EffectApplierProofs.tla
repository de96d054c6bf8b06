------------------------- MODULE EffectApplierProofs -------------------------
(***************************************************************************)
(* What a batch may do to the world, for every set of turns, entities and  *)
(* predicates, every batch and any number of failed round trips.           *)
(***************************************************************************)
EXTENDS EffectApplier, TLAPS

Worlds == [Entities -> [Predicates -> SUBSET Objects]]

(* A plan keeps the world's shape, and agrees with the world it was read   *)
(* from on every fact the batch does not name (foldValue, entryFor).       *)
LEMMA PlanIsTyped ==
  ASSUME NEW b \in Seq(Intents), NEW w \in Worlds
  PROVE  Planned(b, w) \in Worlds
<1>1. ASSUME NEW e \in Entities, NEW p \in Predicates
      PROVE  FoldValue(b, e, p, w[e][p]) \in SUBSET Objects
  <2>1. w[e][p] \in SUBSET Objects
    BY DEF Worlds
  <2>2. \A i \in DOMAIN b : b[i] \in Intents
    OBVIOUS
  <2>3. \A n \in Named(b, e, p) : n.object \in Objects
    BY <2>2 DEF Named, Intents
  <2> QED BY <2>1, <2>3 DEF FoldValue
<1> QED BY <1>1 DEF Planned, Worlds

LEMMA PlanKeepsUnnamed ==
  ASSUME NEW b \in Seq(Intents), NEW w \in Worlds,
         NEW e \in Entities, NEW p \in Predicates, NEW o \in Objects, ~NamedIn(b, e, p, o)
  PROVE  (o \in Planned(b, w)[e][p]) <=> (o \in w[e][p])
<1>1. Planned(b, w)[e][p] = FoldValue(b, e, p, w[e][p])
  BY DEF Planned
<1>2. CASE Named(b, e, p) = {}
  BY <1>1, <1>2 DEF FoldValue
<1>3. CASE Named(b, e, p) # {}
  <2>1. p \in MultiValued /\ \A n \in Named(b, e, p) : n.object # o
    BY <1>3 DEF Named, NamedIn
  <2> QED BY <1>1, <1>3, <2>1 DEF FoldValue
<1> QED BY <1>2, <1>3

(* What an accepted batch names is, in the plan, as the batch puts it,     *)
(* whatever the plan was read from.                                        *)
LEMMA PlanObeysBatch ==
  ASSUME NEW b \in Seq(Intents), NEW w \in Worlds, ~Contradicts(b),
         NEW e \in Entities, NEW p \in Predicates, NEW o \in Objects, NamedIn(b, e, p, o)
  PROVE  (o \in Planned(b, w)[e][p]) <=> Puts(b, e, p, o)
<1> DEFINE puts == {n.object : n \in {m \in Named(b, e, p) : m.op = "put"}}
           drops == {n.object : n \in {m \in Named(b, e, p) : m.op = "drop"}}
<1>1. Planned(b, w)[e][p] = FoldValue(b, e, p, w[e][p])
  BY DEF Planned
<1>2. Named(b, e, p) # {}
  BY DEF Named, NamedIn
<1>3. Puts(b, e, p, o) <=> o \in puts
  <2>1. ASSUME Puts(b, e, p, o) PROVE o \in puts
    <3>1. PICK i \in DOMAIN b : b[i] = [target |-> e, predicate |-> p, op |-> "put", object |-> o]
      BY <2>1 DEF Puts
    <3>2. b[i] \in Named(b, e, p) /\ b[i].op = "put" /\ b[i].object = o
      BY <3>1 DEF Named
    <3> QED BY <3>2
  <2>2. ASSUME o \in puts PROVE Puts(b, e, p, o)
    <3>1. PICK i \in DOMAIN b : b[i].target = e /\ b[i].predicate = p /\ b[i].op = "put" /\ b[i].object = o
      BY <2>2 DEF Named
    <3>2. b[i] \in Intents
      OBVIOUS
    <3>3. b[i] = [target |-> e, predicate |-> p, op |-> "put", object |-> o]
      BY <3>1, <3>2 DEF Intents
    <3> QED BY <3>3 DEF Puts
  <2> QED BY <2>1, <2>2
<1>4. CASE p \in MultiValued
  <2>1. FoldValue(b, e, p, w[e][p]) = (w[e][p] \ drops) \cup puts
    BY <1>2, <1>4 DEF FoldValue
  <2>2. o \in puts \/ o \in drops
    <3>1. PICK i \in DOMAIN b : b[i].target = e /\ b[i].predicate = p /\ b[i].object = o
      BY <1>4 DEF NamedIn
    <3>2. b[i] \in Named(b, e, p) /\ b[i].op \in {"put", "drop"}
      <4>1. b[i] \in Intents
        OBVIOUS
      <4> QED BY <3>1, <4>1 DEF Named, Intents
    <3> QED BY <3>1, <3>2
  <2> HIDE DEF puts, drops
  <2> QED BY <1>1, <1>3, <2>1, <2>2
<1>5. CASE p \notin MultiValued
  <2>1. FoldValue(b, e, p, w[e][p]) = puts
    BY <1>2, <1>5 DEF FoldValue
  <2> QED BY <1>1, <1>3, <2>1
<1> QED BY <1>4, <1>5

(* One write, of the family x[2] of the entity x[1].                       *)
Written(w, x, plan) ==
  [w EXCEPT ![x[1]] = [p \in Predicates |-> IF Family[p] = x[2] THEN plan[x[1]][p] ELSE @[p]]]

LEMMA WriteIsTyped ==
  ASSUME NEW w \in Worlds, NEW plan \in Worlds, NEW x
  PROVE  Written(w, x, plan) \in Worlds
<1>1. CASE x[1] \in Entities
  BY <1>1 DEF Written, Worlds
<1>2. CASE x[1] \notin Entities
  BY <1>2 DEF Written, Worlds
<1> QED BY <1>1, <1>2

LEMMA WriteReplacesFamily ==
  ASSUME NEW w \in Worlds, NEW plan \in Worlds, NEW x, NEW e \in Entities, NEW p \in Predicates
  PROVE  Written(w, x, plan)[e][p] = IF e = x[1] /\ Family[p] = x[2] THEN plan[e][p] ELSE w[e][p]
<1>1. CASE x[1] \in Entities
  BY <1>1 DEF Written, Worlds
<1>2. CASE x[1] \notin Entities
  BY <1>2 DEF Written, Worlds
<1> QED BY <1>1, <1>2

-----------------------------------------------------------------------------
(* What a delivery in flight knows.  Its batch was accepted by the plan    *)
(* and carries no marker yet, and its plan, however many of its writes     *)
(* have landed, agrees with the world on everything the batch does not     *)
(* name: no other turn writes while it is in flight.                       *)
FlightKnows ==
  /\ op.pc = "write" =>
       /\ op.plan \in Worlds
       /\ ~Rejects(batch[op.turn])
       /\ ~Contains(marked, op.turn)
       /\ \A e \in Entities, p \in Predicates, o \in Objects :
            ~NamedIn(batch[op.turn], e, p, o) => ((o \in op.plan[e][p]) <=> (o \in world[e][p]))
  /\ op.pc = "refuse" =>
       /\ op.reason \in {"effect-invalid", "effect-commit-incomplete"}
       /\ op.reason = "effect-invalid" => Rejects(batch[op.turn])

(* Rejection is decided by the batch alone, so a batch that was rejected   *)
(* is never one that wrote.                                                *)
RejectionIsFinal ==
  /\ \A t \in wrote : ~Rejects(batch[t])
  /\ \A t \in Turns : status[t] = "effect-invalid" => Rejects(batch[t])

ApplierInv == TypeOK /\ MarkedOnce /\ FlightKnows /\ RejectionIsFinal

LEMMA InitInv == Init => ApplierInv
<1> SUFFICES ASSUME Init PROVE ApplierInv
  OBVIOUS
<1>1. TypeOK
  BY ApplierAssumption DEF Init, TypeOK, IdleOp, Running
<1>2. MarkedOnce /\ FlightKnows /\ RejectionIsFinal
  BY DEF Init, MarkedOnce, FlightKnows, RejectionIsFinal, IdleOp
<1> QED BY <1>1, <1>2 DEF ApplierInv

LEMMA ApplyStep == ASSUME ApplierInv, NEW t \in Turns, Apply(t) PROVE ApplierInv'
<1> USE ApplierAssumption
<1>0. /\ UNCHANGED <<world, batch, status, marked, wrote, faults>>
      /\ TypeOK /\ t \in pending /\ MarkedOnce /\ RejectionIsFinal
  BY DEF Apply, ApplierInv
<1>1. MarkedOnce' /\ RejectionIsFinal'
  BY <1>0 DEF MarkedOnce, RejectionIsFinal
<1>2. CASE status[t] # "applying" \/ Contains(marked, t)
  <2>1. pending' = pending \ {t} /\ op' = IdleOp
    BY <1>2 DEF Apply, Ack
  <2> QED BY <1>0, <1>1, <2>1 DEF ApplierInv, TypeOK, FlightKnows, IdleOp, Running
<1>3. CASE ~(status[t] # "applying" \/ Contains(marked, t)) /\ Rejects(batch[t])
  <2>1. op' = [pc |-> "refuse", turn |-> t, reason |-> "effect-invalid"] /\ UNCHANGED pending
    BY <1>3 DEF Apply
  <2>2. Rejects(batch[t])'
    BY <1>0, <1>3 DEF Rejects, Contradicts
  <2> QED BY <1>0, <1>1, <2>1, <2>2 DEF ApplierInv, TypeOK, FlightKnows, IdleOp, Running
<1>4. CASE ~(status[t] # "applying" \/ Contains(marked, t)) /\ ~Rejects(batch[t])
  <2>1. /\ op' = [pc |-> "write", turn |-> t, todo |-> Projections(batch[t]),
                 plan |-> Planned(batch[t], world)]
        /\ UNCHANGED pending
    BY <1>4 DEF Apply
  <2>2. batch[t] \in Seq(Intents) /\ world \in Worlds
    BY <1>0 DEF TypeOK, Worlds
  <2>3. TypeOK'
    BY <1>0, <2>1 DEF TypeOK, Running, IdleOp
  <2>4. FlightKnows'
    <3>1. op'.plan \in Worlds
      BY <2>1, <2>2, PlanIsTyped
    <3>2. \A e \in Entities, p \in Predicates, o \in Objects :
            ~NamedIn(batch[t], e, p, o) => ((o \in op'.plan[e][p]) <=> (o \in world[e][p]))
      BY <2>1, <2>2, PlanKeepsUnnamed
    <3> QED BY <1>0, <1>4, <2>1, <3>1, <3>2 DEF FlightKnows
  <2> QED BY <1>1, <2>3, <2>4 DEF ApplierInv
<1> QED BY <1>2, <1>3, <1>4

(* A failed round trip leaves the delivery nak'd or the turn about to end  *)
(* as incomplete.                                                          *)
LEMMA CommitErrorOutcomes ==
  ASSUME ApplierInv, CommitError
  PROVE  /\ pending' = pending /\ faults' \in 0 .. MaxFaults
         /\ \/ op' = IdleOp
            \/ op' = [pc |-> "refuse", turn |-> op.turn, reason |-> "effect-commit-incomplete"]
  BY ApplierAssumption DEF ApplierInv, TypeOK, CommitError, Fault, Nak

LEMMA WriteStep == ASSUME ApplierInv, WriteTarget PROVE ApplierInv'
<1> USE ApplierAssumption
<1>0. /\ op.pc = "write" /\ UNCHANGED <<batch, status, marked>>
      /\ TypeOK /\ MarkedOnce /\ RejectionIsFinal /\ FlightKnows
      /\ op.turn \in pending /\ pending \subseteq Turns
  BY DEF WriteTarget, ApplierInv, TypeOK, Running
<1>1. MarkedOnce'
  BY <1>0 DEF MarkedOnce
<1>2. \/ UNCHANGED <<world, wrote>> /\ CommitError
      \/ /\ world' \in Worlds
         /\ \A e \in Entities, p \in Predicates :
              world'[e][p] = world[e][p] \/ world'[e][p] = op.plan[e][p]
         /\ wrote' = wrote \cup {op.turn}
         /\ \/ /\ op'.pc = "write" /\ op'.turn = op.turn /\ op'.plan = op.plan
               /\ UNCHANGED <<pending, faults>>
            \/ CommitError
  <2>1. world \in Worlds /\ op.plan \in Worlds
    BY <1>0 DEF TypeOK, FlightKnows, Worlds
  <2>2. PICK x \in op.todo :
          \/ /\ world' = Written(world, x, op.plan)
             /\ wrote' = wrote \cup {op.turn}
             /\ \/ /\ op' = [pc |-> "write", turn |-> op.turn, todo |-> op.todo \ {x}, plan |-> op.plan]
                   /\ UNCHANGED <<pending, faults>>
                \/ CommitError
          \/ CommitError /\ UNCHANGED <<world, wrote>>
    BY DEF WriteTarget, Written
  <2>3. /\ Written(world, x, op.plan) \in Worlds
        /\ \A e \in Entities, p \in Predicates :
             Written(world, x, op.plan)[e][p] \in {world[e][p], op.plan[e][p]}
    BY <2>1, WriteIsTyped, WriteReplacesFamily
  <2> QED BY <2>2, <2>3
<1>3. RejectionIsFinal'
  BY <1>0, <1>2 DEF RejectionIsFinal, FlightKnows, Rejects, Contradicts
<1>4. CASE CommitError
  <2>1. world' \in Worlds /\ wrote' \subseteq Turns
    BY <1>0, <1>2 DEF TypeOK, Worlds
  <2>2. TypeOK'
    BY <1>0, <1>4, <2>1, CommitErrorOutcomes DEF TypeOK, Running, IdleOp, Worlds
  <2>3. FlightKnows'
    BY <1>4, CommitErrorOutcomes DEF FlightKnows, IdleOp
  <2> QED BY <1>1, <1>3, <2>2, <2>3 DEF ApplierInv
<1>5. CASE ~CommitError
  <2>1. TypeOK'
    BY <1>0, <1>2, <1>5 DEF TypeOK, Running, IdleOp, Worlds
  <2>2. FlightKnows'
    <3>1. /\ op'.pc = "write" /\ op'.turn = op.turn /\ op'.plan = op.plan
      BY <1>2, <1>5
    <3>2. \A e \in Entities, p \in Predicates, o \in Objects :
            ~NamedIn(batch[op.turn], e, p, o) => ((o \in op.plan[e][p]) <=> (o \in world'[e][p]))
      BY <1>0, <1>2, <1>5 DEF FlightKnows
    <3> QED BY <1>0, <3>1, <3>2 DEF FlightKnows
  <2> QED BY <1>1, <1>3, <2>1, <2>2 DEF ApplierInv
<1> QED BY <1>4, <1>5

LEMMA MarkStep == ASSUME ApplierInv, MarkTurn PROVE ApplierInv'
<1> USE ApplierAssumption
<1>0. /\ op.pc = "write" /\ UNCHANGED <<world, batch, status, wrote>>
      /\ TypeOK /\ MarkedOnce /\ RejectionIsFinal /\ FlightKnows
      /\ op.turn \in pending /\ op.turn \in Turns /\ marked \in Seq(Turns)
  BY DEF MarkTurn, ApplierInv, TypeOK, Running
<1>1. /\ marked' = marked \/ marked' = Append(marked, op.turn)
      /\ \/ CommitError
         \/ pending' = pending \ {op.turn} /\ op' = IdleOp /\ UNCHANGED faults
  BY DEF MarkTurn, Ack
<1>2. MarkedOnce' /\ marked' \in Seq(Turns)
  <2>1. CASE marked' = marked
    BY <1>0, <2>1 DEF MarkedOnce
  <2>2. CASE marked' = Append(marked, op.turn)
    <3>1. \A i \in 1 .. Len(marked) : marked[i] # op.turn
      BY <1>0 DEF FlightKnows, Contains
    <3>2. /\ DOMAIN marked' = 1 .. Len(marked) + 1 /\ DOMAIN marked = 1 .. Len(marked)
          /\ \A i \in 1 .. Len(marked) : marked'[i] = marked[i]
          /\ marked'[Len(marked) + 1] = op.turn
          /\ Len(marked) \in Nat
          /\ marked' \in Seq(Turns)
      BY <1>0, <2>2
    <3> QED BY <1>0, <3>1, <3>2 DEF MarkedOnce
  <2> QED BY <1>1, <2>1, <2>2
<1>3. RejectionIsFinal'
  BY <1>0 DEF RejectionIsFinal, Rejects, Contradicts
<1>4. TypeOK' /\ FlightKnows'
  <2>1. CASE CommitError
    BY <1>0, <1>2, <2>1, CommitErrorOutcomes DEF TypeOK, Running, FlightKnows, IdleOp
  <2>2. CASE ~CommitError
    BY <1>0, <1>1, <1>2, <2>2 DEF TypeOK, Running, FlightKnows, IdleOp
  <2> QED BY <2>1, <2>2
<1> QED BY <1>2, <1>3, <1>4 DEF ApplierInv

LEMMA InvStep == ASSUME ApplierInv, [Next]_vars PROVE ApplierInv'
<1> USE ApplierAssumption
<1>1. CASE Refuse
  <2>1. /\ op' = IdleOp /\ faults' \in 0 .. MaxFaults /\ pending' \subseteq pending
        /\ UNCHANGED <<world, batch, marked, wrote>>
        /\ status' = status \/ status' = [status EXCEPT ![op.turn] = op.reason]
    BY <1>1 DEF Refuse, Ack, Nak, Fault, ApplierInv, TypeOK
  <2>2. /\ op.turn \in Turns /\ op.reason \in {"effect-invalid", "effect-commit-incomplete"}
        /\ op.reason = "effect-invalid" => Rejects(batch[op.turn])
    BY <1>1 DEF Refuse, ApplierInv, FlightKnows, TypeOK, Running, IdleOp
  <2>3. TypeOK' /\ MarkedOnce' /\ FlightKnows'
    BY <2>1, <2>2 DEF ApplierInv, TypeOK, MarkedOnce, FlightKnows, IdleOp, Running
  <2>4. RejectionIsFinal'
    <3>1. \A t \in Turns : status'[t] = "effect-invalid" =>
            status[t] = "effect-invalid" \/ (t = op.turn /\ op.reason = "effect-invalid")
      BY <2>1, <2>2 DEF ApplierInv, TypeOK
    <3> QED BY <2>1, <2>2, <3>1 DEF ApplierInv, RejectionIsFinal
  <2> QED BY <2>3, <2>4 DEF ApplierInv
<1>2. ASSUME NEW t \in Turns, Retrigger(t) PROVE ApplierInv'
  <2>1. /\ pending' = pending \cup {t} /\ faults' \in 0 .. MaxFaults
        /\ UNCHANGED <<world, batch, status, marked, wrote, op>>
    BY <1>2 DEF Retrigger, Fault, ApplierInv, TypeOK
  <2>2. TypeOK' /\ MarkedOnce' /\ FlightKnows'
    BY <2>1 DEF ApplierInv, TypeOK, MarkedOnce, FlightKnows, IdleOp, Running
  <2>3. RejectionIsFinal'
    BY <2>1 DEF ApplierInv, RejectionIsFinal
  <2> QED BY <2>2, <2>3 DEF ApplierInv
<1>3. CASE UNCHANGED vars
  BY <1>3 DEF vars, ApplierInv, TypeOK, MarkedOnce, FlightKnows, RejectionIsFinal, Running
<1> QED BY <1>1, <1>2, <1>3, ApplyStep, WriteStep, MarkStep DEF Next

LEMMA InvHolds == Spec => []ApplierInv
  BY InitInv, InvStep, PTL DEF Spec

-----------------------------------------------------------------------------
(* The state is well typed, and a running delivery is unacknowledged.      *)
THEOREM TypeCorrect == Spec => []TypeOK
  BY InvHolds, PTL DEF ApplierInv

(* alreadyApplied: no batch is ever marked twice.                          *)
THEOREM BatchesAreMarkedOnce == Spec => []MarkedOnce
  BY InvHolds, PTL DEF ApplierInv

(* Apply's contract: a batch rejected on validation grounds never wrote.   *)
THEOREM RejectionWritesNothing == Spec => []RejectedChangesNothing
<1>1. ApplierInv => RejectedChangesNothing
  BY DEF ApplierInv, TypeOK, RejectionIsFinal, RejectedChangesNothing
<1> QED BY <1>1, InvHolds, PTL

(* commit: every write replaces a whole family, and yet changes no fact    *)
(* its batch does not name.                                                *)
THEOREM OnlyNamedChange == Spec => OnlyNamedFactsChange
<1> DEFINE Named1 == \A e \in Entities, p \in Predicates, o \in Objects :
                       (o \in world[e][p]) # (o \in world'[e][p]) => NamedIn(batch[op.turn], e, p, o)
<1>1. ASSUME ApplierInv, [Next]_vars PROVE [Named1]_vars
  <2>1. CASE WriteTarget
    <3>1. \A e \in Entities, p \in Predicates :
            world'[e][p] = world[e][p] \/ world'[e][p] = op.plan[e][p]
      BY <1>1, <2>1 DEF WriteTarget, ApplierInv, TypeOK
    <3>2. \A e \in Entities, p \in Predicates, o \in Objects :
            ~NamedIn(batch[op.turn], e, p, o) => ((o \in op.plan[e][p]) <=> (o \in world[e][p]))
      BY <1>1, <2>1 DEF WriteTarget, ApplierInv, FlightKnows
    <3> QED BY <3>1, <3>2
  <2>2. CASE UNCHANGED world
    BY <2>2
  <2> QED BY <1>1, <2>1, <2>2 DEF Next, Apply, MarkTurn, Refuse, Retrigger, vars
<1> QED BY <1>1, InvHolds, PTL DEF Spec, OnlyNamedFactsChange

-----------------------------------------------------------------------------
(* Convergence.  A delivery that is writing has a plan that obeys its      *)
(* batch on all the batch names, and what it has written stands.           *)
WrittenAsPlanned ==
  op.pc = "write" =>
    \A e \in Entities, p \in Predicates, o \in Objects :
      NamedIn(batch[op.turn], e, p, o) =>
        /\ (o \in op.plan[e][p]) <=> Puts(batch[op.turn], e, p, o)
        /\ <<e, Family[p]>> \notin op.todo => ((o \in world[e][p]) <=> (o \in op.plan[e][p]))

ConvergeInv == WrittenAsPlanned /\ AppliedInMarkerOrder

(* A fact a batch names lies in one of the families it writes.             *)
LEMMA NamedIsProjected ==
  ASSUME NEW b, NEW e, NEW p, NEW o, NamedIn(b, e, p, o)
  PROVE  <<e, Family[p]>> \in Projections(b)
  BY DEF NamedIn, Projections

(* Marker order depends on the markers and their batches alone.            *)
LEMMA OrderStays ==
  ASSUME UNCHANGED <<batch, marked>>, NEW e, NEW p, NEW o
  PROVE  InMarkerOrder(e, p, o)' <=> InMarkerOrder(e, p, o)
  BY DEF InMarkerOrder

(* A new marker has the last word on what its batch names, and none on     *)
(* what it does not.                                                       *)
LEMMA LastWord ==
  ASSUME NEW t \in Turns, marked \in Seq(Turns), marked' = Append(marked, t), UNCHANGED batch,
         NEW e, NEW p, NEW o
  PROVE  InMarkerOrder(e, p, o)' <=> IF NamedIn(batch[t], e, p, o) THEN Puts(batch[t], e, p, o)
                                     ELSE InMarkerOrder(e, p, o)
<1> DEFINE n == Len(marked)
           naming == {i \in DOMAIN marked : NamedIn(batch[marked[i]], e, p, o)}
           naming1 == {i \in DOMAIN marked' : NamedIn(batch[marked'[i]], e, p, o)}
<1>1. /\ n \in Nat /\ DOMAIN marked = 1 .. n /\ DOMAIN marked' = 1 .. (n + 1)
      /\ \A i \in 1 .. n : marked'[i] = marked[i]
      /\ marked'[n + 1] = t
  OBVIOUS
<1>2. naming1 = IF NamedIn(batch[t], e, p, o) THEN naming \cup {n + 1} ELSE naming
  BY <1>1
<1>3. \A i \in naming : i \in 1 .. n /\ i <= n + 1 /\ ~(n + 1 <= i) /\ marked'[i] = marked[i]
  BY <1>1
<1>4. InMarkerOrder(e, p, o)' <=>
        \/ naming1 = {} /\ o \in World0[e][p]
        \/ \E i \in naming1 : Puts(batch[marked'[i]], e, p, o) /\ \A j \in naming1 : j <= i
  BY DEF InMarkerOrder
<1>5. InMarkerOrder(e, p, o) <=>
        \/ naming = {} /\ o \in World0[e][p]
        \/ \E i \in naming : Puts(batch[marked[i]], e, p, o) /\ \A j \in naming : j <= i
  BY DEF InMarkerOrder
<1> HIDE DEF naming, naming1
<1>6. CASE NamedIn(batch[t], e, p, o)
  <2>1. naming1 = naming \cup {n + 1}
    BY <1>2, <1>6
  <2>2. \A j \in naming1 : j <= n + 1
    BY <1>1, <1>3, <2>1
  <2>3. \A i \in naming1 : (\A j \in naming1 : j <= i) => i = n + 1
    BY <1>3, <2>1
  <2> QED BY <1>1, <1>4, <1>6, <2>1, <2>2, <2>3
<1>7. CASE ~NamedIn(batch[t], e, p, o)
  <2>1. naming1 = naming
    BY <1>2, <1>7
  <2> QED BY <1>3, <1>4, <1>5, <1>7, <2>1
<1> QED BY <1>6, <1>7

LEMMA ConvergeInit == Init => ConvergeInv
<1> SUFFICES ASSUME Init PROVE ConvergeInv
  OBVIOUS
<1>1. WrittenAsPlanned
  BY DEF Init, IdleOp, WrittenAsPlanned
<1>2. world = World0 /\ marked = <<>>
  BY DEF Init
<1>3. \A e, p, o : InMarkerOrder(e, p, o) <=> o \in World0[e][p]
  BY <1>2 DEF InMarkerOrder
<1> QED BY <1>1, <1>2, <1>3 DEF ConvergeInv, AppliedInMarkerOrder

(* Nothing that leaves the world, the writers and the markers alone can    *)
(* disturb the order.                                                      *)
LEMMA OrderUndisturbed ==
  ASSUME AppliedInMarkerOrder, UNCHANGED <<world, batch, marked, wrote>>
  PROVE  AppliedInMarkerOrder'
<1>1. PartWay' = PartWay
  BY DEF PartWay
<1>2. ASSUME NEW e \in Entities, NEW p \in Predicates, NEW o \in Objects, \A t \in PartWay : ~NamedIn(batch[t], e, p, o)
      PROVE  (o \in world'[e][p]) <=> InMarkerOrder(e, p, o)'
  BY <1>2, OrderStays DEF AppliedInMarkerOrder
<1>3. \A e, p, o, t : NamedIn(batch[t], e, p, o)' <=> NamedIn(batch[t], e, p, o)
  BY DEF NamedIn
<1> QED BY <1>1, <1>2, <1>3 DEF AppliedInMarkerOrder

LEMMA ConvergeApply == ASSUME ApplierInv, ConvergeInv, NEW t \in Turns, Apply(t) PROVE ConvergeInv'
<1> USE ApplierAssumption
<1>1. UNCHANGED <<world, batch, marked, wrote>> /\ AppliedInMarkerOrder
  BY DEF Apply, ConvergeInv
<1>2. AppliedInMarkerOrder'
  BY <1>1, OrderUndisturbed
<1>3. CASE op'.pc # "write"
  BY <1>2, <1>3 DEF ConvergeInv, WrittenAsPlanned
<1>4. CASE op'.pc = "write"
  <2>1. /\ op'.turn = t /\ op'.todo = Projections(batch[t]) /\ op'.plan = Planned(batch[t], world)
        /\ ~Rejects(batch[t])
    BY <1>4 DEF Apply, Ack, IdleOp
  <2>2. batch[t] \in Seq(Intents) /\ world \in Worlds /\ ~Contradicts(batch[t])
    BY <2>1 DEF ApplierInv, TypeOK, Worlds, Rejects
  <2>3. ASSUME NEW e \in Entities, NEW p \in Predicates, NEW o \in Objects, NamedIn(batch[t], e, p, o)
        PROVE  /\ (o \in op'.plan[e][p]) <=> Puts(batch[t], e, p, o)
               /\ <<e, Family[p]>> \in op'.todo
    BY <2>1, <2>2, <2>3, PlanObeysBatch, NamedIsProjected
  <2>4. WrittenAsPlanned'
    BY <1>1, <2>1, <2>3 DEF WrittenAsPlanned, NamedIn, Puts
  <2> QED BY <1>2, <2>4 DEF ConvergeInv
<1> QED BY <1>3, <1>4

LEMMA ConvergeWrite == ASSUME ApplierInv, ConvergeInv, WriteTarget PROVE ConvergeInv'
<1> USE ApplierAssumption
<1>0. /\ op.pc = "write" /\ UNCHANGED <<batch, marked>> /\ world \in Worlds /\ op.plan \in Worlds
      /\ ~Contains(marked, op.turn)
      /\ \A e \in Entities, p \in Predicates, o \in Objects :
           ~NamedIn(batch[op.turn], e, p, o) => ((o \in op.plan[e][p]) <=> (o \in world[e][p]))
  BY DEF WriteTarget, ApplierInv, TypeOK, FlightKnows, Worlds
<1>1. CASE UNCHANGED <<world, wrote>> /\ CommitError
  <2>1. op'.pc # "write"
    BY <1>1, CommitErrorOutcomes DEF IdleOp
  <2> QED BY <1>0, <1>1, <2>1, OrderUndisturbed DEF ConvergeInv, WrittenAsPlanned
<1>2. CASE ~(UNCHANGED <<world, wrote>> /\ CommitError)
  <2>1. PICK x \in op.todo :
          /\ world' = Written(world, x, op.plan)
          /\ wrote' = wrote \cup {op.turn}
          /\ \/ op' = [pc |-> "write", turn |-> op.turn, todo |-> op.todo \ {x}, plan |-> op.plan]
             \/ CommitError
    BY <1>2 DEF WriteTarget, Written
  <2>2. \A e \in Entities, p \in Predicates :
          world'[e][p] = IF e = x[1] /\ Family[p] = x[2] THEN op.plan[e][p] ELSE world[e][p]
    BY <1>0, <2>1, WriteReplacesFamily
  <2>3. WrittenAsPlanned'
    <3>1. CASE op'.pc # "write"
      BY <3>1 DEF WrittenAsPlanned
    <3>2. CASE op'.pc = "write"
      <4>1. op'.turn = op.turn /\ op'.plan = op.plan /\ op'.todo = op.todo \ {x}
        BY <2>1, <3>2, CommitErrorOutcomes DEF IdleOp
      <4>2. ASSUME NEW e \in Entities, NEW p \in Predicates, NEW o \in Objects, NamedIn(batch[op.turn], e, p, o)
            PROVE  /\ (o \in op.plan[e][p]) <=> Puts(batch[op.turn], e, p, o)
                   /\ <<e, Family[p]>> \notin op'.todo => ((o \in world'[e][p]) <=> (o \in op.plan[e][p]))
        <5>1. /\ (o \in op.plan[e][p]) <=> Puts(batch[op.turn], e, p, o)
              /\ <<e, Family[p]>> \notin op.todo => ((o \in world[e][p]) <=> (o \in op.plan[e][p]))
          BY <1>0, <4>2 DEF ConvergeInv, WrittenAsPlanned
        <5>2. CASE <<e, Family[p]>> = x
          BY <2>2, <5>1, <5>2
        <5>3. CASE <<e, Family[p]>> # x
          BY <2>2, <4>1, <5>1, <5>3
        <5> QED BY <5>2, <5>3
      <4> QED BY <1>0, <4>1, <4>2 DEF WrittenAsPlanned, NamedIn, Puts
    <3> QED BY <3>1, <3>2
  <2>4. AppliedInMarkerOrder'
    <3>1. PartWay' = PartWay \cup {op.turn}
      BY <1>0, <2>1 DEF PartWay
    <3>2. ASSUME NEW e \in Entities, NEW p \in Predicates, NEW o \in Objects,
                 \A t \in PartWay' : ~NamedIn(batch[t], e, p, o)
          PROVE  (o \in world'[e][p]) <=> InMarkerOrder(e, p, o)'
      <4>1. ~NamedIn(batch[op.turn], e, p, o) /\ \A t \in PartWay : ~NamedIn(batch[t], e, p, o)
        BY <3>1, <3>2
      <4>2. (o \in world'[e][p]) <=> (o \in world[e][p])
        BY <1>0, <2>2, <4>1
      <4> QED BY <1>0, <4>1, <4>2, OrderStays DEF ConvergeInv, AppliedInMarkerOrder
    <3>3. \A e, p, o, t : NamedIn(batch[t], e, p, o)' <=> NamedIn(batch[t], e, p, o)
      BY <1>0 DEF NamedIn
    <3> QED BY <3>2, <3>3 DEF AppliedInMarkerOrder
  <2> QED BY <2>3, <2>4 DEF ConvergeInv
<1> QED BY <1>1, <1>2

LEMMA ConvergeMark == ASSUME ApplierInv, ConvergeInv, MarkTurn PROVE ConvergeInv'
<1> USE ApplierAssumption
<1>0. /\ op.pc = "write" /\ op.todo = {} /\ UNCHANGED <<world, batch, wrote>>
      /\ marked \in Seq(Turns) /\ op.turn \in Turns
  BY DEF MarkTurn, ApplierInv, TypeOK, Running
<1>1. op'.pc # "write"
  BY CommitErrorOutcomes DEF MarkTurn, Ack, IdleOp
<1>2. CASE marked' = marked
  BY <1>0, <1>1, <1>2, OrderUndisturbed DEF ConvergeInv, WrittenAsPlanned
<1>3. CASE marked' = Append(marked, op.turn)
  <2>1. PartWay \ {op.turn} \subseteq PartWay'
    <3>1. \A t : Contains(marked', t) => Contains(marked, t) \/ t = op.turn
      BY <1>0, <1>3 DEF Contains
    <3> QED BY <1>0, <3>1 DEF PartWay
  <2>2. ASSUME NEW e \in Entities, NEW p \in Predicates, NEW o \in Objects,
               \A t \in PartWay' : ~NamedIn(batch[t], e, p, o)
        PROVE  (o \in world'[e][p]) <=> InMarkerOrder(e, p, o)'
    <3>1. CASE NamedIn(batch[op.turn], e, p, o)
      <4>1. (o \in world[e][p]) <=> Puts(batch[op.turn], e, p, o)
        BY <1>0, <3>1 DEF ConvergeInv, WrittenAsPlanned
      <4>2. InMarkerOrder(e, p, o)' <=> Puts(batch[op.turn], e, p, o)
        BY <1>0, <1>3, <3>1, LastWord
      <4> QED BY <1>0, <4>1, <4>2
    <3>2. CASE ~NamedIn(batch[op.turn], e, p, o)
      <4>1. \A t \in PartWay : ~NamedIn(batch[t], e, p, o)
        BY <2>1, <2>2, <3>2
      <4>2. InMarkerOrder(e, p, o)' <=> InMarkerOrder(e, p, o)
        BY <1>0, <1>3, <3>2, LastWord
      <4> QED BY <1>0, <4>1, <4>2 DEF ConvergeInv, AppliedInMarkerOrder
    <3> QED BY <3>1, <3>2
  <2>3. \A e, p, o, t : NamedIn(batch[t], e, p, o)' <=> NamedIn(batch[t], e, p, o)
    BY <1>0 DEF NamedIn
  <2>4. AppliedInMarkerOrder'
    BY <2>2, <2>3 DEF AppliedInMarkerOrder
  <2> QED BY <1>1, <2>4 DEF ConvergeInv, WrittenAsPlanned
<1> QED BY <1>2, <1>3 DEF MarkTurn

LEMMA ConvergeStep == ASSUME ApplierInv, ConvergeInv, [Next]_vars PROVE ConvergeInv'
<1>1. CASE Refuse \/ UNCHANGED vars \/ \E t \in Turns : Retrigger(t)
  <2>1. UNCHANGED <<world, batch, marked, wrote>> /\ (op' = op \/ op' = IdleOp)
    BY <1>1 DEF Refuse, Ack, Nak, Retrigger, vars
  <2>2. WrittenAsPlanned'
    BY <2>1 DEF ConvergeInv, WrittenAsPlanned, NamedIn, Puts, IdleOp
  <2> QED BY <2>1, <2>2, OrderUndisturbed DEF ConvergeInv
<1> QED BY <1>1, ConvergeApply, ConvergeWrite, ConvergeMark DEF Next

(* commit and its retries: whatever deliveries stop part-way, are repeated *)
(* or overtake each other, a fact no part-way batch names is what the last *)
(* marker that names it says.                                              *)
THEOREM ReapplicationConverges == Spec => []AppliedInMarkerOrder
<1>1. ApplierInv /\ ConvergeInv /\ [Next]_vars => ConvergeInv'
  BY ConvergeStep
<1>2. ConvergeInv => AppliedInMarkerOrder
  BY DEF ConvergeInv
<1> QED BY <1>1, <1>2, ConvergeInit, InvHolds, PTL DEF Spec

-----------------------------------------------------------------------------
(* Atomicity.  A delivery in flight is of a turn that has not ended, and a *)
(* batch that landed was one the plan accepts.                             *)
FlightIsLive ==
  /\ Running => status[op.turn] = "applying"
  /\ \A i \in DOMAIN marked : ~Rejects(batch[marked[i]])

LEMMA LiveInit == Init => FlightIsLive
  BY DEF Init, IdleOp, FlightIsLive, Running

LEMMA LiveStep == ASSUME ApplierInv, FlightIsLive, [Next]_vars PROVE FlightIsLive'
<1> USE ApplierAssumption
<1>0. TypeOK /\ FlightKnows
  BY DEF ApplierInv
<1>1. ASSUME NEW t \in Turns, Apply(t) PROVE FlightIsLive'
  <2>1. UNCHANGED <<batch, status, marked>>
    BY <1>1 DEF Apply
  <2>2. op'.pc = "idle" \/ (op'.turn = t /\ status[t] = "applying")
    BY <1>1 DEF Apply, Ack, IdleOp
  <2> QED BY <2>1, <2>2 DEF FlightIsLive, Running, Rejects, Contradicts
<1>2. CASE WriteTarget
  <2>1. UNCHANGED <<batch, status, marked>> /\ Running
    BY <1>2 DEF WriteTarget, Running
  <2>2. op'.pc = "idle" \/ op'.turn = op.turn
    BY <1>2, CommitErrorOutcomes DEF WriteTarget, IdleOp
  <2> QED BY <2>1, <2>2 DEF FlightIsLive, Running, Rejects, Contradicts
<1>3. CASE MarkTurn
  <2>1. UNCHANGED <<batch, status>> /\ Running /\ ~Rejects(batch[op.turn]) /\ op.turn \in Turns
    BY <1>0, <1>3 DEF MarkTurn, Running, FlightKnows, TypeOK
  <2>2. op'.pc = "idle" \/ op'.turn = op.turn
    BY <1>3, CommitErrorOutcomes DEF MarkTurn, Ack, IdleOp
  <2>3. \A i \in DOMAIN marked' : (i \in DOMAIN marked /\ marked'[i] = marked[i]) \/ marked'[i] = op.turn
    <3>1. marked \in Seq(Turns) /\ (marked' = marked \/ marked' = Append(marked, op.turn))
      BY <1>0, <1>3 DEF MarkTurn, TypeOK
    <3> QED BY <2>1, <3>1
  <2> QED BY <2>1, <2>2, <2>3 DEF FlightIsLive, Running, Rejects, Contradicts
<1>4. CASE Refuse
  BY <1>4 DEF Refuse, Ack, Nak, IdleOp, FlightIsLive, Running, Rejects, Contradicts
<1>5. CASE UNCHANGED vars \/ \E t \in Turns : Retrigger(t)
  BY <1>5 DEF vars, Retrigger, FlightIsLive, Running, Rejects, Contradicts
<1> QED BY <1>1, <1>2, <1>3, <1>4, <1>5 DEF Next

(* The mapping: what a batch names and puts never changes, and the world   *)
(* maps to the triples that hold.                                          *)
LEMMA EffectsAreFixed ==
  ASSUME UNCHANGED batch
  PROVE  /\ [t \in Turns |-> NamedBy(batch[t])]' = [t \in Turns |-> NamedBy(batch[t])]
         /\ [t \in Turns |-> PutBy(batch[t])]' = [t \in Turns |-> PutBy(batch[t])]
  BY DEF NamedBy, PutBy, NamedIn, Puts, Triples

LEMMA PutIsNamed ==
  ASSUME NEW b PROVE PutBy(b) \subseteq NamedBy(b)
  BY DEF PutBy, NamedBy, Puts, NamedIn

LEMMA AtomicInit == Init => Atomic!Init
<1> SUFFICES ASSUME Init PROVE Atomic!Init
  OBVIOUS
<1>1. Holding(world) = Holding(World0)
  BY DEF Init
<1>2. \A t \in Turns : NamedBy(batch[t]) \subseteq Triples /\ PutBy(batch[t]) \subseteq Triples
  BY DEF NamedBy, PutBy
<1>3. PartWay = {}
  BY DEF Init, PartWay
<1>4. status = [t \in Turns |-> "applying"] /\ marked = <<>>
  BY DEF Init
<1> QED BY <1>1, <1>2, <1>3, <1>4, PutIsNamed DEF Atomic!Init

LEMMA AtomicWrite ==
  ASSUME ApplierInv, FlightIsLive, WriteTarget
  PROVE  UNCHANGED Atomic!vars \/ \E t \in Turns : Atomic!Disturb(t)
<1>0. /\ UNCHANGED <<batch, status, marked>> /\ op.turn \in Turns
      /\ status[op.turn] = "applying" /\ ~Contains(marked, op.turn)
      /\ \A e \in Entities, p \in Predicates, o \in Objects :
           ~NamedIn(batch[op.turn], e, p, o) => ((o \in op.plan[e][p]) <=> (o \in world[e][p]))
  BY DEF WriteTarget, ApplierInv, TypeOK, FlightKnows, FlightIsLive, Running
<1>1. CASE UNCHANGED <<world, wrote>>
  <2>1. Holding(world)' = Holding(world) /\ PartWay' = PartWay
    BY <1>0, <1>1 DEF Holding, PartWay, Triples
  <2> QED BY <1>0, <2>1, EffectsAreFixed DEF Atomic!vars
<1>2. CASE wrote' = wrote \cup {op.turn}
  <2>1. \A e \in Entities, p \in Predicates :
          world'[e][p] = world[e][p] \/ world'[e][p] = op.plan[e][p]
    BY DEF WriteTarget, ApplierInv, TypeOK
  <2>2. Holding(world)' \ NamedBy(batch[op.turn]) = Holding(world) \ NamedBy(batch[op.turn])
    <3>1. ASSUME NEW e \in Entities, NEW p \in Predicates, NEW o \in Objects, ~NamedIn(batch[op.turn], e, p, o)
          PROVE  (o \in world'[e][p]) <=> (o \in world[e][p])
      BY <1>0, <2>1, <3>1
    <3> QED BY <3>1 DEF Holding, NamedBy, Triples
  <2>3. PartWay' = PartWay \cup {op.turn} /\ Holding(world)' \subseteq Triples
    BY <1>0, <1>2 DEF PartWay, Holding, Triples
  <2>4. Atomic!Disturb(op.turn)
    BY <1>0, <2>2, <2>3, EffectsAreFixed DEF Atomic!Disturb, Atomic!Unlanded, Contains
  <2> QED BY <1>0, <2>4
<1> QED BY <1>1, <1>2 DEF WriteTarget

LEMMA AtomicMark ==
  ASSUME ApplierInv, WrittenAsPlanned, FlightIsLive, MarkTurn
  PROVE  UNCHANGED Atomic!vars \/ \E t \in Turns : Atomic!Land(t)
<1>0. /\ op.pc = "write" /\ op.todo = {} /\ UNCHANGED <<world, batch, status, wrote>>
      /\ op.turn \in Turns /\ marked \in Seq(Turns)
      /\ status[op.turn] = "applying" /\ ~Contains(marked, op.turn)
  BY DEF MarkTurn, ApplierInv, TypeOK, FlightKnows, FlightIsLive, Running
<1>1. Holding(world)' = Holding(world)
  BY <1>0 DEF Holding, Triples
<1>2. CASE marked' = marked
  <2>1. PartWay' = PartWay
    BY <1>0, <1>2 DEF PartWay
  <2> QED BY <1>0, <1>1, <1>2, <2>1, EffectsAreFixed DEF Atomic!vars
<1>3. CASE marked' = Append(marked, op.turn)
  <2>1. Holding(world) = (Holding(world) \ NamedBy(batch[op.turn])) \cup PutBy(batch[op.turn])
    <3>1. ASSUME NEW e \in Entities, NEW p \in Predicates, NEW o \in Objects, NamedIn(batch[op.turn], e, p, o)
          PROVE  (o \in world[e][p]) <=> Puts(batch[op.turn], e, p, o)
      BY <1>0, <3>1 DEF WrittenAsPlanned
    <3>2. \A f \in NamedBy(batch[op.turn]) : f \in Holding(world) <=> f \in PutBy(batch[op.turn])
      BY <3>1 DEF Holding, NamedBy, PutBy, Triples
    <3> QED BY <3>2, PutIsNamed
  <2>2. PartWay' = PartWay \ {op.turn}
    <3>1. \A t : Contains(marked', t) <=> Contains(marked, t) \/ t = op.turn
      BY <1>0, <1>3 DEF Contains
    <3> QED BY <1>0, <3>1 DEF PartWay
  <2>3. Atomic!Land(op.turn)
    BY <1>0, <1>1, <1>3, <2>1, <2>2, EffectsAreFixed DEF Atomic!Land, Atomic!Unlanded, Contains
  <2> QED BY <1>0, <2>3
<1> QED BY <1>2, <1>3 DEF MarkTurn

LEMMA AtomicRefuse ==
  ASSUME ApplierInv, FlightIsLive, Refuse
  PROVE  UNCHANGED Atomic!vars \/ \E t \in Turns : Atomic!Reject(t) \/ Atomic!GiveUp(t)
<1>0. /\ UNCHANGED <<world, batch, marked, wrote>> /\ op.turn \in Turns
      /\ status[op.turn] = "applying"
      /\ op.reason \in {"effect-invalid", "effect-commit-incomplete"}
      /\ op.reason = "effect-invalid" => Rejects(batch[op.turn])
  BY DEF Refuse, ApplierInv, TypeOK, FlightKnows, FlightIsLive, Running
<1>1. Holding(world)' = Holding(world) /\ PartWay' = PartWay
  BY <1>0 DEF Holding, PartWay, Triples
<1>2. CASE status' = status
  BY <1>0, <1>1, <1>2, EffectsAreFixed DEF Atomic!vars
<1>3. CASE status' = [status EXCEPT ![op.turn] = op.reason]
  <2>1. CASE op.reason = "effect-invalid"
    <3>1. op.turn \notin PartWay /\ ~Contains(marked, op.turn)
      BY <1>0, <2>1 DEF ApplierInv, RejectionIsFinal, FlightIsLive, PartWay, Contains
    <3>2. Atomic!Reject(op.turn)
      BY <1>0, <1>1, <1>3, <2>1, <3>1, EffectsAreFixed DEF Atomic!Reject, Atomic!Unlanded, Contains
    <3> QED BY <1>0, <3>2
  <2>2. CASE op.reason = "effect-commit-incomplete"
    <3>1. Atomic!GiveUp(op.turn)
      BY <1>0, <1>1, <1>3, <2>2, EffectsAreFixed DEF Atomic!GiveUp
    <3> QED BY <1>0, <3>1
  <2> QED BY <1>0, <2>1, <2>2
<1> QED BY <1>2, <1>3 DEF Refuse

LEMMA AtomicStep ==
  ASSUME ApplierInv, ConvergeInv, FlightIsLive, [Next]_vars PROVE [Atomic!Next]_(Atomic!vars)
<1>1. CASE UNCHANGED <<world, batch, status, marked, wrote>>
  <2>1. Holding(world)' = Holding(world) /\ PartWay' = PartWay
    BY <1>1 DEF Holding, PartWay, Triples
  <2> QED BY <1>1, <2>1, EffectsAreFixed DEF Atomic!vars
<1>2. CASE WriteTarget
  BY <1>2, AtomicWrite DEF Atomic!Next
<1>3. CASE MarkTurn
  BY <1>3, AtomicMark DEF Atomic!Next, ConvergeInv
<1>4. CASE Refuse
  BY <1>4, AtomicRefuse DEF Atomic!Next
<1>5. ASSUME NEW t \in Turns, Apply(t) \/ Retrigger(t)
      PROVE  UNCHANGED <<world, batch, status, marked, wrote>>
  BY <1>5 DEF Apply, Retrigger
<1>6. UNCHANGED vars => UNCHANGED <<world, batch, status, marked, wrote>>
  BY DEF vars
<1> QED BY <1>1, <1>2, <1>3, <1>4, <1>5, <1>6 DEF Next

(* Applier.Apply: for any turns, batches and number of failed round trips, *)
(* the stage behaves as if every batch landed once and whole at the moment *)
(* of its marker, on the world as the other turns have left it; a batch    *)
(* that has not landed disturbs only what it names.                        *)
THEOREM BatchesAreAtomic == Spec => ImplementsAtomicEffects
<1>1. ApplierInv /\ ConvergeInv /\ [Next]_vars => ConvergeInv'
  BY ConvergeStep
<1>2. ApplierInv /\ FlightIsLive /\ [Next]_vars => FlightIsLive'
  BY LiveStep
<1>3. ApplierInv /\ ConvergeInv /\ FlightIsLive /\ [Next]_vars => [Atomic!Next]_(Atomic!vars)
  BY AtomicStep
<1> QED BY <1>1, <1>2, <1>3, ConvergeInit, LiveInit, AtomicInit, InvHolds, PTL
        DEF Spec, ImplementsAtomicEffects, Atomic!Spec
=============================================================================
