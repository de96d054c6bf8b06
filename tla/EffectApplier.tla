---------------------------- MODULE EffectApplier ----------------------------
(***************************************************************************)
(* internal/effect and the apply stage that calls it                       *)
(* (internal/stage/apply.go): a turn's batch of intents is validated and   *)
(* folded into one plan, the plan is written one entity and one predicate  *)
(* family at a time, and the marker lands on the turn last.                *)
(*                                                                         *)
(* Each write is a round trip that may fail before or after it commits, so *)
(* a batch may stop part-way and be applied again from the start, after    *)
(* other turns have changed the same entities.  The apply stage is one     *)
(* sequential consumer; no other component writes these families.          *)
(***************************************************************************)
EXTENDS Naturals, Sequences, SequencesExt

CONSTANTS
  Turns,
  Entities,
  Predicates,   \* attributes, status, location and relationships
  Family,       \* the projection group each predicate is written in
  MultiValued,  \* the relationships: predicates that hold a set
  Objects,
  Batches,      \* the batches a verdict's band may declare
  Admissible,   \* intents inside vocabulary, bounds, existence and kind rules
  World0,       \* the imported world
  MaxFaults     \* bound: failed round trips and repeated triggers

Intents == [target : Entities, predicate : Predicates, op : {"put", "drop"}, object : Objects]

ASSUME ApplierAssumption ==
  /\ MultiValued \subseteq Predicates
  /\ Family \in [Predicates -> STRING]
  /\ Batches \subseteq Seq(Intents)
  /\ Admissible \subseteq Intents
  /\ World0 \in [Entities -> [Predicates -> SUBSET Objects]]
  /\ MaxFaults \in Nat

VARIABLES
  world,    \* the effect-target facts of every entity
  batch,    \* turn -> the batch its verdict and dice select
  status,   \* turn -> "applying", or how it was failed
  marked,   \* turns in the order their effect marker landed
  wrote,    \* turns that have written something (history)
  pending,  \* turns with an unacknowledged apply trigger
  op,       \* the delivery the apply stage is running
  faults

vars == <<world, batch, status, marked, wrote, pending, op, faults>>

IdleOp == [pc |-> "idle"]
Running == op.pc # "idle"

Init ==
  /\ world = World0
  /\ batch \in [Turns -> Batches]
  /\ status = [t \in Turns |-> "applying"]
  /\ marked = <<>>
  /\ wrote = {}
  /\ pending = Turns
  /\ op = IdleOp
  /\ faults = 0

Fault == faults < MaxFaults /\ faults' = faults + 1

-----------------------------------------------------------------------------
(* buildPlan: pure.                                                        *)

Named(b, e, p) == {b[i] : i \in {j \in DOMAIN b : b[j].target = e /\ b[j].predicate = p}}

(* Two intents of one batch may not both set a single-valued predicate, or *)
(* name the same object of a relationship.                                 *)
Contradicts(b) ==
  \E i, j \in DOMAIN b :
    /\ i < j
    /\ b[i].target = b[j].target /\ b[i].predicate = b[j].predicate
    /\ b[i].predicate \in MultiValued => b[i].object = b[j].object

Rejects(b) == Contradicts(b) \/ \E i \in DOMAIN b : b[i] \notin Admissible

(* The value set an entity's predicate should end up holding, as folded    *)
(* from what it held when the plan was made.                               *)
FoldValue(b, e, p, held) ==
  LET named == Named(b, e, p)
      puts == {n.object : n \in {m \in named : m.op = "put"}}
      drops == {n.object : n \in {m \in named : m.op = "drop"}}
  IN CASE named = {}         -> held
       [] p \in MultiValued  -> (held \ drops) \cup puts
       [] OTHER              -> puts

(* Mutant of Planned: a relationship is published without its siblings.    *)
PlannedAlone(b, w) ==
  [e \in Entities |-> [p \in Predicates |->
     FoldValue(b, e, p, IF Named(b, e, p) = {} THEN w[e][p] ELSE {})]]

(* Every touched entity as the batch leaves it: untouched predicates and   *)
(* untouched siblings travel as they were read.                            *)
Planned(b, w) == [e \in Entities |-> [p \in Predicates |-> FoldValue(b, e, p, w[e][p])]]

(* One write per entity and family, entities in first-touch order and the  *)
(* families of an entity in theirs.                                        *)
Projections(b) == {<<b[i].target, Family[b[i].predicate]>> : i \in DOMAIN b}

Precedes(b, x, y) ==
  LET entity(z) == Min({i \in DOMAIN b : b[i].target = z[1]})
      family(z) == Min({i \in DOMAIN b : b[i].target = z[1] /\ Family[b[i].predicate] = z[2]})
  IN entity(x) < entity(y) \/ (entity(x) = entity(y) /\ family(x) <= family(y))

-----------------------------------------------------------------------------
(* The apply stage.                                                        *)

Ack(t) == pending' = pending \ {t} /\ op' = IdleOp
Nak == UNCHANGED pending /\ op' = IdleOp

(* Mutant of Apply: the turn's own record of the batch is not read.        *)
ApplyIgnoresMarker(t) ==
  /\ ~Running /\ t \in pending
  /\ IF status[t] # "applying"
       THEN Ack(t)
     ELSE IF Rejects(batch[t])
       THEN op' = [pc |-> "refuse", turn |-> t, reason |-> "effect-invalid"] /\ UNCHANGED pending
     ELSE /\ op' = [pc |-> "write", turn |-> t, todo |-> Projections(batch[t]),
                    plan |-> Planned(batch[t], world)]
          /\ UNCHANGED pending
  /\ UNCHANGED <<world, batch, status, marked, wrote, faults>>

(* Effector.Run and Apply, up to the first write: a turn that ended        *)
(* declines, one that records its batch is left alone, a batch the plan    *)
(* rejects ends the turn, and nothing is written before the plan is whole. *)
Apply(t) ==
  /\ ~Running /\ t \in pending
  /\ IF status[t] # "applying" \/ Contains(marked, t)
       THEN Ack(t)
     ELSE IF Rejects(batch[t])
       THEN op' = [pc |-> "refuse", turn |-> t, reason |-> "effect-invalid"] /\ UNCHANGED pending
     ELSE /\ op' = [pc |-> "write", turn |-> t, todo |-> Projections(batch[t]),
                    plan |-> Planned(batch[t], world)]
          /\ UNCHANGED pending
  /\ UNCHANGED <<world, batch, status, marked, wrote, faults>>

(* What follows a failed round trip: a transient cause leaves the turn     *)
(* applying and the delivery is nak'd; any other ends the turn.            *)
CommitError ==
  /\ Fault
  /\ \/ Nak
     \/ op' = [pc |-> "refuse", turn |-> op.turn, reason |-> "effect-commit-incomplete"]
        /\ UNCHANGED pending

(* One Reconcile of commit's loop.                                         *)
WriteTarget ==
  /\ op.pc = "write"
  /\ \E x \in op.todo :
       /\ \A y \in op.todo : Precedes(batch[op.turn], x, y)
       /\ \/ /\ world' = [world EXCEPT ![x[1]] =
                   [p \in Predicates |-> IF Family[p] = x[2] THEN op.plan[x[1]][p] ELSE @[p]]]
             /\ wrote' = wrote \cup {op.turn}
             /\ \/ /\ op' = [pc |-> "write", turn |-> op.turn, todo |-> op.todo \ {x}, plan |-> op.plan]
                   /\ UNCHANGED <<pending, faults>>
                \/ CommitError
          \/ CommitError /\ UNCHANGED <<world, wrote>>
  /\ UNCHANGED <<batch, status, marked>>

(* Mutant of MarkTurn: the marker does not wait for the last write.        *)
MarkTurnEarly ==
  /\ op.pc = "write" /\ Cardinality(op.todo) <= 1
  /\ marked' = Append(marked, op.turn)
  /\ Ack(op.turn)
  /\ UNCHANGED <<world, batch, status, wrote, faults>>

(* The marker, last.  Its reply may be lost, and the retry finds it.       *)
MarkTurn ==
  /\ op.pc = "write" /\ op.todo = {}
  /\ \/ /\ marked' = Append(marked, op.turn)
        /\ \/ Ack(op.turn) /\ UNCHANGED faults
           \/ CommitError
     \/ CommitError /\ UNCHANGED marked
  /\ UNCHANGED <<world, batch, status, wrote>>

(* refuse: the turn ends under the closed reason, or Fail fails.           *)
Refuse ==
  /\ op.pc = "refuse"
  /\ \/ /\ status' = [status EXCEPT ![op.turn] = op.reason]
        /\ \/ Ack(op.turn) /\ UNCHANGED faults
           \/ Nak /\ Fault
     \/ UNCHANGED status /\ Nak /\ Fault
  /\ UNCHANGED <<world, batch, marked, wrote>>

(* A duplicate trigger, or the stranded-turn pass asking again.            *)
Retrigger(t) ==
  /\ t \notin pending
  /\ Fault
  /\ pending' = pending \cup {t}
  /\ UNCHANGED <<world, batch, status, marked, wrote, op>>

Next == \/ \E t \in Turns : Apply(t) \/ Retrigger(t)
        \/ WriteTarget \/ MarkTurn \/ Refuse

Spec == Init /\ [][Next]_vars

-----------------------------------------------------------------------------
(* Every variable has its type, and the delivery being run is one that has *)
(* not been acknowledged (Runner.handle acknowledges after Run returns).   *)
TypeOK ==
  /\ world \in [Entities -> [Predicates -> SUBSET Objects]]
  /\ batch \in [Turns -> Batches]
  /\ status \in [Turns -> {"applying", "effect-invalid", "effect-commit-incomplete"}]
  /\ marked \in Seq(Turns)
  /\ wrote \subseteq Turns
  /\ pending \subseteq Turns
  /\ op.pc \in {"idle", "write", "refuse"}
  /\ Running => op.turn \in pending
  /\ faults \in 0 .. MaxFaults

(* A batch is marked once, however often its trigger is delivered and      *)
(* whatever reply is lost.                                                 *)
MarkedOnce == \A i, j \in DOMAIN marked : marked[i] = marked[j] => i = j

(* A batch rejected on validation grounds applies nothing at all.          *)
RejectedChangesNothing ==
  \A t \in Turns : status[t] = "effect-invalid" => t \notin wrote

(* A write touches only what its batch names: a relationship's siblings    *)
(* and the rest of the family survive, although every write replaces the   *)
(* whole group.                                                            *)
NamedIn(b, e, p, o) == \E i \in DOMAIN b : b[i].target = e /\ b[i].predicate = p
                                           /\ (p \in MultiValued => b[i].object = o)
OnlyNamedFactsChange ==
  [][\A e \in Entities, p \in Predicates, o \in Objects :
       (o \in world[e][p]) # (o \in world'[e][p]) => NamedIn(batch[op.turn], e, p, o)]_vars

(* Partial commits are never mistaken for success, and re-application      *)
(* converges: a fact no part-way batch names is what the batch whose       *)
(* marker landed last, of those that name it, makes of it, or as imported, *)
(* although writes of one batch may have been overwritten by another       *)
(* between two deliveries.                                                 *)
PartWay == {t \in wrote : ~Contains(marked, t)}

Puts(b, e, p, o) ==
  \E i \in DOMAIN b : b[i] = [target |-> e, predicate |-> p, op |-> "put", object |-> o]

InMarkerOrder(e, p, o) ==
  LET naming == {i \in DOMAIN marked : NamedIn(batch[marked[i]], e, p, o)}
  IN \/ naming = {} /\ o \in World0[e][p]
     \/ \E i \in naming : Puts(batch[marked[i]], e, p, o) /\ \A j \in naming : j <= i

AppliedInMarkerOrder ==
  \A e \in Entities, p \in Predicates, o \in Objects :
    (\A t \in PartWay : ~NamedIn(batch[t], e, p, o)) => ((o \in world[e][p]) <=> InMarkerOrder(e, p, o))

-----------------------------------------------------------------------------
(* Triples of an entity, a predicate and an object: those that hold, and   *)
(* those a turn's batch decides and puts.                                  *)
Triples == Entities \X Predicates \X Objects
Holding(w) == {f \in Triples : f[3] \in w[f[1]][f[2]]}
NamedBy(b) == {f \in Triples : NamedIn(b, f[1], f[2], f[3])}
PutBy(b) == {f \in Triples : Puts(b, f[1], f[2], f[3])}

Atomic == INSTANCE AtomicEffects
            WITH Facts <- Triples, Start <- Holding(World0), facts <- Holding(world),
                 names <- [t \in Turns |-> NamedBy(batch[t])],
                 puts <- [t \in Turns |-> PutBy(batch[t])],
                 landed <- marked, open <- PartWay

(* Applier.Apply is atomic up to its part-way batches: every step of the   *)
(* writes, retries and lost replies is a step of AtomicEffects, in which a *)
(* batch lands once and whole, a rejected batch disturbs nothing, and a    *)
(* turn that ended does nothing more.                                      *)
ImplementsAtomicEffects == Atomic!Spec
=============================================================================
