------------------------ MODULE PlayerDeliveryProofs ------------------------
(***************************************************************************)
(* The safety of the session table and of the fan-out, for every number of *)
(* connections, every set of players and turns and every cap.              *)
(***************************************************************************)
EXTENDS PlayerDelivery, FiniteSetTheorems, TLAPS

States == {"new", "verified", "reading", "unwinding", "closing", "done"}
Sends == [pc : {"send"}, turn : Turns, todo : SUBSET Conns, targets : SUBSET Conns,
          accepted : SUBSET Conns, failed : BOOLEAN]

(* The types alone, without the cap and with the turn of a fan-out taken   *)
(* from all turns.                                                         *)
Shapes ==
  /\ serving \in BOOLEAN
  /\ loop \in [Conns -> States]
  /\ sock \in [Conns -> {"none", "open", "wedged", "closed"}]
  /\ who \in [Conns -> Players \cup {NoPlayer}]
  /\ byPlayer \in [Players -> SUBSET Conns]
  /\ byConn \subseteq Conns
  /\ queued \subseteq Turns
  /\ op \in {IdleOp} \cup Sends

(* Where each connection stands: it is bound from Bind to Disconnect and   *)
(* at no other time, its goroutine knows its player until it is over, and  *)
(* a socket exists from the bind on.                                       *)
Lifetime ==
  /\ \A c \in Conns : c \in byConn <=> loop[c] \in {"reading", "unwinding"}
  /\ \A c \in Conns : loop[c] \notin {"new", "done"} => who[c] \in Players
  /\ \A c \in Conns : loop[c] = "done" => sock[c] = "closed"
  /\ \A p \in Players : byPlayer[p] = {c \in byConn : who[c] = p}

(* What the router's copy of the sessions still says about sockets that    *)
(* have moved on since it was taken.                                       *)
CopyHolds ==
  op.pc = "send" =>
    /\ op.turn \in queued
    /\ op.todo \subseteq op.targets
    /\ \A c \in op.targets : /\ loop[c] \notin {"new", "verified"}
                             /\ loop[c] # "done" => who[c] = Owner[op.turn]
    /\ op.failed \/ op.targets = op.todo \cup op.accepted

DeliveryInv == Shapes /\ Lifetime /\ CopyHolds

LEMMA SendIsNotIdle == \A o \in {IdleOp} \cup Sends : (o.pc = "send") <=> (o # IdleOp)
  BY DEF IdleOp, Sends

LEMMA InitInv == Init => DeliveryInv
  BY DeliveryAssumption DEF Init, DeliveryInv, Shapes, Lifetime, CopyHolds, States, IdleOp, Conns

LEMMA InvStep == ASSUME DeliveryInv, [Next]_vars PROVE DeliveryInv'
<1> USE DeliveryAssumption DEF DeliveryInv
<1>1. ASSUME NEW c \in Conns, NEW p \in Players, Verify(c, p) PROVE DeliveryInv'
  BY <1>1 DEF Verify, Shapes, Lifetime, CopyHolds, States, table, egress
<1>2. ASSUME NEW c \in Conns, UpgradeFails(c) PROVE DeliveryInv'
  BY <1>2 DEF UpgradeFails, Ended, Shapes, Lifetime, CopyHolds, States, table, egress
<1>3. ASSUME NEW c \in Conns, Serve(c) PROVE DeliveryInv'
  <2>0. loop[c] = "verified" /\ who[c] \in Players /\ UNCHANGED <<serving, queued, op>>
    BY <1>3 DEF Serve, Lifetime, egress
  <2>1. CASE Full(who[c])
    <3>1. Ended(c) /\ UNCHANGED <<byPlayer, byConn>>
      BY <1>3, <2>1 DEF Serve, table
    <3>2. Shapes'
      BY <2>0, <3>1 DEF Ended, Shapes, States
    <3>3. Lifetime'
      BY <2>0, <3>1 DEF Ended, Shapes, Lifetime, States
    <3>4. CopyHolds'
      BY <2>0, <3>1 DEF Ended, Shapes, CopyHolds, Sends
    <3> QED BY <3>2, <3>3, <3>4
  <2>2. CASE ~Full(who[c])
    <3>1. /\ loop' = [loop EXCEPT ![c] = "reading"]
          /\ sock' = [sock EXCEPT ![c] = "open"]
          /\ byPlayer' = [byPlayer EXCEPT ![who[c]] = byPlayer[who[c]] \cup {c}]
          /\ byConn' = byConn \cup {c}
          /\ UNCHANGED who
      BY <1>3, <2>2 DEF Serve
    <3>2. Shapes'
      BY <2>0, <3>1 DEF Shapes, States
    <3>3. Lifetime'
      BY <2>0, <3>1 DEF Shapes, Lifetime, States
    <3>4. CopyHolds'
      BY <2>0, <3>1 DEF Shapes, CopyHolds, Sends
    <3> QED BY <3>2, <3>3, <3>4
  <2> QED BY <2>1, <2>2
<1>4. ASSUME NEW c \in Conns, PeerGone(c) \/ Probe(c) \/ Watch(c) PROVE DeliveryInv'
  BY <1>4 DEF PeerGone, Probe, Watch, Shapes, Lifetime, CopyHolds, States, table, egress
<1>5. ASSUME NEW c \in Conns, ReadEnds(c) PROVE DeliveryInv'
  BY <1>5 DEF ReadEnds, Shapes, Lifetime, CopyHolds, States, table, egress
<1>6. ASSUME NEW c \in Conns, Disconnect(c) PROVE DeliveryInv'
  BY <1>6 DEF Disconnect, Shapes, Lifetime, CopyHolds, States, egress
<1>7. ASSUME NEW c \in Conns, Close(c) PROVE DeliveryInv'
  BY <1>7 DEF Close, Ended, Shapes, Lifetime, CopyHolds, States, table, egress
<1>8. ASSUME NEW t \in Turns, Handle(t) PROVE DeliveryInv'
  <2>1. Lifetime' /\ UNCHANGED <<serving, loop, sock, who, byPlayer, byConn>>
    BY <1>8 DEF Handle, Lifetime, sockets, table
  <2>2. CASE t \in Broken
    BY <1>8, <2>1, <2>2 DEF Handle, Shapes, CopyHolds, IdleOp
  <2>3. CASE t \notin Broken
    <3> DEFINE targets == byPlayer[Owner[t]]
    <3>1. targets \in SUBSET Conns /\ \A c \in targets : c \in byConn /\ who[c] = Owner[t]
      BY DEF Shapes, Lifetime
    <3>2. /\ op' = [pc |-> "send", turn |-> t, todo |-> targets, targets |-> targets,
                    accepted |-> {}, failed |-> FALSE]
          /\ queued' = queued /\ t \in queued
      BY <1>8, <2>3 DEF Handle
    <3> HIDE DEF targets
    <3>3. Shapes'
      BY <2>1, <3>1, <3>2 DEF Shapes, Sends
    <3>4. CopyHolds'
      BY <2>1, <3>1, <3>2 DEF CopyHolds, Lifetime
    <3> QED BY <2>1, <3>3, <3>4
  <2> QED BY <2>2, <2>3
<1>9. ASSUME NEW c \in Conns, WriteTo(c) PROVE DeliveryInv'
  <2>1. op \in Sends /\ op.pc = "send" /\ c \in op.todo
        /\ UNCHANGED <<serving, loop, who, byPlayer, byConn, queued>>
    BY <1>9 DEF WriteTo, Shapes, IdleOp, table
  <2>2. PICK got \in {op.accepted, op.accepted \cup {c}}, failed \in BOOLEAN :
          /\ op' = [pc |-> "send", turn |-> op.turn, todo |-> op.todo \ {c},
                    targets |-> op.targets, accepted |-> got, failed |-> failed]
          /\ failed \/ (got = op.accepted \cup {c} /\ failed = op.failed)
    BY <1>9, <2>1 DEF WriteTo, Sends
  <2>3. Shapes'
    BY <1>9, <2>1, <2>2 DEF WriteTo, Shapes, Sends
  <2>4. Lifetime'
    BY <1>9, <2>1 DEF WriteTo, Shapes, Lifetime
  <2>5. CopyHolds'
    BY <2>1, <2>2 DEF CopyHolds, Sends
  <2> QED BY <2>3, <2>4, <2>5
<1>10. CASE Finish
  BY <1>10 DEF Finish, Shapes, Lifetime, CopyHolds, IdleOp, sockets, table
<1>11. CASE Shutdown
  BY <1>11 DEF Shutdown, Shapes, Lifetime, CopyHolds, table, egress
<1>12. CASE UNCHANGED vars
  BY <1>12 DEF vars, sockets, table, egress, Shapes, Lifetime, CopyHolds
<1> QED
  BY <1>1, <1>2, <1>3, <1>4, <1>5, <1>6, <1>7, <1>8, <1>9, <1>10, <1>11, <1>12
  DEF Next, Goroutine, Fanout

LEMMA InvHolds == Spec => []DeliveryInv
  BY InitInv, InvStep, PTL DEF Spec

-----------------------------------------------------------------------------
(* A read loop only runs on a bound connection, and the two indexes agree  *)
(* (sessions.put, sessions.remove, serve's deferred Disconnect).           *)
THEOREM ReadersAreBound == Spec => []ReaderIsBound
<1>1. DeliveryInv => ReaderIsBound
  BY DEF DeliveryInv, Lifetime, ReaderIsBound
<1> QED BY <1>1, InvHolds, PTL

(* A socket only accepts results of the player it authenticated as         *)
(* (Router.Deliver over a stale copy of the sessions).                     *)
THEOREM ResultsStayPrivate == Spec => OnlyOwnResults
<1> DEFINE Own == op # IdleOp /\ op' # IdleOp =>
                    \A c \in op'.accepted \ op.accepted : who[c] = Owner[op.turn]
<1>1. ASSUME DeliveryInv, [Next]_vars PROVE [Own]_vars
  <2>1. ASSUME NEW c \in Conns, WriteTo(c) PROVE Own
    BY <1>1, <2>1, SendIsNotIdle DEF WriteTo, DeliveryInv, Shapes, Lifetime, CopyHolds, States, Sends
  <2>2. ASSUME NEW t \in Turns, Handle(t) PROVE Own
    BY <2>2 DEF Handle, IdleOp
  <2>3. CASE Finish
    BY <2>3 DEF Finish
  <2>4. CASE UNCHANGED op
    BY <2>4
  <2> QED
    BY <1>1, <2>1, <2>2, <2>3, <2>4 DEF Next, Goroutine, Fanout, Verify, UpgradeFails, Serve,
       PeerGone, Probe, Watch, ReadEnds, Disconnect, Close, Shutdown, egress, vars
<1> QED BY <1>1, InvHolds, PTL DEF Spec, OnlyOwnResults

(* A notification is acknowledged only when every session of the copy      *)
(* accepted the result (Router.Deliver's joined errors, Notifier.Handle).  *)
THEOREM SettledMeansReached == Spec => SettledReachedAll
<1> DEFINE Reached == \A t \in queued \ queued' :
                        t \notin Broken => op.turn = t /\ op.targets \subseteq op.accepted
<1>1. ASSUME DeliveryInv, [Next]_vars PROVE [Reached]_vars
  <2>1. ASSUME NEW c \in Conns, WriteTo(c) PROVE Reached
    BY <2>1 DEF WriteTo
  <2>2. ASSUME NEW t \in Turns, Handle(t) PROVE Reached
    BY <2>2 DEF Handle
  <2>3. CASE Finish
    BY <1>1, <2>3 DEF Finish, DeliveryInv, CopyHolds
  <2>4. CASE UNCHANGED queued
    BY <2>4
  <2> QED
    BY <1>1, <2>1, <2>2, <2>3, <2>4 DEF Next, Goroutine, Fanout, Verify, UpgradeFails, Serve,
       PeerGone, Probe, Watch, ReadEnds, Disconnect, Close, Shutdown, egress, vars
<1> QED BY <1>1, InvHolds, PTL DEF Spec, SettledReachedAll

-----------------------------------------------------------------------------
(* The cap: counting and binding are one step (sessions.put).              *)
LEMMA CapStep ==
  ASSUME DeliveryInv, [Next]_vars, TypeOK
  PROVE  \A p \in Players : Cardinality(byPlayer'[p]) <= MaxPerPlayer
<1> USE DeliveryAssumption DEF DeliveryInv
<1>0. IsFiniteSet(Conns) /\ \A S \in SUBSET Conns : IsFiniteSet(S) /\ Cardinality(S) \in Nat
  <2>1. IsFiniteSet(Conns)
    BY FS_Interval DEF Conns
  <2> QED BY <2>1, FS_Subset, FS_CardinalityType
<1>1. ASSUME NEW c \in Conns, Serve(c), ~Full(who[c]), NEW p \in Players
      PROVE  Cardinality(byPlayer'[p]) <= MaxPerPlayer
  <2>1. CASE p = who[c]
    <3>1. byPlayer'[p] = byPlayer[p] \cup {c} /\ byPlayer[p] \in SUBSET Conns
      BY <1>1, <2>1 DEF Serve, Shapes
    <3>2. Cardinality(byPlayer[p] \cup {c}) <= Cardinality(byPlayer[p]) + 1
      BY <1>0, <3>1, FS_AddElement
    <3>3. Cardinality(byPlayer[p]) < MaxPerPlayer /\ Cardinality(byPlayer[p] \cup {c}) \in Nat
      BY <1>0, <1>1, <2>1, <3>1 DEF Full
    <3> QED BY <1>0, <3>1, <3>2, <3>3
  <2>2. CASE p # who[c]
    BY <1>1, <2>2 DEF Serve, Shapes, TypeOK
  <2> QED BY <2>1, <2>2
<1>2. ASSUME NEW c \in Conns, Disconnect(c), NEW p \in Players
      PROVE  Cardinality(byPlayer'[p]) <= MaxPerPlayer
  <2>1. byPlayer'[p] \subseteq byPlayer[p] /\ byPlayer[p] \in SUBSET Conns
    BY <1>2 DEF Disconnect, Shapes
  <2>2. Cardinality(byPlayer'[p]) <= Cardinality(byPlayer[p])
    BY <1>0, <2>1, FS_Subset
  <2> QED BY <1>0, <2>1, <2>2 DEF TypeOK
<1>3. ASSUME UNCHANGED byPlayer, NEW p \in Players
      PROVE  Cardinality(byPlayer'[p]) <= MaxPerPlayer
  BY <1>3 DEF TypeOK
<1> QED
  BY <1>1, <1>2, <1>3 DEF Next, Goroutine, Fanout, Verify, UpgradeFails, Serve, PeerGone, Probe,
     Watch, ReadEnds, Close, Handle, WriteTo, Finish, Shutdown, sockets, table, egress, vars

(* Types, and no player ever holds more connections than the cap.          *)
THEOREM TypeCorrect == Spec => []TypeOK
<1> USE DeliveryAssumption
<1>1. Init => TypeOK
  BY FS_EmptySet DEF Init, TypeOK, IdleOp
<1>2. ASSUME DeliveryInv, DeliveryInv', [Next]_vars, TypeOK PROVE TypeOK'
  <2>1. op' \in {IdleOp} \cup [pc : {"send"}, turn : queued', todo : SUBSET Conns,
                               targets : SUBSET Conns, accepted : SUBSET Conns, failed : BOOLEAN]
    BY <1>2, SendIsNotIdle DEF DeliveryInv, Shapes, CopyHolds, Sends
  <2> QED BY <1>2, <2>1, CapStep DEF DeliveryInv, Shapes, States, TypeOK
<1> QED BY <1>1, <1>2, InvHolds, PTL DEF Spec

-----------------------------------------------------------------------------
(* Shutdown, fairness apart.                                               *)

Distance == [l \in States |-> CASE l = "verified"  -> 4
                               [] l = "reading"   -> 3
                               [] l = "unwinding" -> 2
                               [] l = "closing"   -> 1
                               [] OTHER           -> 0]

LEMMA Distances ==
  /\ Distance["new"] = 0 /\ Distance["verified"] = 4 /\ Distance["reading"] = 3
  /\ Distance["unwinding"] = 2 /\ Distance["closing"] = 1 /\ Distance["done"] = 0
BY DEF Distance, States

(* A socket exists from the bind on.                                       *)
NoSocketYet == \A c \in Conns : loop[c] \in {"new", "verified"} => sock[c] = "none"

LEMMA NoSocketYetStep == ASSUME DeliveryInv, NoSocketYet, [Next]_vars PROVE NoSocketYet'
<1> USE DEF DeliveryInv, Shapes, NoSocketYet
<1>1. ASSUME NEW c \in Conns, NEW p \in Players, Verify(c, p) PROVE NoSocketYet'
  BY <1>1 DEF Verify
<1>2. ASSUME NEW c \in Conns, UpgradeFails(c) \/ Close(c) PROVE NoSocketYet'
  BY <1>2 DEF UpgradeFails, Close, Ended
<1>3. ASSUME NEW c \in Conns, Serve(c) PROVE NoSocketYet'
  BY <1>3 DEF Serve, Ended
<1>4. ASSUME NEW c \in Conns, PeerGone(c) \/ Probe(c) \/ Watch(c) \/ ReadEnds(c) \/ Disconnect(c) PROVE NoSocketYet'
  BY <1>4 DEF PeerGone, Probe, Watch, ReadEnds, Disconnect
<1>5. ASSUME NEW c \in Conns, WriteTo(c) PROVE NoSocketYet'
  BY <1>5 DEF WriteTo
<1>6. CASE UNCHANGED <<loop, sock>>
  BY <1>6
<1> QED
  BY <1>1, <1>2, <1>3, <1>4, <1>5, <1>6
     DEF Next, Goroutine, Fanout, Handle, Finish, Shutdown, vars, sockets

(* Once the server's context has ended, no handshake begins, no connection *)
(* goes back on its way to its end, and a socket that was closed stays     *)
(* closed: the steps that are left to a connection each happen at most     *)
(* once, and it is fairness alone that ShutdownEndsEverySocket still needs.*)
ShutdownOnlyUnwinds ==
  [][~serving =>
       /\ ~serving'
       /\ \A c \in Conns : /\ loop[c] = "new" <=> loop'[c] = "new"
                           /\ loop'[c] # loop[c] => Distance[loop'[c]] < Distance[loop[c]]
                           /\ sock[c] = "closed" => sock'[c] = "closed"]_vars

(* Server.watch and serve's deferred calls, against a bind that was on its *)
(* way when the context ended.                                             *)
THEOREM ShutdownIsFinal == Spec => ShutdownOnlyUnwinds
<1> DEFINE Unwinds(c) == /\ loop[c] = "new" <=> loop'[c] = "new"
                         /\ loop'[c] # loop[c] => Distance[loop'[c]] < Distance[loop[c]]
                         /\ sock[c] = "closed" => sock'[c] = "closed"
           Goal == ~serving => ~serving' /\ \A c \in Conns : Unwinds(c)
<1>1. ASSUME DeliveryInv, NoSocketYet, [Next]_vars PROVE [Goal]_vars
  <2> USE <1>1, Distances DEF DeliveryInv, Shapes
  <2>1. ASSUME NEW c \in Conns, NEW p \in Players, Verify(c, p) PROVE Goal
    BY <2>1 DEF Verify
  <2>2. ASSUME NEW c \in Conns, UpgradeFails(c) \/ Close(c) PROVE Goal
    BY <2>2 DEF UpgradeFails, Close, Ended
  <2>3. ASSUME NEW c \in Conns, Serve(c) PROVE Goal
    BY <2>3 DEF Serve, Ended, NoSocketYet
  <2>4. ASSUME NEW c \in Conns, PeerGone(c) \/ Probe(c) \/ Watch(c) \/ ReadEnds(c) \/ Disconnect(c) PROVE Goal
    BY <2>4 DEF PeerGone, Probe, Watch, ReadEnds, Disconnect
  <2>5. ASSUME NEW c \in Conns, WriteTo(c) PROVE Goal
    BY <2>5 DEF WriteTo
  <2>6. CASE UNCHANGED <<serving, loop, sock>>
    BY <2>6
  <2>7. CASE Shutdown
    BY <2>7 DEF Shutdown
  <2> QED
    BY <2>1, <2>2, <2>3, <2>4, <2>5, <2>6, <2>7
       DEF Next, Goroutine, Fanout, Handle, Finish, vars, sockets
<1>2. Init => NoSocketYet
  BY DEF Init, NoSocketYet
<1> QED BY <1>1, <1>2, NoSocketYetStep, InvHolds, PTL DEF Spec, ShutdownOnlyUnwinds
=============================================================================
