---------------------------- MODULE PlayerDelivery ----------------------------
(***************************************************************************)
(* How a resolved turn reaches the sockets of its player:                  *)
(* internal/gateway/session.go (the session table), internal/playersocket  *)
(* (one goroutine, one prober and one watcher per socket) and              *)
(* internal/egress (the notifier's durable consumer and the router).       *)
(*                                                                         *)
(* The table's operations hold one lock and are single steps.  The router  *)
(* fans out over a COPY of a player's sessions while sockets come and go.  *)
(* Connection ids are minted once and never reused.                        *)
(***************************************************************************)
EXTENDS Naturals, FiniteSets

CONSTANTS
  Players,
  MaxConns,      \* bound: how many connection ids the server mints
  Turns,         \* resolved turns whose notification is on the stream
  Owner,         \* turn -> its player
  Broken,        \* turns whose result can never be composed
  MaxPerPlayer

Conns == 1 .. MaxConns   \* mintConnectionID: a counter

ASSUME DeliveryAssumption ==
  /\ MaxConns \in Nat
  /\ Owner \in [Turns -> Players]
  /\ Broken \subseteq Turns
  /\ MaxPerPlayer \in Nat \ {0}

VARIABLES
  serving,   \* the server's context has not ended
  loop,      \* connection -> how far its goroutine has come
  sock,      \* connection -> "none", "open", "wedged" (the peer is gone), "closed"
  who,       \* connection -> the player its goroutine verified, or NoPlayer
  byPlayer,  \* sessions.byPlayerID
  byConn,    \* the domain of sessions.byConnID
  queued,    \* notifications neither acknowledged nor terminated
  op         \* the notification the notifier is handling

table == <<byPlayer, byConn>>
sockets == <<serving, loop, sock, who>>
egress == <<queued, op>>
vars == <<sockets, table, egress>>

NoPlayer == "nobody"
IdleOp == [pc |-> "idle"]

Init ==
  /\ serving = TRUE
  /\ loop = [c \in Conns |-> "new"]
  /\ sock = [c \in Conns |-> "none"]
  /\ who = [c \in Conns |-> NoPlayer]
  /\ byPlayer = [p \in Players |-> {}]
  /\ byConn = {}
  /\ queued = Turns
  /\ op = IdleOp

-----------------------------------------------------------------------------
(* One connection.                                                         *)

(* ServeHTTP up to the upgrade: only a verified credential becomes a       *)
(* socket.                                                                 *)
Verify(c, p) ==
  /\ serving /\ loop[c] = "new"
  /\ \A d \in 1 .. c - 1 : loop[d] # "new"
  /\ loop' = [loop EXCEPT ![c] = "verified"]
  /\ who' = [who EXCEPT ![c] = p]
  /\ UNCHANGED <<serving, sock, table, egress>>

(* The goroutine is over, and its socket with it.                          *)
Ended(c) ==
  /\ loop' = [loop EXCEPT ![c] = "done"]
  /\ sock' = [sock EXCEPT ![c] = "closed"]
  /\ who' = [who EXCEPT ![c] = NoPlayer]

(* The upgrade fails: nothing was bound.                                   *)
UpgradeFails(c) ==
  /\ loop[c] = "verified"
  /\ Ended(c)
  /\ UNCHANGED <<serving, table, egress>>

(* Mutant of Full: the newest connection is counted out one too late.      *)
FullLate(p) == Cardinality(byPlayer[p]) > MaxPerPlayer

Full(p) == Cardinality(byPlayer[p]) >= MaxPerPlayer

(* serve: Bind, and the goroutines started behind it.  The newest          *)
(* connection is refused at the cap, and no trace of it stays.             *)
Serve(c) ==
  /\ loop[c] = "verified"
  /\ IF Full(who[c])
       THEN Ended(c) /\ UNCHANGED table
       ELSE /\ loop' = [loop EXCEPT ![c] = "reading"]
            /\ sock' = [sock EXCEPT ![c] = "open"]
            /\ byPlayer' = [byPlayer EXCEPT ![who[c]] = @ \cup {c}]
            /\ byConn' = byConn \cup {c}
            /\ UNCHANGED who
  /\ UNCHANGED <<serving, egress>>

(* The peer sleeps, leaves or stops reading; nothing tells the server.     *)
PeerGone(c) ==
  /\ sock[c] = "open"
  /\ sock' = [sock EXCEPT ![c] = "wedged"]
  /\ UNCHANGED <<serving, loop, who, table, egress>>

(* A ping of the prober, or an answer of the read loop, that cannot be     *)
(* written closes the socket.                                              *)
Probe(c) ==
  /\ loop[c] = "reading" /\ sock[c] = "wedged"
  /\ sock' = [sock EXCEPT ![c] = "closed"]
  /\ UNCHANGED <<serving, loop, who, table, egress>>

(* Mutant of Watch: live sockets are left to the HTTP server's shutdown.   *)
WatchWedgedOnly(c) ==
  /\ ~serving /\ loop[c] = "reading" /\ sock[c] = "wedged"
  /\ sock' = [sock EXCEPT ![c] = "closed"]
  /\ UNCHANGED <<serving, loop, who, table, egress>>

(* watch: the server's context ended.                                      *)
Watch(c) ==
  /\ ~serving /\ loop[c] = "reading" /\ sock[c] # "closed"
  /\ sock' = [sock EXCEPT ![c] = "closed"]
  /\ UNCHANGED <<serving, loop, who, table, egress>>

(* readLoop returns: the read deadline passes, or the socket is closed     *)
(* under it.                                                               *)
ReadEnds(c) ==
  /\ loop[c] = "reading" /\ sock[c] # "open"
  /\ loop' = [loop EXCEPT ![c] = "unwinding"]
  /\ UNCHANGED <<serving, sock, who, table, egress>>

(* The second deferred call of serve.                                      *)
Disconnect(c) ==
  /\ loop[c] = "unwinding"
  /\ loop' = [loop EXCEPT ![c] = "closing"]
  /\ byPlayer' = [byPlayer EXCEPT ![who[c]] = @ \ {c}]
  /\ byConn' = byConn \ {c}
  /\ UNCHANGED <<serving, sock, who, egress>>

(* The last deferred call of serve.                                        *)
Close(c) ==
  /\ loop[c] = "closing"
  /\ Ended(c)
  /\ UNCHANGED <<serving, table, egress>>

Shutdown ==
  /\ serving
  /\ serving' = FALSE
  /\ UNCHANGED <<loop, sock, who, table, egress>>

-----------------------------------------------------------------------------
(* The notifier and the router.                                            *)

(* Mutant of Handle: the fan-out is over every session.                    *)
HandleBroadcast(t) ==
  /\ serving /\ op = IdleOp /\ t \in queued
  /\ \/ /\ t \in Broken
        /\ queued' = queued \ {t}
        /\ UNCHANGED op
     \/ /\ t \notin Broken
        /\ op' = [pc |-> "send", turn |-> t, todo |-> byConn, targets |-> byConn,
                  accepted |-> {}, failed |-> FALSE]
        /\ UNCHANGED queued
  /\ UNCHANGED <<sockets, table>>

(* Notifier.Handle up to the fan-out.  What can never be composed is       *)
(* terminated; otherwise the sessions are looked up now.  A reader behind  *)
(* the rule processor, and a read that fails, nak: nothing changes.        *)
Handle(t) ==
  /\ serving /\ op = IdleOp /\ t \in queued
  /\ \/ /\ t \in Broken
        /\ queued' = queued \ {t}
        /\ UNCHANGED op
     \/ /\ t \notin Broken
        /\ op' = [pc |-> "send", turn |-> t, todo |-> byPlayer[Owner[t]],
                  targets |-> byPlayer[Owner[t]], accepted |-> {}, failed |-> FALSE]
        /\ UNCHANGED queued
  /\ UNCHANGED <<sockets, table>>

(* The next session, by connection id.  conn.Write: refused on a closed socket or when the context has ended; a *)
(* socket whose peer is gone may still buffer one document, or fails and   *)
(* is closed.                                                              *)
WriteTo(c) ==
  LET attempted(got, failed) == [pc |-> "send", turn |-> op.turn, todo |-> op.todo \ {c},
                                 targets |-> op.targets, accepted |-> got, failed |-> failed]
      accepted == op' = attempted(op.accepted \cup {c}, op.failed)
      refused == op' = attempted(op.accepted, TRUE)
  IN /\ op.pc = "send" /\ c \in op.todo
     /\ \A d \in op.todo : c <= d
     /\ \/ serving /\ sock[c] \in {"open", "wedged"} /\ accepted /\ UNCHANGED sock
        \/ sock[c] = "wedged" /\ refused /\ sock' = [sock EXCEPT ![c] = "closed"]
        \/ (sock[c] = "closed" \/ ~serving) /\ refused /\ UNCHANGED sock
     /\ UNCHANGED <<serving, loop, who, table, queued>>

(* Mutant of Finish: one acceptance counts for the whole fan-out.          *)
FinishIfAny ==
  /\ op.pc = "send" /\ op.todo = {}
  /\ op' = IdleOp
  /\ queued' = IF op.accepted = {} /\ op.failed THEN queued
               ELSE queued \ {op.turn}
  /\ UNCHANGED <<sockets, table>>

(* Mutant of Finish: a player nobody is connected as counts as a failure.  *)
FinishIfReceived ==
  /\ op.pc = "send" /\ op.todo = {}
  /\ op' = IdleOp
  /\ queued' = IF op.failed \/ op.accepted = {} THEN queued ELSE queued \ {op.turn}
  /\ UNCHANGED <<sockets, table>>

(* Every session was attempted: joined errors nak, none acknowledges.      *)
Finish ==
  /\ op.pc = "send" /\ op.todo = {}
  /\ op' = IdleOp
  /\ queued' = IF op.failed THEN queued ELSE queued \ {op.turn}
  /\ UNCHANGED <<sockets, table>>

Goroutine(c) == Serve(c) \/ ReadEnds(c) \/ Disconnect(c) \/ Close(c)

Fanout == Finish \/ \E c \in Conns : WriteTo(c)

Next == \/ \E c \in Conns, p \in Players : Verify(c, p)
        \/ \E c \in Conns : UpgradeFails(c) \/ Goroutine(c) \/ PeerGone(c) \/ Probe(c) \/ Watch(c)
        \/ \E t \in Turns : Handle(t)
        \/ Fanout \/ Shutdown

(* Goroutines that can run do; a read deadline passes; a notification on   *)
(* the stream is delivered again until it is settled.                      *)
Fairness ==
  /\ \A c \in Conns : WF_vars(Goroutine(c)) /\ WF_vars(Watch(c))
  /\ WF_vars(Fanout)
  /\ \A t \in Turns : WF_vars(Handle(t))

Spec == Init /\ [][Next]_vars /\ Fairness

-----------------------------------------------------------------------------
(* Every variable has its type, the notification being handled has not     *)
(* been settled, and no player holds more connections than the cap         *)
(* (sessions.put counts and binds under one lock).                         *)
TypeOK ==
  /\ serving \in BOOLEAN
  /\ loop \in [Conns -> {"new", "verified", "reading", "unwinding", "closing", "done"}]
  /\ sock \in [Conns -> {"none", "open", "wedged", "closed"}]
  /\ who \in [Conns -> Players \cup {NoPlayer}]
  /\ byPlayer \in [Players -> SUBSET Conns]
  /\ byConn \subseteq Conns
  /\ queued \subseteq Turns
  /\ op \in {IdleOp} \cup [pc : {"send"}, turn : queued, todo : SUBSET Conns, targets : SUBSET Conns,
                           accepted : SUBSET Conns, failed : BOOLEAN]
  /\ \A p \in Players : Cardinality(byPlayer[p]) <= MaxPerPlayer

(* A connection whose read loop runs is bound, as an identity and as a     *)
(* delivery target of exactly the player it authenticated as: a submission *)
(* it reads is never refused as unauthenticated, and the two indexes of    *)
(* the session table never drift.                                          *)
ReaderIsBound ==
  /\ \A c \in Conns : loop[c] = "reading" => c \in byConn
  /\ \A p \in Players : byPlayer[p] = {c \in byConn : who[c] = p}

(* A result only reaches sockets of its own player, although the router's  *)
(* copy of the sessions outlives the bindings it was taken from.           *)
OnlyOwnResults ==
  [][op # IdleOp /\ op' # IdleOp =>
       \A c \in op'.accepted \ op.accepted : who[c] = Owner[op.turn]]_vars

(* A notification leaves the stream only when its result can never be      *)
(* composed, or every session bound when it was handled accepted it: one   *)
(* wedged socket neither silences the others nor is forgotten.             *)
SettledReachedAll ==
  [][\A t \in queued \ queued' : t \notin Broken => op.turn = t /\ op.targets \subseteq op.accepted]_vars

(* Every notification is settled while the server runs: a socket that      *)
(* cannot be written is closed, leaves the table, and stops failing its    *)
(* player's deliveries.                                                    *)
EveryNotificationSettles == \A t \in Turns : t \in queued ~> (t \notin queued \/ ~serving)

(* After the server's context ends every connection that got past the      *)
(* handshake unwinds, one that was being upgraded at that moment included. *)
ShutdownEndsEverySocket == \A c \in Conns : ~serving ~> loop[c] \in {"new", "done"}
=============================================================================
