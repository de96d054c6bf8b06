--------------------------- MODULE CampaignLedger ---------------------------
(***************************************************************************)
(* The append-only archive of resolved turns (internal/ledger): the        *)
(* durable consumer of resolved-turn notifications and the reconciliation  *)
(* at boot, both through one read-then-append path; the manifest they      *)
(* compose from the turn's facts; and the replay of an archived turn from  *)
(* the content store, whose objects are kept under a key of their turn and *)
(* can be replaced by a second judgment after the turn has moved on.       *)
(***************************************************************************)
EXTENDS Naturals, Sequences, FiniteSets

CONSTANTS
  TurnOrder,      \* the campaign's turns, in the order the prefix query lists them
  Ended,          \* the ones that failed before any writer ran, unannounced
  Writers,        \* the processes that run a ledger writer
  Verdicts,       \* what an adjudicator may say: "auto", or a verdict that asks for dice
  PageLimit,      \* turns per page of the reconciliation
  Timely,         \* an append takes less than the de-duplication window
  MaxJudgments,   \* bound: verdicts submitted for one turn
  MaxFaults,      \* bound: failed round trips, crashes and early redeliveries
  None

ASSUME LedgerAssumption ==
  /\ TurnOrder \in Seq({TurnOrder[i] : i \in DOMAIN TurnOrder}) /\ TurnOrder # <<>>
  /\ Ended \subseteq {TurnOrder[i] : i \in DOMAIN TurnOrder}
  /\ IsFiniteSet(Writers) /\ Writers # {}
  /\ "auto" \in Verdicts
  /\ PageLimit \in Nat \ {0}
  /\ Timely \in BOOLEAN
  /\ MaxJudgments \in Nat /\ MaxFaults \in Nat
  /\ None \notin Verdicts \cup {TurnOrder[i] : i \in DOMAIN TurnOrder} \cup {"auto", "dice"}

Turns == {TurnOrder[i] : i \in DOMAIN TurnOrder}
Gates == {"none", "auto", "dice"}
GateOf(v) == IF v = "auto" THEN "auto" ELSE "dice"

(* What a turn entity records that a manifest is composed of.              *)
Facts == [phase : {"live", "complete", "failed"}, gate : Gates,
          roll : BOOLEAN, marker : BOOLEAN, narration : BOOLEAN]

(* TurnManifest.Validate, and the terminalPhase of Compose.                *)
Coherent(f) ==
  /\ f.phase # "live"
  /\ f.phase = "complete" => f.gate # "none" /\ f.narration
Manifests == {f \in Facts : Coherent(f)}

VARIABLES
  facts,    \* turn -> the facts on its entity
  stored,   \* turn -> the objects the content store holds under its keys
  applied,  \* turn -> the verdict whose batch the world took
  pending,  \* turn -> a verdict stored and not yet recorded on the turn
  judged,   \* turn -> verdicts submitted
  late,     \* turns judged again, or judged after their end (history)
  queue,    \* turns whose resolved notification is unacknowledged
  archive,  \* turn -> the manifests on its ledger subject
  window,   \* turns whose message id the stream still remembers
  writer,   \* process -> its ledger writer
  faults    \* failures so far

turnVars == <<facts, stored, applied, pending, judged, late>>
vars == <<turnVars, queue, archive, window, writer, faults>>

Idle == [turn |-> None, manifest |-> None, lane |-> None, pc |-> None]
Down == [st |-> "down", at |-> 0, page |-> <<>>, read |-> <<>>, job |-> Idle,
         failed |-> {}, seen |-> {}]

(* A turn on its way to the archive, from a notification or from the scan. *)
Jobs == {Idle} \cup [turn : Turns, manifest : Manifests, lane : {"note", "scan"},
                     pc : {"read", "publish"}]

(* A ledger writer: how far its scan has come, the page at hand with the   *)
(* entities it was read with, the turn being archived, and what the scan   *)
(* found ended and could not archive.                                      *)
WriterStates == [st : {"down", "scan", "up"}, at : 0 .. Len(TurnOrder),
                 page : Seq(Turns), read : Seq(Facts), job : Jobs,
                 failed : SUBSET Turns, seen : SUBSET Turns]

(* The objects under a turn's keys, each named by the verdict it stems from*)
(* (the narration by the band it tells).                                   *)
Objects == [verdict : Verdicts \cup {None}, roll : Verdicts \cup {None},
            batch : Verdicts \cup {None}, band : {"auto", "dice", None}]

(* Every variable has its type; a job carries a manifest, so a turn that   *)
(* has not ended is never on its way to the archive.                       *)
TypeOK ==
  /\ facts \in [Turns -> Facts]
  /\ stored \in [Turns -> Objects]
  /\ applied \in [Turns -> Verdicts \cup {None}]
  /\ pending \in [Turns -> Verdicts \cup {None}]
  /\ judged \in [Turns -> 0 .. MaxJudgments]
  /\ late \subseteq Turns /\ queue \subseteq Turns /\ window \subseteq Turns
  /\ archive \in [Turns -> Seq(Manifests)]
  /\ writer \in [Writers -> WriterStates]
  /\ faults \in 0 .. MaxFaults

Init ==
  /\ facts = [t \in Turns |-> [phase |-> IF t \in Ended THEN "failed" ELSE "live", gate |-> "none",
                               roll |-> FALSE, marker |-> FALSE, narration |-> FALSE]]
  /\ stored = [t \in Turns |-> [verdict |-> None, roll |-> None, batch |-> None, band |-> None]]
  /\ applied = [t \in Turns |-> None]
  /\ pending = [t \in Turns |-> None]
  /\ judged = [t \in Turns |-> IF t \in Ended THEN MaxJudgments ELSE 0]
  /\ late = {} /\ queue = {} /\ window = {}
  /\ archive = [t \in Turns |-> <<>>]
  /\ writer = [w \in Writers |-> Down]
  /\ faults = 0

Fault == faults < MaxFaults /\ faults' = faults + 1
Calm == UNCHANGED faults

-----------------------------------------------------------------------------
(* The turn, as far as its record is concerned.                            *)

(* VerdictExecutor.Execute: the object is put under the turn's key, then   *)
(* the facts are recorded.  Neither asks what phase the turn is in, and a  *)
(* persona task delivered a second time judges again.                      *)
PutVerdict(t, v) ==
  /\ pending[t] = None
  /\ judged[t] < MaxJudgments
  /\ judged' = [judged EXCEPT ![t] = @ + 1]
  /\ stored' = [stored EXCEPT ![t].verdict = v]
  /\ pending' = [pending EXCEPT ![t] = v]
  /\ late' = IF judged[t] > 0 \/ facts[t].phase # "live" THEN late \cup {t} ELSE late
  /\ UNCHANGED <<facts, applied, queue, archive, window, writer, faults>>

RecordVerdict(t) ==
  /\ pending[t] # None
  /\ facts' = [facts EXCEPT ![t].gate = GateOf(pending[t])]
  /\ pending' = [pending EXCEPT ![t] = None]
  /\ late' = IF facts[t].phase # "live" THEN late \cup {t} ELSE late
  /\ UNCHANGED <<stored, applied, judged, queue, archive, window, writer, faults>>

(* Resolver.Run: the dice are thrown for the stored verdict, once.         *)
Resolve(t) ==
  /\ facts[t].phase = "live" /\ facts[t].gate = "dice" /\ ~facts[t].roll
  /\ GateOf(stored[t].verdict) = "dice"
  /\ stored' = [stored EXCEPT ![t].roll = stored[t].verdict]
  /\ facts' = [facts EXCEPT ![t].roll = TRUE]
  /\ UNCHANGED <<applied, pending, judged, late, queue, archive, window, writer, faults>>

(* Effector.Run: committedBand must agree with the stored verdict; the     *)
(* batch is stored BEFORE the applier looks for the marker, so a repeated  *)
(* trigger replaces the object even when nothing is applied.               *)
Apply(t) ==
  /\ facts[t].phase = "live" /\ facts[t].gate # "none" /\ ~facts[t].narration
  /\ facts[t].gate = "dice" => facts[t].roll
  /\ facts[t].roll <=> GateOf(stored[t].verdict) = "dice"
  /\ stored' = [stored EXCEPT ![t].batch = stored[t].verdict]
  /\ applied' = [applied EXCEPT ![t] = IF facts[t].marker THEN @ ELSE stored[t].verdict]
  /\ facts' = [facts EXCEPT ![t].marker = TRUE]
  /\ UNCHANGED <<pending, judged, late, queue, archive, window, writer, faults>>

(* Mutant of Narrate: the band is taken for "auto" whatever was rolled.    *)
NarrateAuto(t) ==
  /\ facts[t].phase = "live" /\ facts[t].marker /\ ~facts[t].narration
  /\ facts' = [facts EXCEPT ![t].narration = TRUE]
  /\ stored' = [stored EXCEPT ![t].band = "auto"]
  /\ UNCHANGED <<applied, pending, judged, late, queue, archive, window, writer, faults>>

(* NarrationExecutor.Execute: the prose is stored with the band it tells.  *)
Narrate(t) ==
  /\ facts[t].phase = "live" /\ facts[t].marker /\ ~facts[t].narration
  /\ facts' = [facts EXCEPT ![t].narration = TRUE]
  /\ stored' = [stored EXCEPT ![t].band = IF facts[t].roll THEN "dice" ELSE "auto"]
  /\ UNCHANGED <<applied, pending, judged, late, queue, archive, window, writer, faults>>

(* The turn ends.  The rule that announces it compares with a remembered   *)
(* phase, and says nothing when its memory was cleared.                    *)
End(t) ==
  /\ facts[t].phase = "live"
  /\ \E p \in {"complete", "failed"} :
       /\ p = "complete" => facts[t].narration
       /\ facts' = [facts EXCEPT ![t].phase = p]
  /\ \/ queue' = queue \cup {t}
     \/ UNCHANGED queue
  /\ UNCHANGED <<stored, applied, pending, judged, late, archive, window, writer, faults>>

-----------------------------------------------------------------------------
(* The writer.                                                             *)

(* Compose: the manifest of a turn is its facts, if they are a coherent    *)
(* account of an ended turn.                                               *)
Compose(f) == IF Coherent(f) THEN f ELSE None

(* Mutant of Failed: the scan forgets the turn it could not archive.       *)
FailedForgotten(w, j) ==
  writer' = [writer EXCEPT ![w].job = Idle]

(* A failed append: collected by the scan, redelivered by the consumer.    *)
Failed(w, j) ==
  writer' = [writer EXCEPT ![w].job = Idle,
                           ![w].failed = IF j.lane = "scan" THEN @ \cup {j.turn} ELSE @]

(* A finished one: the next turn of the page, or the acknowledgement.      *)
Settled(w, j) ==
  /\ writer' = [writer EXCEPT ![w].job = Idle]
  /\ queue' = IF j.lane = "note" THEN queue \ {j.turn} ELSE queue

(* Writer.Start: the archive stream is ensured, then the scan begins.      *)
Start(w) ==
  /\ writer[w].st = "down"
  /\ writer' = [writer EXCEPT ![w] = [Down EXCEPT !.st = "scan"]]
  /\ Calm
  /\ UNCHANGED <<turnVars, queue, archive, window>>

(* Reconcile: one page of whole entities; an enumeration that fails ends   *)
(* the scan, and the consumer is bound all the same.                       *)
ReadPage(w) ==
  /\ writer[w].st = "scan" /\ writer[w].page = <<>> /\ writer[w].job = Idle
  /\ writer[w].at < Len(TurnOrder)
  /\ LET from == writer[w].at + 1
         to == IF writer[w].at + PageLimit > Len(TurnOrder) THEN Len(TurnOrder)
               ELSE writer[w].at + PageLimit
         page == SubSeq(TurnOrder, from, to)
     IN \/ /\ writer' = [writer EXCEPT ![w].at = to, ![w].page = page,
                                       ![w].read = [i \in DOMAIN page |-> facts[page[i]]]]
           /\ Calm
        \/ /\ Fault
           /\ writer' = [writer EXCEPT ![w].st = "up",
                           ![w].failed = @ \cup {TurnOrder[i] : i \in from .. Len(TurnOrder)}]
  /\ UNCHANGED <<turnVars, queue, archive, window>>

(* reconcileTurn: a turn in flight is counted, a resolved one archived     *)
(* from the entity the page carried.                                       *)
ReconcileTurn(w) ==
  /\ writer[w].st = "scan" /\ writer[w].page # <<>> /\ writer[w].job = Idle
  /\ LET t == Head(writer[w].page)
         f == Head(writer[w].read)
         rest == [writer[w] EXCEPT !.page = Tail(@), !.read = Tail(@)]
     IN writer' = [writer EXCEPT ![w] =
          IF f.phase = "live" THEN rest
          ELSE IF Compose(f) = None
            THEN [rest EXCEPT !.failed = @ \cup {t}, !.seen = @ \cup {t}]
            ELSE [rest EXCEPT !.seen = @ \cup {t},
                    !.job = [turn |-> t, manifest |-> Compose(f), lane |-> "scan", pc |-> "read"]]]
  /\ Calm
  /\ UNCHANGED <<turnVars, queue, archive, window>>

(* Writer.Start, last: the consumer is bound whatever the scan reported.   *)
Bind(w) ==
  /\ writer[w].st = "scan" /\ writer[w].page = <<>> /\ writer[w].job = Idle
  /\ writer[w].at = Len(TurnOrder)
  /\ writer' = [writer EXCEPT ![w].st = "up"]
  /\ Calm
  /\ UNCHANGED <<turnVars, queue, archive, window>>

(* Mutant of Handle: the notification is acknowledged before the append.   *)
HandleAcksFirst(w) ==
  /\ writer[w].st = "up" /\ writer[w].job = Idle
  /\ \E t \in queue :
       /\ writer' = [writer EXCEPT ![w].job =
            [turn |-> t, manifest |-> Compose(facts[t]), lane |-> "note", pc |-> "read"]]
       /\ queue' = queue \ {t}
  /\ Calm
  /\ UNCHANGED <<turnVars, archive, window>>

(* Handle and Append: a notification is delivered (to a second process     *)
(* only when the first overran its AckWait) and its turn read.             *)
Handle(w) ==
  /\ writer[w].st = "up" /\ writer[w].job = Idle
  /\ \E t \in queue :
       /\ Compose(facts[t]) # None
       /\ writer' = [writer EXCEPT ![w].job =
            [turn |-> t, manifest |-> Compose(facts[t]), lane |-> "note", pc |-> "read"]]
       /\ IF \E o \in Writers : writer[o].job.turn = t /\ writer[o].job.lane = "note"
            THEN Fault ELSE Calm
  /\ UNCHANGED <<turnVars, queue, archive, window>>

(* Mutant of ReadArchive: the message id is trusted instead of the read.   *)
ReadArchiveSkipped(w) ==
  LET j == writer[w].job
  IN /\ j # Idle /\ j.pc = "read"
     /\ writer' = [writer EXCEPT ![w].job.pc = "publish"]
     /\ Calm
     /\ UNCHANGED <<turnVars, queue, archive, window>>

(* archiveTurn, the durable guard: an identical manifest settles the turn, *)
(* a different one is an error, an empty subject is appended to next.      *)
ReadArchive(w) ==
  LET j == writer[w].job
      found == archive[j.turn]
  IN /\ j # Idle /\ j.pc = "read"
     /\ \/ /\ found = <<>>
           /\ writer' = [writer EXCEPT ![w].job.pc = "publish"]
           /\ UNCHANGED queue /\ Calm
        \/ /\ found # <<>> /\ found[Len(found)] = j.manifest
           /\ Settled(w, j) /\ Calm
        \/ /\ found # <<>> /\ found[Len(found)] # j.manifest
           /\ Failed(w, j) /\ UNCHANGED queue /\ Calm
        \/ Fault /\ Failed(w, j) /\ UNCHANGED queue
     /\ UNCHANGED <<turnVars, archive, window>>

(* archiveTurn, the append: the stream drops a message whose id it still   *)
(* remembers and acknowledges it; the publish may fail before or after it  *)
(* is stored.                                                              *)
Publish(w) ==
  LET j == writer[w].job
      Store == /\ archive' = [archive EXCEPT ![j.turn] =
                                IF j.turn \in window THEN @ ELSE Append(@, j.manifest)]
               /\ window' = window \cup {j.turn}
  IN /\ j # Idle /\ j.pc = "publish"
     /\ \/ Store /\ Settled(w, j) /\ Calm
        \/ Store /\ Failed(w, j) /\ UNCHANGED queue /\ Fault
        \/ UNCHANGED <<archive, window, queue>> /\ Failed(w, j) /\ Fault
     /\ UNCHANGED turnVars

(* The stream forgets a message id after DuplicateWindow; a writer that is *)
(* timely does not sit on an empty reading for that long.                  *)
CloseWindow(t) ==
  /\ t \in window
  /\ Timely => \A w \in Writers : ~(writer[w].job.turn = t /\ writer[w].job.pc = "publish")
  /\ window' = window \ {t}
  /\ UNCHANGED <<turnVars, queue, archive, writer, faults>>

Crash(w) ==
  /\ writer[w].st # "down"
  /\ Fault
  /\ writer' = [writer EXCEPT ![w] = Down]
  /\ UNCHANGED <<turnVars, queue, archive, window>>

WriterStep(w) ==
  Start(w) \/ ReadPage(w) \/ ReconcileTurn(w) \/ Bind(w) \/ Handle(w) \/ ReadArchive(w) \/ Publish(w)

TurnStep(t) ==
  \/ \E v \in Verdicts : PutVerdict(t, v)
  \/ RecordVerdict(t) \/ Resolve(t) \/ Apply(t) \/ Narrate(t) \/ End(t) \/ CloseWindow(t)

Next ==
  \/ \E t \in Turns : TurnStep(t)
  \/ \E w \in Writers : WriterStep(w) \/ Crash(w)

Spec == Init /\ [][Next]_vars

(* A writer that can take a step takes it, and a crashed one is restarted. *)
FairSpec == Spec /\ \A w \in Writers : WF_vars(WriterStep(w))

-----------------------------------------------------------------------------
(* Reader.Replay, over the archived manifest and the objects the store     *)
(* holds now.  The dice are thrown again from the stored verdict, and must *)
(* come out as the stored roll; a verdict that asked for dice needs a roll.*)
ReplayRollRefused(m, s) ==
  LET verdict == IF m.gate = "none" THEN None ELSE s.verdict
  IN IF m.roll THEN verdict = None \/ GateOf(verdict) = "auto" \/ s.roll # verdict
     ELSE verdict # None /\ GateOf(verdict) = "dice"

(* readNarration and checkBand: the prose tells the band that was rolled.  *)
NarrationRefused(m, s) == m.narration /\ s.band # (IF m.roll THEN "dice" ELSE "auto")

ReplayRefused(t) ==
  ReplayRollRefused(archive[t][1], stored[t]) \/ NarrationRefused(archive[t][1], stored[t])

(* The archive holds one account of a turn, for ever: whatever races of    *)
(* notification, scan, redelivery and lost acknowledgement append it, its  *)
(* subject has at most one manifest, of the turn as it ended.  Only the    *)
(* roll gate may differ, if the turn was judged after its end.             *)
OneAccountPerTurn ==
  \A t \in Turns : archive[t] # <<>> =>
    /\ Len(archive[t]) = 1
    /\ [archive[t][1] EXCEPT !.gate = facts[t].gate] = facts[t]
    /\ t \notin late => archive[t][1] = facts[t]

(* A bound consumer that reported no failure means a whole archive: every  *)
(* turn the scan saw ended is on its subject.                              *)
BoundMeansWhole ==
  \A w \in Writers : writer[w].st = "up" =>
    \A t \in writer[w].seen : archive[t] # <<>> \/ t \in writer[w].failed

(* An archived turn that was not judged late replays as it was played: the *)
(* replay accepts it and the batch on record is the batch the world took.  *)
(* (A turn that failed between its verdict and its dice is refused, though *)
(* the reader's comment calls it an honest archived turn.)                 *)
ReplaysAsPlayed ==
  \A t \in Turns : archive[t] # <<>> /\ t \notin late =>
    /\ ReplayRefused(t) => facts[t].phase = "failed" /\ facts[t].gate = "dice" /\ ~facts[t].roll
    /\ facts[t].marker => stored[t].batch = applied[t]

(* A notified turn is archived in the end, through failed round trips,     *)
(* lost acknowledgements and crashes.                                      *)
NotifiedIsArchived == \A t \in Turns : t \in queue ~> archive[t] # <<>>
=============================================================================
