------------------------ MODULE CampaignLedgerProofs ------------------------
(***************************************************************************)
(* The archive of CampaignLedger, for every order of turns, page limit,    *)
(* set of writers and number of faults.                                    *)
(***************************************************************************)
EXTENDS CampaignLedger, SequenceTheorems, TLAPS

(* m is an account of turn t: t has ended, and m is what its entity says,  *)
(* except for the roll gate of a turn that was judged late.                *)
Account(t, m) ==
  /\ facts[t].phase # "live"
  /\ m.phase = facts[t].phase
  /\ m.roll = facts[t].roll
  /\ m.marker = facts[t].marker
  /\ m.narration = facts[t].narration
  /\ t \notin late => m.gate = facts[t].gate

(* Whatever a writer read of an ended turn, at whatever time, is still an  *)
(* account of it: in a page, in a job, on the archive.                     *)
Holds(x) ==
  /\ Len(x.read) = Len(x.page)
  /\ \A i \in DOMAIN x.page : x.read[i].phase # "live" => Account(x.page[i], x.read[i])
  /\ x.job # Idle => Account(x.job.turn, x.job.manifest)
ReadingsAreAccounts == \A w \in Writers : Holds(writer[w])
ArchiveIsAccounts ==
  \A t \in Turns : \A i \in 1 .. Len(archive[t]) : Account(t, archive[t][i])
AccountInv == TypeOK /\ ReadingsAreAccounts /\ ArchiveIsAccounts

(* An id in the window is an id on the subject; and a writer that found    *)
(* its subject empty is covered by the window once it no longer is, for as *)
(* long as the stream remembers the id of an append in progress.           *)
WindowIsArchived == \A t \in window : archive[t] # <<>>
PublishIsCovered ==
  \A w \in Writers :
    LET j == writer[w].job
    IN j # Idle /\ j.pc = "publish" /\ archive[j.turn] # <<>> => j.turn \in window
AtMostOne == \A t \in Turns : Len(archive[t]) \in {0, 1}
SingleInv == AccountInv /\ WindowIsArchived /\ PublishIsCovered /\ AtMostOne

(* What the scan saw ended is archived, reported, or being archived.       *)
SeenIsSettled ==
  \A w \in Writers :
    LET j == writer[w].job
    IN /\ j # Idle /\ j.lane = "scan" => writer[w].st = "scan"
       /\ \A t \in writer[w].seen :
            \/ archive[t] # <<>> \/ t \in writer[w].failed
            \/ j # Idle /\ j.turn = t /\ j.lane = "scan"
WholeInv == AccountInv /\ WindowIsArchived /\ SeenIsSettled

(* The record of a turn and the objects stored for it, while it has been   *)
(* judged once and in time.                                                *)
RecordAgrees ==
  \A t \in Turns :
    /\ pending[t] # None => stored[t].verdict = pending[t] /\ judged[t] > 0
    /\ facts[t].gate # "none" => judged[t] > 0
    /\ facts[t].phase = "complete" => facts[t].narration
    /\ facts[t].narration => facts[t].marker
    /\ t \notin late =>
         LET f == facts[t]
             s == stored[t]
         IN /\ f.gate # "none" => pending[t] = None /\ s.verdict # None /\ f.gate = GateOf(s.verdict)
            /\ f.roll => f.gate = "dice" /\ s.roll = s.verdict
            /\ f.marker => f.gate # "none" /\ (f.gate = "dice" => f.roll)
            /\ f.marker => s.batch = s.verdict /\ applied[t] = s.verdict
            /\ f.narration => s.band = (IF f.roll THEN "dice" ELSE "auto")

-----------------------------------------------------------------------------
(* Types.                                                                  *)

LEMMA TurnOrderIsSeq == /\ TurnOrder \in Seq(Turns) /\ Len(TurnOrder) \in Nat
                        /\ \A i \in 1 .. Len(TurnOrder) : TurnOrder[i] \in Turns
<1>1. TurnOrder \in Seq(Turns)
  BY LedgerAssumption DEF Turns
<1> QED BY <1>1, LenProperties, ElementOfSeq

LEMMA IdleIsJob == Idle \in Jobs
BY DEF Jobs

LEMMA JobParts ==
  ASSUME NEW j \in Jobs, j # Idle
  PROVE  /\ j.turn \in Turns /\ j.manifest \in Manifests
         /\ j.lane \in {"note", "scan"} /\ j.pc \in {"read", "publish"}
         /\ [j EXCEPT !.pc = "publish"] \in Jobs
BY DEF Jobs

LEMMA NewJob ==
  ASSUME NEW t \in Turns, NEW m \in Manifests, NEW lane \in {"note", "scan"}
  PROVE  [turn |-> t, manifest |-> m, lane |-> lane, pc |-> "read"] \in Jobs
BY DEF Jobs

LEMMA ComposedIsManifest ==
  ASSUME NEW f \in Facts, Compose(f) # None
  PROVE  Compose(f) \in Manifests /\ Compose(f) = f /\ Coherent(f)
BY DEF Compose, Manifests

LEMMA DownIsState == Down \in WriterStates /\ [Down EXCEPT !.st = "scan"] \in WriterStates
<1>1. 0 \in 0 .. Len(TurnOrder) /\ <<>> \in Seq(Turns) /\ <<>> \in Seq(Facts)
  BY TurnOrderIsSeq
<1>2. Down \in WriterStates
  BY <1>1, IdleIsJob DEF WriterStates, Down
<1> QED BY <1>2 DEF WriterStates

LEMMA FunctionIsSeq ==
  ASSUME NEW S, NEW n \in Nat, NEW g \in [1 .. n -> S]
  PROVE  g \in Seq(S) /\ Len(g) = n /\ DOMAIN g = 1 .. n
OBVIOUS

(* The page a reconciliation reads, and what is left of one.               *)
PageTaken(w, to, page, read) ==
  /\ Len(read) = Len(page)
  /\ \A i \in DOMAIN page : read[i] = facts[page[i]]
  /\ writer' = [writer EXCEPT ![w].at = to, ![w].page = page, ![w].read = read]
ScanGivesUp(w, rest) == writer' = [writer EXCEPT ![w].st = "up", ![w].failed = rest]

LEMMA PageRead ==
  ASSUME TypeOK, NEW w \in Writers, ReadPage(w)
  PROVE  \E to \in 0 .. Len(TurnOrder), page \in Seq(Turns), read \in Seq(Facts), rest \in SUBSET Turns :
           PageTaken(w, to, page, read) \/ ScanGivesUp(w, rest)
<1> DEFINE at == writer[w].at
<1>1. at \in 0 .. Len(TurnOrder) /\ at < Len(TurnOrder) /\ writer[w].failed \subseteq Turns
  BY DEF ReadPage, TypeOK, WriterStates
<1>2. PICK to : to = IF at + PageLimit > Len(TurnOrder) THEN Len(TurnOrder) ELSE at + PageLimit
  OBVIOUS
<1>3. to \in at .. Len(TurnOrder) /\ to \in 0 .. Len(TurnOrder)
  BY <1>1, <1>2, TurnOrderIsSeq, LedgerAssumption
<1>4. PICK page : page = SubSeq(TurnOrder, at + 1, to)
  OBVIOUS
<1>5. page \in Seq(Turns)
  <2>1. at + 1 \in Int /\ to \in Int /\ \A i \in at + 1 .. to : TurnOrder[i] \in Turns
    BY <1>1, <1>3, TurnOrderIsSeq
  <2> QED BY <1>4, <2>1, SubSeqProperties
<1>6. Len(page) \in Nat /\ DOMAIN page = 1 .. Len(page) /\ \A i \in 1 .. Len(page) : page[i] \in Turns
  BY <1>5
<1>7. PICK read : read = [i \in DOMAIN page |-> facts[page[i]]]
  OBVIOUS
<1>8. read \in [1 .. Len(page) -> Facts]
  BY <1>6, <1>7 DEF TypeOK
<1>9. read \in Seq(Facts) /\ Len(read) = Len(page)
  BY <1>6, <1>8, FunctionIsSeq
<1>10. PICK rest : rest = writer[w].failed \cup {TurnOrder[i] : i \in at + 1 .. Len(TurnOrder)}
  OBVIOUS
<1>11. rest \in SUBSET Turns
  BY <1>1, <1>10, TurnOrderIsSeq
<1>12. PageTaken(w, to, page, read) \/ ScanGivesUp(w, rest)
  BY <1>2, <1>4, <1>7, <1>9, <1>10 DEF ReadPage, PageTaken, ScanGivesUp
<1> QED BY <1>3, <1>5, <1>9, <1>11, <1>12

LEMMA PageRest ==
  ASSUME NEW x \in WriterStates, x.page # <<>>, Len(x.read) = Len(x.page)
  PROVE  /\ Head(x.page) \in Turns /\ Head(x.read) \in Facts
         /\ Head(x.page) = x.page[1] /\ Head(x.read) = x.read[1] /\ 1 \in DOMAIN x.page
         /\ Tail(x.page) \in Seq(Turns) /\ Tail(x.read) \in Seq(Facts)
         /\ Len(Tail(x.read)) = Len(Tail(x.page))
         /\ \A i \in DOMAIN Tail(x.page) : /\ i + 1 \in DOMAIN x.page
                                           /\ Tail(x.page)[i] = x.page[i + 1]
                                           /\ Tail(x.read)[i] = x.read[i + 1]
<1>1. x.page \in Seq(Turns) /\ x.read \in Seq(Facts)
  BY DEF WriterStates
<1>2. x.read # <<>> /\ Len(x.page) \in Nat /\ Len(x.page) > 0
  BY <1>1
<1> QED BY <1>1, <1>2, HeadTailProperties

LEMMA FailedType ==
  ASSUME TypeOK, NEW w \in Writers, writer[w].job # Idle, Failed(w, writer[w].job)
  PROVE  writer' \in [Writers -> WriterStates]
<1> DEFINE j == writer[w].job
           failed == IF j.lane = "scan" THEN writer[w].failed \cup {j.turn} ELSE writer[w].failed
<1>1. writer[w] \in WriterStates /\ j \in Jobs /\ writer[w].failed \subseteq Turns
  BY DEF TypeOK, WriterStates
<1>2. failed \in SUBSET Turns
  BY <1>1, JobParts
<1>3. writer' = [writer EXCEPT ![w].job = Idle, ![w].failed = failed]
  BY DEF Failed
<1> HIDE DEF failed
<1> QED BY <1>1, <1>2, <1>3, IdleIsJob DEF TypeOK, WriterStates

LEMMA WriterType ==
  ASSUME AccountInv, NEW w \in Writers, WriterStep(w) \/ Crash(w)
  PROVE  writer' \in [Writers -> WriterStates]
<1> USE DEF AccountInv
<1> DEFINE x == writer[w]
<1>0. x \in WriterStates /\ x.job \in Jobs /\ writer \in [Writers -> WriterStates] /\ Len(x.read) = Len(x.page)
  BY DEF TypeOK, WriterStates, ReadingsAreAccounts, Holds
<1>1. CASE Start(w) \/ Crash(w)
  BY <1>0, <1>1, DownIsState DEF Start, Crash
<1>2. CASE Bind(w)
  BY <1>0, <1>2 DEF Bind, WriterStates
<1>3. CASE ReadPage(w)
  <2>1. PICK to \in 0 .. Len(TurnOrder), page \in Seq(Turns), read \in Seq(Facts), rest \in SUBSET Turns :
          PageTaken(w, to, page, read) \/ ScanGivesUp(w, rest)
    BY <1>3, PageRead
  <2>2. CASE PageTaken(w, to, page, read)
    BY <1>0, <2>2 DEF WriterStates, PageTaken
  <2>3. CASE ScanGivesUp(w, rest)
    BY <1>0, <2>3 DEF WriterStates, ScanGivesUp
  <2> QED BY <2>1, <2>2, <2>3
<1>4. CASE ReconcileTurn(w)
  <2> DEFINE t == Head(x.page)
             f == Head(x.read)
             rest == [x EXCEPT !.page = Tail(@), !.read = Tail(@)]
             job == [turn |-> t, manifest |-> Compose(f), lane |-> "scan", pc |-> "read"]
  <2>1. x.page # <<>>
    BY <1>4 DEF ReconcileTurn
  <2>2. t \in Turns /\ f \in Facts /\ rest \in WriterStates
    BY <1>0, <2>1, PageRest DEF WriterStates
  <2>3. Compose(f) # None => job \in Jobs
    BY <2>2, ComposedIsManifest, NewJob
  <2>4. \/ writer' = [writer EXCEPT ![w] = rest]
        \/ writer' = [writer EXCEPT ![w] = [rest EXCEPT !.failed = @ \cup {t}, !.seen = @ \cup {t}]]
        \/ Compose(f) # None /\ writer' = [writer EXCEPT ![w] = [rest EXCEPT !.seen = @ \cup {t}, !.job = job]]
    BY <1>4 DEF ReconcileTurn
  <2> HIDE DEF t, f, rest, job
  <2>5. [rest EXCEPT !.failed = @ \cup {t}, !.seen = @ \cup {t}] \in WriterStates
    BY <2>2 DEF WriterStates
  <2>6. Compose(f) # None => [rest EXCEPT !.seen = @ \cup {t}, !.job = job] \in WriterStates
    BY <2>2, <2>3 DEF WriterStates
  <2> QED BY <1>0, <2>2, <2>4, <2>5, <2>6
<1>5. CASE Handle(w)
  <2>1. PICK t \in queue : Compose(facts[t]) # None /\ writer' = [writer EXCEPT ![w].job =
            [turn |-> t, manifest |-> Compose(facts[t]), lane |-> "note", pc |-> "read"]]
    BY <1>5 DEF Handle
  <2>2. [turn |-> t, manifest |-> Compose(facts[t]), lane |-> "note", pc |-> "read"] \in Jobs
    BY <2>1, ComposedIsManifest, NewJob DEF TypeOK
  <2> QED BY <1>0, <2>1, <2>2 DEF WriterStates
<1>6. CASE ReadArchive(w) \/ Publish(w)
  <2>1. x.job # Idle
    BY <1>6 DEF ReadArchive, Publish
  <2>2. CASE Failed(w, x.job)
    BY <2>1, <2>2, FailedType
  <2>3. CASE writer' = [writer EXCEPT ![w].job = Idle]
    BY <1>0, <2>3, IdleIsJob DEF WriterStates
  <2>4. CASE writer' = [writer EXCEPT ![w].job.pc = "publish"]
    <3>1. [x.job EXCEPT !.pc = "publish"] \in Jobs
      BY <1>0, <2>1, JobParts
    <3>2. writer' = [writer EXCEPT ![w].job = [x.job EXCEPT !.pc = "publish"]]
      BY <2>4
    <3> QED BY <1>0, <3>1, <3>2 DEF WriterStates
  <2> QED BY <1>6, <2>2, <2>3, <2>4 DEF ReadArchive, Publish, Settled
<1> QED BY <1>1, <1>2, <1>3, <1>4, <1>5, <1>6 DEF WriterStep

(* A turn's steps leave the writers and the archive alone, a writer's the  *)
(* turns.                                                                  *)
LEMMA TurnStepFrame ==
  ASSUME NEW t \in Turns, TurnStep(t)
  PROVE  UNCHANGED <<writer, archive, faults>>
BY DEF TurnStep, PutVerdict, RecordVerdict, Resolve, Apply, Narrate, End, CloseWindow

LEMMA WriterStepFrame ==
  ASSUME NEW w \in Writers, WriterStep(w) \/ Crash(w)
  PROVE  UNCHANGED turnVars
BY DEF WriterStep, Start, ReadPage, ReconcileTurn, Bind, Handle, ReadArchive, Publish, Crash

LEMMA FactsType ==
  ASSUME TypeOK, NEW t \in Turns, TurnStep(t)
  PROVE  facts' \in [Turns -> Facts]
<1>0. facts \in [Turns -> Facts] /\ facts[t] \in Facts
  BY DEF TypeOK
<1>1. CASE RecordVerdict(t)
  BY <1>0, <1>1 DEF RecordVerdict, Facts, Gates, GateOf
<1>2. CASE Resolve(t)
  <2>1. facts' = [facts EXCEPT ![t].roll = TRUE]
    BY <1>2 DEF Resolve
  <2> QED BY <1>0, <2>1 DEF Facts
<1>5. CASE Apply(t) \/ Narrate(t)
  <2>1. CASE facts' = [facts EXCEPT ![t].marker = TRUE]
    BY <1>0, <2>1 DEF Facts
  <2>2. CASE facts' = [facts EXCEPT ![t].narration = TRUE]
    BY <1>0, <2>2 DEF Facts
  <2> QED BY <1>5, <2>1, <2>2 DEF Apply, Narrate
<1>3. CASE End(t)
  BY <1>0, <1>3 DEF End, Facts
<1>4. CASE UNCHANGED facts
  BY <1>0, <1>4
<1> QED BY <1>1, <1>2, <1>3, <1>4, <1>5 DEF TurnStep, PutVerdict, CloseWindow, turnVars

LEMMA StoredType ==
  ASSUME TypeOK, NEW t \in Turns, TurnStep(t)
  PROVE  stored' \in [Turns -> Objects]
<1>0. stored \in [Turns -> Objects] /\ stored[t] \in Objects
  BY DEF TypeOK
<1>1. ASSUME NEW v \in Verdicts, PutVerdict(t, v) PROVE stored' \in [Turns -> Objects]
  BY <1>0, <1>1 DEF PutVerdict, Objects
<1>2. CASE Resolve(t) \/ Apply(t)
  BY <1>0, <1>2 DEF Resolve, Apply, Objects
<1>4. CASE Narrate(t)
  <2>1. PICK b \in {"auto", "dice", None} : stored' = [stored EXCEPT ![t].band = b]
    BY <1>4 DEF Narrate
  <2> QED BY <1>0, <2>1 DEF Objects
<1>3. CASE UNCHANGED stored
  BY <1>0, <1>3
<1> QED BY <1>1, <1>2, <1>3, <1>4 DEF TurnStep, RecordVerdict, End, CloseWindow, turnVars

LEMMA TurnTypeStep ==
  ASSUME TypeOK, NEW t \in Turns, TurnStep(t)
  PROVE  TypeOK'
<1> USE DEF TypeOK
<1>1. applied' \in [Turns -> Verdicts \cup {None}]
  <2>1. CASE Apply(t)
    BY <2>1 DEF Apply, Objects
  <2>2. CASE UNCHANGED applied
    BY <2>2
  <2> QED BY <2>1, <2>2 DEF TurnStep, PutVerdict, RecordVerdict, Resolve, Narrate, End, CloseWindow, turnVars
<1>2. pending' \in [Turns -> Verdicts \cup {None}] /\ judged' \in [Turns -> 0 .. MaxJudgments] /\ late' \subseteq Turns
  <2>1. ASSUME NEW v \in Verdicts, PutVerdict(t, v)
        PROVE  pending' \in [Turns -> Verdicts \cup {None}] /\ judged' \in [Turns -> 0 .. MaxJudgments] /\ late' \subseteq Turns
    BY <2>1, LedgerAssumption DEF PutVerdict
  <2>2. CASE RecordVerdict(t)
    BY <2>2 DEF RecordVerdict
  <2>3. CASE UNCHANGED <<pending, judged, late>>
    BY <2>3
  <2> QED BY <2>1, <2>2, <2>3 DEF TurnStep, Resolve, Apply, Narrate, End, CloseWindow, turnVars
<1>3. queue' \subseteq Turns /\ window' \subseteq Turns
  BY DEF TurnStep, PutVerdict, RecordVerdict, Resolve, Apply, Narrate, End, CloseWindow
<1> QED BY <1>1, <1>2, <1>3, FactsType, StoredType, TurnStepFrame

LEMMA WriterTypeStep ==
  ASSUME AccountInv, NEW w \in Writers, WriterStep(w) \/ Crash(w)
  PROVE  TypeOK'
<1> USE DEF TypeOK, AccountInv
<1>0. writer[w].job \in Jobs
  BY DEF WriterStates
<1>1. CASE Publish(w)
  <2> DEFINE j == writer[w].job
  <2>1. j.turn \in Turns /\ j.manifest \in Manifests
    BY <1>0, <1>1, JobParts DEF Publish
  <2>2. Append(archive[j.turn], j.manifest) \in Seq(Manifests)
    BY <2>1, AppendProperties
  <2>3. archive' \in [Turns -> Seq(Manifests)]
    BY <1>1, <2>1, <2>2 DEF Publish
  <2>4. queue' \subseteq Turns /\ window' \subseteq Turns
    BY <1>1, <2>1 DEF Publish, Settled
  <2>5. faults' \in 0 .. MaxFaults
    BY <1>1, LedgerAssumption DEF Publish, Fault, Calm
  <2> QED BY <2>3, <2>4, <2>5, WriterType, WriterStepFrame DEF turnVars
<1>2. CASE UNCHANGED <<archive, window>>
  <2>1. queue' \subseteq Turns
    BY <1>2 DEF WriterStep, Crash, Start, ReadPage, ReconcileTurn, Bind, Handle, ReadArchive, Publish, Settled
  <2>2. faults' = faults \/ Fault
    BY DEF WriterStep, Crash, Start, ReadPage, ReconcileTurn, Bind, Handle, ReadArchive, Publish, Calm
  <2>3. faults' \in 0 .. MaxFaults
    BY <2>2, LedgerAssumption DEF Fault
  <2> QED BY <1>2, <2>1, <2>3, WriterType, WriterStepFrame DEF turnVars
<1> QED BY <1>1, <1>2 DEF WriterStep, Crash, Start, ReadPage, ReconcileTurn, Bind, Handle, ReadArchive

-----------------------------------------------------------------------------
(* Accounts.                                                               *)

(* An account stays one: only RecordVerdict changes the facts of an ended  *)
(* turn, in its gate, and marks the turn late.                             *)
LEMMA AccountStep ==
  ASSUME TypeOK, [Next]_vars, NEW t \in Turns, NEW m, Account(t, m)
  PROVE  Account(t, m)'
<1> USE DEF Account, TypeOK, Facts
<1>1. CASE RecordVerdict(t)
  BY <1>1 DEF RecordVerdict
<1>2. CASE facts'[t] = facts[t] /\ late \subseteq late'
  BY <1>2
<1>3. ASSUME NEW u \in Turns, TurnStep(u), u # t PROVE facts'[t] = facts[t] /\ late \subseteq late'
  BY <1>3 DEF TurnStep, PutVerdict, RecordVerdict, Resolve, Apply, Narrate, End, CloseWindow, turnVars
<1>4. CASE TurnStep(t)
  BY <1>1, <1>2, <1>4 DEF TurnStep, PutVerdict, Resolve, Apply, Narrate, End, CloseWindow, turnVars
<1>5. CASE UNCHANGED turnVars
  BY <1>2, <1>5 DEF turnVars
<1> QED BY <1>2, <1>3, <1>4, <1>5, WriterStepFrame DEF Next, vars

LEMMA HoldsStep ==
  ASSUME TypeOK, [Next]_vars, NEW x \in WriterStates, Holds(x)
  PROVE  Holds(x)'
<1>1. \A i \in DOMAIN x.page : x.page[i] \in Turns
  BY DEF WriterStates
<1>2. x.job # Idle => x.job.turn \in Turns
  BY JobParts DEF WriterStates
<1>3. \A i \in DOMAIN x.page : x.read[i].phase # "live" => Account(x.page[i], x.read[i])'
  BY <1>1, AccountStep DEF Holds
<1>4. x.job # Idle => Account(x.job.turn, x.job.manifest)'
  BY <1>2, AccountStep DEF Holds
<1> QED BY <1>3, <1>4 DEF Holds

(* The writer that moves holds accounts afterwards, of what it held and of *)
(* what it read in this step.                                              *)
LEMMA WriterHolds ==
  ASSUME AccountInv, NEW w \in Writers, WriterStep(w) \/ Crash(w)
  PROVE  \E x \in WriterStates : writer' = [writer EXCEPT ![w] = x] /\ Holds(x)
<1> USE DEF AccountInv
<1> DEFINE y == writer[w]
<1>0. y \in WriterStates /\ y.job \in Jobs /\ Holds(y) /\ writer' \in [Writers -> WriterStates]
  BY WriterType DEF TypeOK, WriterStates, ReadingsAreAccounts, Holds
<1> SUFFICES \E x : writer' = [writer EXCEPT ![w] = x] /\ Holds(x)
  BY <1>0 DEF TypeOK
<1>1. CASE Start(w) \/ Crash(w)
  <2>1. Holds(Down) /\ Holds([Down EXCEPT !.st = "scan"])
    BY DEF Holds, Down
  <2> QED BY <1>1, <2>1 DEF Start, Crash
<1>2. CASE Bind(w)
  <2>1. Holds([y EXCEPT !.st = "up"]) /\ writer' = [writer EXCEPT ![w] = [y EXCEPT !.st = "up"]]
    BY <1>0, <1>2 DEF Bind, Holds, WriterStates
  <2> QED BY <2>1
<1>3. CASE ReadPage(w)
  <2>1. PICK to \in 0 .. Len(TurnOrder), page \in Seq(Turns), read \in Seq(Facts), rest \in SUBSET Turns :
          PageTaken(w, to, page, read) \/ ScanGivesUp(w, rest)
    BY <1>3, PageRead
  <2>2. CASE PageTaken(w, to, page, read)
    <3> DEFINE x == [y EXCEPT !.at = to, !.page = page, !.read = read]
    <3>1. x.page = page /\ x.read = read /\ x.job = y.job
      BY <1>0 DEF WriterStates
    <3>2. writer' = [writer EXCEPT ![w] = x]
      BY <2>2 DEF PageTaken
    <3>3. \A i \in DOMAIN page : page[i] \in Turns
      OBVIOUS
    <3>4. \A i \in DOMAIN page : read[i].phase # "live" => Account(page[i], read[i])
      BY <2>2, <3>3 DEF PageTaken, Account
    <3> HIDE DEF x
    <3>5. Holds(x)
      BY <1>0, <2>2, <3>1, <3>4 DEF Holds, PageTaken
    <3> QED BY <3>2, <3>5
  <2>3. CASE ScanGivesUp(w, rest)
    <3> DEFINE x == [y EXCEPT !.st = "up", !.failed = rest]
    <3>1. x.page = y.page /\ x.read = y.read /\ x.job = y.job
      BY <1>0 DEF WriterStates
    <3>2. writer' = [writer EXCEPT ![w] = x]
      BY <2>3 DEF ScanGivesUp
    <3> HIDE DEF x
    <3> QED BY <1>0, <3>1, <3>2 DEF Holds
  <2> QED BY <2>1, <2>2, <2>3
<1>4. CASE ReconcileTurn(w)
  <2> DEFINE t == Head(y.page)
             f == Head(y.read)
             rest == [y EXCEPT !.page = Tail(@), !.read = Tail(@)]
             job == [turn |-> t, manifest |-> Compose(f), lane |-> "scan", pc |-> "read"]
  <2>1. y.page # <<>> /\ y.job = Idle
    BY <1>4 DEF ReconcileTurn
  <2>2. /\ Len(Tail(y.read)) = Len(Tail(y.page))
        /\ \A i \in DOMAIN Tail(y.page) :
             Tail(y.read)[i].phase # "live" => Account(Tail(y.page)[i], Tail(y.read)[i])
    BY <1>0, <2>1, PageRest DEF Holds
  <2>3. t \in Turns /\ f \in Facts /\ (f.phase # "live" => Account(t, f))
    BY <1>0, <2>1, PageRest DEF Holds
  <2>4. rest.page = Tail(y.page) /\ rest.read = Tail(y.read) /\ rest.job = Idle
        /\ DOMAIN rest = {"st", "at", "page", "read", "job", "failed", "seen"}
    BY <1>0, <2>1 DEF WriterStates
  <2>5. Compose(f) # None => Account(job.turn, job.manifest)
    <3>1. Compose(f) # None => Compose(f) = f /\ f.phase # "live"
      BY <2>3, ComposedIsManifest DEF Coherent
    <3> QED BY <2>3, <3>1
  <2>6. \/ writer' = [writer EXCEPT ![w] = rest]
        \/ writer' = [writer EXCEPT ![w] = [rest EXCEPT !.failed = @ \cup {t}, !.seen = @ \cup {t}]]
        \/ Compose(f) # None /\ writer' = [writer EXCEPT ![w] = [rest EXCEPT !.seen = @ \cup {t}, !.job = job]]
    BY <1>4 DEF ReconcileTurn
  <2> HIDE DEF t, f, rest, job
  <2>7. Holds(rest) /\ Holds([rest EXCEPT !.failed = @ \cup {t}, !.seen = @ \cup {t}])
    BY <2>2, <2>4 DEF Holds
  <2>8. Compose(f) # None => Holds([rest EXCEPT !.seen = @ \cup {t}, !.job = job])
    <3>1. [rest EXCEPT !.seen = @ \cup {t}, !.job = job].job = job
      BY <2>4
    <3>2. [rest EXCEPT !.seen = @ \cup {t}, !.job = job].page = rest.page
          /\ [rest EXCEPT !.seen = @ \cup {t}, !.job = job].read = rest.read
      BY <2>4
    <3> QED BY <2>2, <2>4, <2>5, <3>1, <3>2 DEF Holds
  <2> QED BY <2>6, <2>7, <2>8
<1>5. CASE Handle(w)
  <2>1. PICK t \in queue : Compose(facts[t]) # None /\ writer' = [writer EXCEPT ![w].job =
            [turn |-> t, manifest |-> Compose(facts[t]), lane |-> "note", pc |-> "read"]]
    BY <1>5 DEF Handle
  <2> DEFINE job == [turn |-> t, manifest |-> Compose(facts[t]), lane |-> "note", pc |-> "read"]
             x == [y EXCEPT !.job = job]
  <2>2. Account(job.turn, job.manifest)
    <3>1. Compose(facts[t]) = facts[t] /\ facts[t].phase # "live"
      BY <2>1, ComposedIsManifest DEF Coherent, TypeOK
    <3> QED BY <3>1 DEF Account
  <2>3. writer' = [writer EXCEPT ![w] = x]
    BY <2>1
  <2>4. x.job = job /\ x.page = y.page /\ x.read = y.read
    BY <1>0 DEF WriterStates
  <2> HIDE DEF x, job
  <2> QED BY <1>0, <2>2, <2>3, <2>4 DEF Holds
<1>6. CASE ReadArchive(w) \/ Publish(w)
  <2>1. y.job # Idle
    BY <1>6 DEF ReadArchive, Publish
  <2>2. PICK x : /\ writer' = [writer EXCEPT ![w] = x] /\ x.page = y.page /\ x.read = y.read
                 /\ (x.job = Idle \/ x.job = [y.job EXCEPT !.pc = "publish"])
    <3>1. CASE Failed(w, y.job)
      <4> DEFINE failed == IF y.job.lane = "scan" THEN y.failed \cup {y.job.turn} ELSE y.failed
                 x == [y EXCEPT !.job = Idle, !.failed = failed]
      <4>1. writer' = [writer EXCEPT ![w] = x]
        BY <3>1 DEF Failed
      <4> HIDE DEF failed
      <4>2. x.page = y.page /\ x.read = y.read /\ x.job = Idle
        BY <1>0 DEF WriterStates
      <4> QED BY <4>1, <4>2
    <3>2. CASE writer' = [writer EXCEPT ![w].job = Idle]
      <4> DEFINE x == [y EXCEPT !.job = Idle]
      <4>1. writer' = [writer EXCEPT ![w] = x] /\ x.page = y.page /\ x.read = y.read /\ x.job = Idle
        BY <1>0, <3>2 DEF WriterStates
      <4> QED BY <4>1
    <3>3. CASE writer' = [writer EXCEPT ![w].job.pc = "publish"]
      <4> DEFINE job == [y.job EXCEPT !.pc = "publish"]
                 x == [y EXCEPT !.job = job]
      <4>1. writer' = [writer EXCEPT ![w] = x]
        BY <3>3
      <4> HIDE DEF job
      <4>2. x.page = y.page /\ x.read = y.read /\ x.job = job
        BY <1>0 DEF WriterStates
      <4> QED BY <4>1, <4>2 DEF job
    <3> QED BY <1>6, <3>1, <3>2, <3>3 DEF ReadArchive, Publish, Settled
  <2>3. [y.job EXCEPT !.pc = "publish"].turn = y.job.turn /\ [y.job EXCEPT !.pc = "publish"].manifest = y.job.manifest
    BY <1>0, <2>1 DEF Jobs
  <2>4. Holds(x)
    BY <1>0, <2>1, <2>2, <2>3 DEF Holds
  <2> QED BY <2>2, <2>4
<1> QED BY <1>1, <1>2, <1>3, <1>4, <1>5, <1>6 DEF WriterStep

LEMMA AccountInvStep == ASSUME AccountInv, [Next]_vars PROVE AccountInv'
<1> USE DEF AccountInv
<1>1. TypeOK'
  BY TurnTypeStep, WriterTypeStep DEF Next, vars, turnVars, TypeOK
<1>2. ReadingsAreAccounts'
  <2> SUFFICES ASSUME NEW o \in Writers PROVE Holds(writer[o])'
    BY DEF ReadingsAreAccounts
  <2>1. PICK x \in WriterStates : writer'[o] = x /\ Holds(x)
    <3>1. CASE writer'[o] = writer[o]
      BY <3>1 DEF ReadingsAreAccounts, TypeOK
    <3>2. ASSUME NEW w \in Writers, WriterStep(w) \/ Crash(w)
          PROVE  \E x \in WriterStates : writer'[o] = x /\ Holds(x)
      BY <3>1, <3>2, WriterHolds DEF TypeOK
    <3> QED BY <3>1, <3>2, TurnStepFrame DEF Next, vars
  <2>2. Holds(x)'
    BY <2>1, HoldsStep
  <2> QED BY <2>1, <2>2 DEF Holds, Account
<1>3. ArchiveIsAccounts'
  <2> SUFFICES ASSUME NEW t \in Turns, NEW i \in 1 .. Len(archive'[t]) PROVE Account(t, archive[t][i])'
    BY DEF ArchiveIsAccounts
  <2>1. PICK m : archive'[t][i] = m /\ Account(t, m)
    <3>1. CASE archive'[t] = archive[t]
      BY <3>1 DEF ArchiveIsAccounts
    <3>2. ASSUME NEW w \in Writers, Publish(w), archive'[t] # archive[t]
          PROVE  Account(t, archive'[t][i])
      <4> DEFINE j == writer[w].job
      <4>1. j.turn = t /\ j # Idle /\ archive'[t] = Append(archive[t], j.manifest)
        BY <3>2 DEF Publish, TypeOK
      <4>2. j.manifest \in Manifests /\ Account(t, j.manifest) /\ archive[t] \in Seq(Manifests)
        BY <4>1, JobParts DEF ReadingsAreAccounts, Holds, TypeOK, WriterStates
      <4>3. /\ Len(archive'[t]) = Len(archive[t]) + 1 /\ Len(archive[t]) \in Nat
            /\ \A k \in 1 .. Len(archive[t]) : archive'[t][k] = archive[t][k]
            /\ archive'[t][Len(archive[t]) + 1] = j.manifest
        BY <4>1, <4>2, AppendProperties, LenProperties
      <4>4. CASE i \in 1 .. Len(archive[t])
        BY <4>3, <4>4 DEF ArchiveIsAccounts
      <4>5. CASE i = Len(archive[t]) + 1
        <5>1. archive'[t][i] = j.manifest
          BY <4>3, <4>5
        <5>2. Account(t, j.manifest)
          BY <4>2
        <5> HIDE DEF j
        <5> QED BY <5>1, <5>2, Zenon
      <4> QED BY <4>3, <4>4, <4>5
    <3> QED BY <3>1, <3>2, TurnStepFrame DEF Next, vars, WriterStep, Start, ReadPage, ReconcileTurn, Bind,
               Handle, ReadArchive, Crash
  <2>2. Account(t, m)'
    BY <2>1, AccountStep
  <2> QED BY <2>1, <2>2 DEF Account
<1> QED BY <1>1, <1>2, <1>3

LEMMA InitTypes == Init => TypeOK
<1> SUFFICES ASSUME Init PROVE TypeOK
  OBVIOUS
<1>1. facts \in [Turns -> Facts]
  BY DEF Init, Facts, Gates
<1>2. stored \in [Turns -> Objects]
  BY DEF Init, Objects
<1>3. /\ applied \in [Turns -> Verdicts \cup {None}] /\ pending \in [Turns -> Verdicts \cup {None}]
      /\ judged \in [Turns -> 0 .. MaxJudgments] /\ faults \in 0 .. MaxFaults
  BY LedgerAssumption DEF Init
<1>4. archive \in [Turns -> Seq(Manifests)] /\ writer \in [Writers -> WriterStates]
  BY DownIsState DEF Init
<1> QED BY <1>1, <1>2, <1>3, <1>4 DEF Init, TypeOK

LEMMA InitAccounts == Init => AccountInv
<1>1. Init => ReadingsAreAccounts
  BY DEF Init, Down, Holds, ReadingsAreAccounts
<1>2. Init => ArchiveIsAccounts
  BY DEF Init, ArchiveIsAccounts
<1> QED BY <1>1, <1>2, InitTypes DEF AccountInv

LEMMA AccountsHold == Spec => []AccountInv
<1>1. AccountInv /\ [Next]_vars => AccountInv'
  BY AccountInvStep
<1> QED BY <1>1, InitAccounts, PTL DEF Spec

(* Every variable keeps its type: whatever a writer carries to the archive *)
(* is a manifest, so no turn is archived before it has ended coherently    *)
(* (Compose, TurnManifest.Validate).                                       *)
THEOREM LedgerTypeCorrect == Spec => []TypeOK
<1>1. AccountInv => TypeOK
  BY DEF AccountInv
<1> QED BY <1>1, AccountsHold, PTL

-----------------------------------------------------------------------------
(* One account per turn, if an append takes less than the window.          *)

(* How a step touches a subject and the stream's memory of its id.         *)
LEMMA ArchiveMoves ==
  ASSUME AccountInv, [Next]_vars
  PROVE  \/ UNCHANGED <<archive, window>>
         \/ \E t \in Turns : CloseWindow(t)
         \/ \E w \in Writers :
              LET j == writer[w].job
              IN /\ Publish(w) /\ j # Idle /\ j.pc = "publish" /\ j.turn \in Turns
                 /\ window' = window \cup {j.turn}
                 /\ archive' = [archive EXCEPT ![j.turn] =
                                  IF j.turn \in window THEN @ ELSE Append(@, j.manifest)]
<1>1. ASSUME NEW w \in Writers, Publish(w), ~UNCHANGED <<archive, window>>
      PROVE  LET j == writer[w].job
             IN /\ Publish(w) /\ j # Idle /\ j.pc = "publish" /\ j.turn \in Turns
                /\ window' = window \cup {j.turn}
                /\ archive' = [archive EXCEPT ![j.turn] =
                                 IF j.turn \in window THEN @ ELSE Append(@, j.manifest)]
  <2>1. writer[w].job \in Jobs
    BY DEF AccountInv, TypeOK, WriterStates
  <2>2. writer[w].job # Idle
    BY <1>1 DEF Publish
  <2>3. writer[w].job.turn \in Turns
    BY <2>1, <2>2, JobParts
  <2> QED BY <1>1, <2>2, <2>3 DEF Publish
<1> QED
  BY <1>1 DEF Next, vars, TurnStep, PutVerdict, RecordVerdict, Resolve, Apply, Narrate, End, WriterStep, Start,
     ReadPage, ReconcileTurn, Bind, Handle, ReadArchive, Crash

LEMMA ArchiveGrows ==
  ASSUME AccountInv, [Next]_vars, NEW t \in Turns, archive[t] # <<>>
  PROVE  archive'[t] # <<>>
<1>1. CASE UNCHANGED archive
  BY <1>1
<1>2. ASSUME NEW w \in Writers, Publish(w), archive'[t] # archive[t] PROVE archive'[t] # <<>>
  <2>1. archive'[t] = Append(archive[t], writer[w].job.manifest) /\ writer[w].job # Idle
    BY <1>2 DEF Publish, AccountInv, TypeOK
  <2>2. writer[w].job.manifest \in Manifests /\ archive[t] \in Seq(Manifests)
    BY <2>1, JobParts DEF AccountInv, TypeOK, WriterStates
  <2> QED BY <2>1, <2>2, AppendProperties
<1> QED BY <1>1, <1>2, ArchiveMoves DEF CloseWindow

(* What a step of a writer does to its job and to its report: y before the *)
(* step, n after it.                                                       *)
Reset(n) == n.job = Idle /\ n.seen = {}
Scans(y, n) == y.job = Idle /\ n.job = Idle /\ n.seen = y.seen /\ y.failed \subseteq n.failed
Reports(y, n) == /\ y.job = Idle /\ n.job = Idle
                 /\ n.seen \ y.seen \subseteq n.failed /\ y.failed \subseteq n.failed
TakesJob(y, n) == /\ y.job = Idle /\ n.job # Idle /\ n.job.pc = "read" /\ y.failed \subseteq n.failed
                  /\ \/ n.seen = y.seen
                     \/ n.seen = y.seen \cup {n.job.turn} /\ n.job.lane = "scan"
                  /\ n.job.lane = "scan" => n.st = "scan"
FindsNothing(y, n) == /\ y.job # Idle /\ archive[y.job.turn] = <<>> /\ archive' = archive
                      /\ n.job.turn = y.job.turn /\ n.job.lane = y.job.lane
                      /\ n.st = y.st /\ n.seen = y.seen /\ n.failed = y.failed
IsDone(y, n) == /\ y.job # Idle /\ n.job = Idle /\ n.seen = y.seen /\ y.failed \subseteq n.failed
                /\ \/ archive'[y.job.turn] # <<>>
                   \/ y.job.lane = "scan" => y.job.turn \in n.failed

LEMMA WriterShape ==
  ASSUME AccountInv, WindowIsArchived, NEW w \in Writers, WriterStep(w) \/ Crash(w),
         NEW y, y = writer[w], NEW n, n = writer'[w]
  PROVE  /\ \A o \in Writers \ {w} : writer'[o] = writer[o]
         /\ \/ Reset(n) \/ Scans(y, n) \/ Reports(y, n) \/ TakesJob(y, n)
            \/ FindsNothing(y, n) \/ IsDone(y, n)
<1>0. y \in WriterStates /\ y.job \in Jobs /\ writer \in [Writers -> WriterStates]
  BY DEF AccountInv, TypeOK, WriterStates
<1>1. \E x : writer' = [writer EXCEPT ![w] = x]
  BY WriterHolds
<1>2. \A o \in Writers \ {w} : writer'[o] = writer[o]
  BY <1>0, <1>1
<1> SUFFICES \/ Reset(n) \/ Scans(y, n) \/ Reports(y, n) \/ TakesJob(y, n)
             \/ FindsNothing(y, n) \/ IsDone(y, n)
  BY <1>2
<1>3. CASE Start(w) \/ Crash(w)
  BY <1>0, <1>3 DEF Start, Crash, Down, Reset
<1>4. CASE Bind(w)
  BY <1>0, <1>4 DEF Bind, Scans, WriterStates
<1>5. CASE ReadPage(w)
  <2>1. y.job = Idle
    BY <1>5 DEF ReadPage
  <2>2. n.job = y.job /\ n.seen = y.seen /\ y.failed \subseteq n.failed
    <3> DEFINE from == writer[w].at + 1
               to == IF writer[w].at + PageLimit > Len(TurnOrder) THEN Len(TurnOrder)
                     ELSE writer[w].at + PageLimit
               page == SubSeq(TurnOrder, from, to)
               read == [i \in DOMAIN page |-> facts[page[i]]]
               rest == {TurnOrder[i] : i \in from .. Len(TurnOrder)}
    <3>1. \/ writer' = [writer EXCEPT ![w].at = to, ![w].page = page, ![w].read = read]
          \/ writer' = [writer EXCEPT ![w].st = "up", ![w].failed = @ \cup rest]
      BY <1>5 DEF ReadPage
    <3> HIDE DEF to, page, read, rest
    <3>2. CASE writer' = [writer EXCEPT ![w].at = to, ![w].page = page, ![w].read = read]
      BY <1>0, <3>2 DEF WriterStates
    <3>3. CASE writer' = [writer EXCEPT ![w].st = "up", ![w].failed = @ \cup rest]
      BY <1>0, <3>3 DEF WriterStates
    <3> QED BY <3>1, <3>2, <3>3
  <2> QED BY <2>1, <2>2 DEF Scans
<1>6. CASE ReconcileTurn(w)
  <2> DEFINE t == Head(y.page)
             f == Head(y.read)
             rest == [y EXCEPT !.page = Tail(@), !.read = Tail(@)]
             job == [turn |-> t, manifest |-> Compose(f), lane |-> "scan", pc |-> "read"]
  <2>1. y.job = Idle /\ y.st = "scan"
    BY <1>6 DEF ReconcileTurn
  <2>2. rest.job = Idle /\ rest.st = "scan" /\ rest.seen = y.seen /\ rest.failed = y.failed
        /\ DOMAIN rest = {"st", "at", "page", "read", "job", "failed", "seen"}
    BY <1>0, <2>1 DEF WriterStates
  <2>3. \/ n = rest
        \/ n = [rest EXCEPT !.failed = @ \cup {t}, !.seen = @ \cup {t}]
        \/ n = [rest EXCEPT !.seen = @ \cup {t}, !.job = job]
    BY <1>0, <1>6 DEF ReconcileTurn
  <2>4. job # Idle /\ job.turn = t /\ job.lane = "scan" /\ job.pc = "read"
    <3>1. t \in Turns
      BY <1>0, <1>6, PageRest DEF ReconcileTurn, AccountInv, ReadingsAreAccounts, Holds
    <3>2. t # None
      BY <3>1, LedgerAssumption DEF Turns
    <3> HIDE DEF t
    <3> QED BY <3>2 DEF Idle
  <2> HIDE DEF t, f, rest, job
  <2>5. CASE n = rest
    BY <2>1, <2>2, <2>5 DEF Scans
  <2>6. CASE n = [rest EXCEPT !.failed = @ \cup {t}, !.seen = @ \cup {t}]
    BY <2>1, <2>2, <2>6 DEF Reports
  <2>7. CASE n = [rest EXCEPT !.seen = @ \cup {t}, !.job = job]
    <3>1. n.job = job /\ n.st = "scan" /\ n.seen = y.seen \cup {t} /\ n.failed = y.failed
      BY <2>2, <2>7
    <3> QED BY <2>1, <2>4, <3>1 DEF TakesJob
  <2> QED BY <1>2, <2>3, <2>5, <2>6, <2>7
<1>7. CASE Handle(w)
  <2>1. PICK t \in queue : Compose(facts[t]) # None /\ writer' = [writer EXCEPT ![w].job =
            [turn |-> t, manifest |-> Compose(facts[t]), lane |-> "note", pc |-> "read"]]
    BY <1>7 DEF Handle
  <2> DEFINE job == [turn |-> t, manifest |-> Compose(facts[t]), lane |-> "note", pc |-> "read"]
  <2>2. t # None
    BY LedgerAssumption DEF Turns, AccountInv, TypeOK
  <2>3. job # Idle /\ job.lane = "note" /\ job.pc = "read"
    BY <2>2 DEF Idle
  <2>4. writer' = [writer EXCEPT ![w].job = job] /\ y.job = Idle
    BY <1>7, <2>1 DEF Handle
  <2> HIDE DEF job
  <2>5. n.job = job /\ n.seen = y.seen /\ n.failed = y.failed
    BY <1>0, <2>4 DEF WriterStates
  <2> QED BY <1>2, <2>3, <2>4, <2>5 DEF TakesJob
<1>8. CASE ReadArchive(w) \/ Publish(w)
  <2>1. y.job # Idle /\ y.job.turn \in Turns /\ y.job.manifest \in Manifests
    BY <1>0, <1>8, JobParts DEF ReadArchive, Publish
  <2>2. CASE Failed(w, y.job)
    <3>1. n.job = Idle /\ n.seen = y.seen /\ y.failed \subseteq n.failed
      BY <1>0, <2>2 DEF Failed, WriterStates
    <3>2. y.job.lane = "scan" => y.job.turn \in n.failed
      BY <1>0, <2>2 DEF Failed, WriterStates
    <3> QED BY <1>2, <2>1, <3>1, <3>2 DEF IsDone
  <2>3. CASE Settled(w, y.job) /\ archive'[y.job.turn] # <<>>
    <3>1. n.job = Idle /\ n.seen = y.seen /\ n.failed = y.failed
      BY <1>0, <2>3 DEF Settled, WriterStates
    <3> QED BY <1>2, <2>1, <2>3, <3>1 DEF IsDone
  <2>4. CASE /\ writer' = [writer EXCEPT ![w].job.pc = "publish"]
             /\ archive[y.job.turn] = <<>> /\ archive' = archive
    <3> DEFINE job == [y.job EXCEPT !.pc = "publish"]
    <3>1. job.turn = y.job.turn /\ job.lane = y.job.lane
      BY <1>0, <2>1 DEF Jobs
    <3>2. writer' = [writer EXCEPT ![w].job = job]
      BY <2>4
    <3> HIDE DEF job
    <3>3. n.job = job /\ n.st = y.st /\ n.seen = y.seen /\ n.failed = y.failed
      BY <1>0, <3>2 DEF WriterStates
    <3> QED BY <1>2, <2>1, <2>4, <3>1, <3>3 DEF FindsNothing
  <2>5. CASE ReadArchive(w)
    BY <2>2, <2>3, <2>4, <2>5 DEF ReadArchive
  <2>6. CASE Publish(w)
    <3>1. archive[y.job.turn] \in Seq(Manifests) /\ archive \in [Turns -> Seq(Manifests)]
      BY <2>1 DEF AccountInv, TypeOK
    <3>2. Append(archive[y.job.turn], y.job.manifest) # <<>>
      BY <2>1, <3>1, AppendProperties
    <3>3. \/ /\ archive' = [archive EXCEPT ![y.job.turn] =
                              IF y.job.turn \in window THEN @ ELSE Append(@, y.job.manifest)]
             /\ Settled(w, y.job)
          \/ Failed(w, y.job)
      BY <2>6 DEF Publish
    <3>4. ASSUME archive' = [archive EXCEPT ![y.job.turn] =
                               IF y.job.turn \in window THEN @ ELSE Append(@, y.job.manifest)]
          PROVE  archive'[y.job.turn] # <<>>
      <4>1. archive'[y.job.turn] = IF y.job.turn \in window THEN archive[y.job.turn]
                                   ELSE Append(archive[y.job.turn], y.job.manifest)
        BY <2>1, <3>1, <3>4
      <4> QED BY <3>2, <4>1 DEF WindowIsArchived
    <3> QED BY <2>2, <2>3, <3>3, <3>4
  <2> QED BY <1>8, <2>5, <2>6
<1> QED BY <1>2, <1>3, <1>4, <1>5, <1>6, <1>7, <1>8 DEF WriterStep

LEMMA WindowStep ==
  ASSUME AccountInv, WindowIsArchived, [Next]_vars
  PROVE  WindowIsArchived'
<1> SUFFICES ASSUME NEW t \in window' PROVE archive'[t] # <<>>
  BY DEF WindowIsArchived
<1>1. CASE t \in window
  BY <1>1, ArchiveGrows DEF WindowIsArchived, AccountInv, TypeOK
<1>2. CASE t \notin window
  <2>1. PICK w \in Writers :
          LET j == writer[w].job
          IN /\ j # Idle /\ j.turn \in Turns /\ window' = window \cup {j.turn}
             /\ archive' = [archive EXCEPT ![j.turn] =
                              IF j.turn \in window THEN @ ELSE Append(@, j.manifest)]
    BY <1>2, ArchiveMoves DEF CloseWindow
  <2>2. t = writer[w].job.turn /\ archive'[t] = Append(archive[t], writer[w].job.manifest)
    BY <1>2, <2>1 DEF AccountInv, TypeOK
  <2>3. writer[w].job.manifest \in Manifests /\ archive[t] \in Seq(Manifests)
    BY <2>1, <2>2, JobParts DEF AccountInv, TypeOK, WriterStates
  <2> QED BY <2>2, <2>3, AppendProperties
<1> QED BY <1>1, <1>2

LEMMA SingleStep == ASSUME Timely, SingleInv, [Next]_vars PROVE SingleInv'
<1> USE DEF SingleInv
<1>1. AccountInv' /\ WindowIsArchived'
  BY AccountInvStep, WindowStep
<1>2. PublishIsCovered'
  <2> SUFFICES ASSUME NEW o \in Writers, writer'[o].job # Idle, writer'[o].job.pc = "publish",
                      archive'[writer'[o].job.turn] # <<>>
               PROVE  writer'[o].job.turn \in window'
    BY DEF PublishIsCovered
  <2>1. CASE writer'[o].job = writer[o].job
    <3> DEFINE t == writer[o].job.turn
    <3>1. t \in Turns
      BY <2>1, JobParts DEF AccountInv, TypeOK, WriterStates
    <3>2. CASE UNCHANGED <<archive, window>>
      BY <2>1, <3>2 DEF PublishIsCovered
    <3>3. ASSUME NEW u \in Turns, CloseWindow(u) PROVE t \in window'
      <4>1. t # u /\ UNCHANGED archive
        BY <2>1, <3>3 DEF CloseWindow
      <4> QED BY <2>1, <3>3, <4>1 DEF CloseWindow, PublishIsCovered
    <3>4. ASSUME NEW w \in Writers, writer[w].job.turn \in Turns,
                 window' = window \cup {writer[w].job.turn},
                 archive' = [archive EXCEPT ![writer[w].job.turn] =
                               IF writer[w].job.turn \in window THEN @ ELSE Append(@, writer[w].job.manifest)]
          PROVE  t \in window'
      <4>1. CASE t = writer[w].job.turn
        BY <3>4, <4>1
      <4>2. CASE t # writer[w].job.turn
        <5>1. archive'[t] = archive[t]
          BY <3>1, <3>4, <4>2 DEF AccountInv, TypeOK
        <5> QED BY <2>1, <3>4, <5>1 DEF PublishIsCovered
      <4> QED BY <4>1, <4>2
    <3> QED BY <2>1, <3>2, <3>3, <3>4, ArchiveMoves
  <2>2. CASE writer'[o].job # writer[o].job
    <3>1. WriterStep(o) \/ Crash(o)
      <4>1. PICK w \in Writers : WriterStep(w) \/ Crash(w)
        BY <2>2, TurnStepFrame DEF Next, vars
      <4> QED BY <2>2, <4>1, WriterShape
    <3>2. FindsNothing(writer[o], writer'[o])
      BY <2>2, <3>1, WriterShape DEF Reset, Scans, Reports, TakesJob, IsDone
    <3> QED BY <3>2 DEF FindsNothing
  <2> QED BY <2>1, <2>2
<1>3. AtMostOne'
  <2> SUFFICES ASSUME NEW t \in Turns PROVE Len(archive'[t]) \in {0, 1}
    BY DEF AtMostOne
  <2>1. CASE archive'[t] = archive[t]
    BY <2>1 DEF AtMostOne
  <2>2. CASE archive'[t] # archive[t]
    <3>1. PICK w \in Writers :
            LET j == writer[w].job
            IN /\ j # Idle /\ j.pc = "publish" /\ j.turn \in Turns
               /\ archive' = [archive EXCEPT ![j.turn] =
                                IF j.turn \in window THEN @ ELSE Append(@, j.manifest)]
      BY <2>2, ArchiveMoves DEF CloseWindow
    <3>2. /\ t = writer[w].job.turn /\ t \notin window
          /\ archive'[t] = Append(archive[t], writer[w].job.manifest)
      BY <2>2, <3>1 DEF AccountInv, TypeOK
    <3>3. archive[t] = <<>>
      BY <3>1, <3>2 DEF PublishIsCovered
    <3> QED BY <3>2, <3>3
  <2> QED BY <2>1, <2>2
<1> QED BY <1>1, <1>2, <1>3

(* The archive holds one account of a turn, whatever races of              *)
(* notification, scan, redelivery and lost acknowledgement append it       *)
(* (archiveTurn), provided an append takes less than the stream's          *)
(* de-duplication window.                                                  *)
THEOREM OneAccount == ASSUME Timely PROVE Spec => []OneAccountPerTurn
<1>1. Init => SingleInv
  <2>1. Init => WindowIsArchived /\ PublishIsCovered /\ AtMostOne
    BY DEF Init, Down, WindowIsArchived, PublishIsCovered, AtMostOne
  <2> QED BY <2>1, InitAccounts DEF SingleInv
<1>2. SingleInv /\ [Next]_vars => SingleInv'
  BY SingleStep
<1>3. SingleInv => OneAccountPerTurn
  <2> SUFFICES ASSUME SingleInv, NEW t \in Turns, archive[t] # <<>>
               PROVE  /\ Len(archive[t]) = 1
                      /\ [archive[t][1] EXCEPT !.gate = facts[t].gate] = facts[t]
                      /\ t \notin late => archive[t][1] = facts[t]
    BY DEF OneAccountPerTurn
  <2>1. archive[t] \in Seq(Manifests) /\ facts[t] \in Facts
    BY DEF SingleInv, AccountInv, TypeOK
  <2>2. Len(archive[t]) = 1
    BY <2>1 DEF SingleInv, AtMostOne
  <2>3. archive[t][1] \in Facts /\ Account(t, archive[t][1])
    BY <2>1, <2>2 DEF SingleInv, AccountInv, ArchiveIsAccounts, Manifests
  <2> QED BY <2>1, <2>2, <2>3 DEF Account, Facts
<1> QED BY <1>1, <1>2, <1>3, PTL DEF Spec

-----------------------------------------------------------------------------
(* What the scan saw is archived or reported.                              *)

LEMMA SettledStep ==
  ASSUME AccountInv, WindowIsArchived, SeenIsSettled, [Next]_vars
  PROVE  SeenIsSettled'
<1> SUFFICES ASSUME NEW o \in Writers
             PROVE  LET j == writer'[o].job
                    IN /\ j # Idle /\ j.lane = "scan" => writer'[o].st = "scan"
                       /\ \A t \in writer'[o].seen :
                            \/ archive'[t] # <<>> \/ t \in writer'[o].failed
                            \/ j # Idle /\ j.turn = t /\ j.lane = "scan"
  BY DEF SeenIsSettled
<1> DEFINE y == writer[o]
           n == writer'[o]
<1>0. /\ y.job # Idle /\ y.job.lane = "scan" => y.st = "scan"
      /\ \A t \in y.seen : \/ archive'[t] # <<>> \/ t \in y.failed
                           \/ y.job # Idle /\ y.job.turn = t /\ y.job.lane = "scan"
  <2>1. \A t \in y.seen : t \in Turns
    BY DEF AccountInv, TypeOK, WriterStates
  <2> QED BY <2>1, ArchiveGrows DEF SeenIsSettled
<1>1. CASE n = y
  BY <1>0, <1>1
<1>2. CASE n # y
  <2>1. WriterStep(o) \/ Crash(o)
    <3>1. PICK w \in Writers : WriterStep(w) \/ Crash(w)
      BY <1>2, TurnStepFrame DEF Next, vars
    <3> QED BY <1>2, <3>1, WriterShape
  <2> HIDE DEF y, n
  <2>2. CASE Reset(n)
    BY <2>2 DEF Reset, n
  <2>3. CASE Scans(y, n) \/ Reports(y, n)
    BY <1>0, <2>3 DEF Scans, Reports, n
  <2>4. CASE TakesJob(y, n)
    BY <1>0, <2>4 DEF TakesJob, n
  <2>5. CASE FindsNothing(y, n)
    <3>1. n.job # Idle
      <4>1. y.job.turn \in Turns
        BY <2>5, JobParts DEF FindsNothing, AccountInv, TypeOK, WriterStates, y
      <4>2. Idle.turn \notin Turns
        BY LedgerAssumption DEF Idle, Turns
      <4> QED BY <2>5, <4>1, <4>2 DEF FindsNothing
    <3> QED BY <1>0, <2>5, <3>1 DEF FindsNothing, n
  <2>6. CASE IsDone(y, n)
    BY <1>0, <2>6 DEF IsDone, n
  <2> QED BY <2>1, <2>2, <2>3, <2>4, <2>5, <2>6, WriterShape DEF y, n
<1> QED BY <1>1, <1>2

(* A bound consumer that reported no failure means a whole archive: every  *)
(* turn the scan saw ended is on its subject, or was reported (Reconcile,  *)
(* Writer.Start).  No assumption on the window is needed.                  *)
THEOREM BoundIsWhole == Spec => []BoundMeansWhole
<1>1. Init => WholeInv
  <2>1. Init => WindowIsArchived /\ SeenIsSettled
    BY DEF Init, Down, WindowIsArchived, SeenIsSettled
  <2> QED BY <2>1, InitAccounts DEF WholeInv
<1>2. WholeInv /\ [Next]_vars => WholeInv'
  BY AccountInvStep, WindowStep, SettledStep DEF WholeInv
<1>3. WholeInv => BoundMeansWhole
  BY DEF WholeInv, SeenIsSettled, BoundMeansWhole
<1> QED BY <1>1, <1>2, <1>3, PTL DEF Spec

-----------------------------------------------------------------------------
(* What NotifiedIsArchived rests on besides fairness: a notification stays *)
(* on the stream until its turn has an account, and an account stays.      *)
KeptUntilArchived ==
  [][\A t \in Turns : /\ t \in queue \ queue' => archive'[t] # <<>>
                      /\ archive[t] # <<>> => archive'[t] # <<>>]_vars

(* Writer.Handle acknowledges last: whatever fails, is repeated or dropped *)
(* as a duplicate, and with the window of any length, no notification is   *)
(* acknowledged before the archive holds its turn.                         *)
THEOREM AcknowledgedAfterArchived == Spec => KeptUntilArchived
<1> DEFINE Kept == \A t \in Turns : /\ t \in queue \ queue' => archive'[t] # <<>>
                                    /\ archive[t] # <<>> => archive'[t] # <<>>
<1>1. AccountInv /\ WindowIsArchived /\ [Next]_vars => [Kept]_vars
  <2> SUFFICES ASSUME AccountInv, WindowIsArchived, [Next]_vars, NEW t \in Turns
               PROVE  /\ t \in queue \ queue' => archive'[t] # <<>>
                      /\ archive[t] # <<>> => archive'[t] # <<>>
    OBVIOUS
  <2>0. TypeOK
    BY DEF AccountInv
  <2>1. archive[t] # <<>> => archive'[t] # <<>>
    BY ArchiveGrows
  <2>2. ASSUME NEW w \in Writers, ReadArchive(w), t \in queue \ queue' PROVE archive'[t] # <<>>
    BY <2>1, <2>2 DEF ReadArchive, Settled
  <2>3. ASSUME NEW w \in Writers, Publish(w), t \in queue \ queue' PROVE archive'[t] # <<>>
    <3>1. /\ t = writer[w].job.turn
          /\ archive' = [archive EXCEPT ![t] = IF t \in window THEN @ ELSE Append(@, writer[w].job.manifest)]
      BY <2>3 DEF Publish, Settled
    <3>2. archive'[t] = IF t \in window THEN archive[t] ELSE Append(archive[t], writer[w].job.manifest)
      BY <2>0, <3>1 DEF TypeOK
    <3>3. writer[w].job.manifest \in Manifests /\ archive[t] \in Seq(Manifests)
      BY <2>0, <2>3, JobParts DEF Publish, TypeOK, WriterStates
    <3>4. Append(archive[t], writer[w].job.manifest) # <<>>
      BY <3>3, AppendProperties
    <3> QED BY <3>2, <3>4 DEF WindowIsArchived
  <2>4. ASSUME NEW u \in Turns, TurnStep(u) PROVE queue \subseteq queue'
    BY <2>4 DEF TurnStep, PutVerdict, RecordVerdict, Resolve, Apply, Narrate, End, CloseWindow
  <2>5. ASSUME NEW w \in Writers,
               Start(w) \/ ReadPage(w) \/ ReconcileTurn(w) \/ Bind(w) \/ Handle(w) \/ Crash(w)
        PROVE  queue' = queue
    BY <2>5 DEF Start, ReadPage, ReconcileTurn, Bind, Handle, Crash
  <2>6. UNCHANGED vars => queue' = queue
    BY DEF vars
  <2> QED BY <2>1, <2>2, <2>3, <2>4, <2>5, <2>6 DEF Next, WriterStep
<1>2. AccountInv /\ WindowIsArchived /\ [Next]_vars => WindowIsArchived'
  BY WindowStep
<1>3. Init => WindowIsArchived
  BY DEF Init, WindowIsArchived
<1> QED BY <1>1, <1>2, <1>3, AccountsHold, PTL DEF Spec, KeptUntilArchived

-----------------------------------------------------------------------------
(* The record of a turn that was judged once and in time.                  *)

LEMMA RecordStep == ASSUME TypeOK, RecordAgrees, [Next]_vars PROVE RecordAgrees'
<1> DEFINE R(t) ==
      /\ pending[t] # None => stored[t].verdict = pending[t] /\ judged[t] > 0
      /\ facts[t].gate # "none" => judged[t] > 0
      /\ facts[t].phase = "complete" => facts[t].narration
      /\ facts[t].narration => facts[t].marker
      /\ t \notin late =>
           LET f == facts[t]
               s == stored[t]
           IN /\ f.gate # "none" => pending[t] = None /\ s.verdict # None /\ f.gate = GateOf(s.verdict)
              /\ f.roll => f.gate = "dice" /\ s.roll = s.verdict
              /\ f.marker => f.gate # "none" /\ (f.gate = "dice" => f.roll)
              /\ f.marker => s.batch = s.verdict /\ applied[t] = s.verdict
              /\ f.narration => s.band = (IF f.roll THEN "dice" ELSE "auto")
<1>0. \A t \in Turns : /\ R(t) /\ facts[t] \in Facts /\ stored[t] \in Objects
                       /\ pending[t] \in Verdicts \cup {None} /\ judged[t] \in Nat
  BY LedgerAssumption DEF RecordAgrees, TypeOK
<1> SUFFICES ASSUME NEW t \in Turns PROVE R(t)'
  BY DEF RecordAgrees
<1> USE DEF TypeOK
<1>1. ASSUME NEW v \in Verdicts, PutVerdict(t, v) PROVE R(t)'
  BY <1>0, <1>1, LedgerAssumption DEF PutVerdict, Facts, Objects
<1>2. CASE RecordVerdict(t)
  BY <1>0, <1>2 DEF RecordVerdict, Facts, Objects, GateOf
<1>3. CASE Resolve(t)
  BY <1>0, <1>3 DEF Resolve, Facts, Objects
<1>4. CASE Apply(t)
  BY <1>0, <1>4 DEF Apply, Facts, Objects
<1>5. CASE Narrate(t)
  BY <1>0, <1>5 DEF Narrate, Facts, Objects
<1>6. CASE End(t)
  BY <1>0, <1>6 DEF End, Facts, Objects
<1>7. CASE UNCHANGED <<facts[t], stored[t], applied[t], pending[t], judged[t], t \in late>>
  BY <1>0, <1>7
<1> QED
  <2>1. ASSUME NEW u \in Turns, TurnStep(u), u # t
        PROVE  UNCHANGED <<facts[t], stored[t], applied[t], pending[t], judged[t], t \in late>>
    BY <2>1 DEF TurnStep, PutVerdict, RecordVerdict, Resolve, Apply, Narrate, End, CloseWindow, turnVars
  <2>2. CASE UNCHANGED turnVars
    BY <1>7, <2>2 DEF turnVars
  <2>3. CASE TurnStep(t)
    BY <1>1, <1>2, <1>3, <1>4, <1>5, <1>6, <2>2, <2>3 DEF TurnStep, CloseWindow
  <2>4. CASE UNCHANGED vars
    BY <2>2, <2>4 DEF vars
  <2> HIDE DEF R
  <2> QED BY <1>7, <2>1, <2>2, <2>3, <2>4, WriterStepFrame DEF Next

(* An archived turn that was judged once and in time replays as it was     *)
(* played (Reader.Replay): the replay refuses it only if it failed between *)
(* its verdict and its dice, and its batch is the one the world took.      *)
THEOREM ReplayIsFaithful == Spec => []ReplaysAsPlayed
<1>1. Init => RecordAgrees
  BY LedgerAssumption DEF Init, RecordAgrees
<1>2. AccountInv /\ RecordAgrees /\ [Next]_vars => RecordAgrees'
  BY RecordStep DEF AccountInv
<1>3. AccountInv /\ RecordAgrees => ReplaysAsPlayed
  <2> SUFFICES ASSUME AccountInv, RecordAgrees, NEW t \in Turns, archive[t] # <<>>, t \notin late
               PROVE  /\ ReplayRefused(t) => /\ facts[t].phase = "failed" /\ facts[t].gate = "dice"
                                             /\ ~facts[t].roll
                      /\ facts[t].marker => stored[t].batch = applied[t]
    BY DEF ReplaysAsPlayed
  <2> DEFINE m == archive[t][1]
             f == facts[t]
             s == stored[t]
  <2>1. archive[t] \in Seq(Manifests) /\ f \in Facts
    BY DEF AccountInv, TypeOK
  <2>2. 1 \in 1 .. Len(archive[t])
    BY <2>1
  <2>3. f.phase # "live" /\ m.gate = f.gate /\ m.roll = f.roll /\ m.narration = f.narration
    BY <2>2 DEF AccountInv, ArchiveIsAccounts, Account
  <2>4. /\ f.phase = "complete" => f.narration /\ f.marker
        /\ f.gate # "none" => s.verdict # None /\ f.gate = GateOf(s.verdict)
        /\ f.roll => f.gate = "dice" /\ s.roll = s.verdict
        /\ f.marker => (f.gate = "dice" => f.roll)
        /\ f.marker => s.batch = s.verdict /\ applied[t] = s.verdict
        /\ f.narration => s.band = (IF f.roll THEN "dice" ELSE "auto")
    BY DEF RecordAgrees
  <2>5. ~NarrationRefused(m, s)
    BY <2>3, <2>4 DEF NarrationRefused
  <2>6. ReplayRollRefused(m, s) => f.gate = "dice" /\ ~f.roll
    BY <2>1, <2>3, <2>4 DEF ReplayRollRefused, GateOf, Facts
  <2>7. f.gate = "dice" /\ ~f.roll => f.phase = "failed"
    BY <2>1, <2>3, <2>4 DEF Facts
  <2> QED BY <2>4, <2>5, <2>6, <2>7 DEF ReplayRefused
<1> QED BY <1>1, <1>2, <1>3, AccountsHold, PTL DEF Spec
=============================================================================
