------------------------- MODULE CampaignBootProofs -------------------------
(***************************************************************************)
(* The boot of CampaignBoot, for any number of processes and starts, any   *)
(* plan and any members.                                                   *)
(***************************************************************************)
EXTENDS CampaignBoot, TLAPS

(* A process that is past the k-th step of its sequence.                   *)
Reached(e, k) == engine[e].st = "up" \/ (engine[e].st = "booting" /\ engine[e].at > k)

(* The world is the 6th step, the rules are the 14th, the stranded-turn    *)
(* pass is the 15th.                                                       *)
InWorld(e, pcs) == engine[e].st = "booting" /\ engine[e].at = 6 /\ engine[e].pc \in pcs
Importer(e) == InWorld(e, {"publish", "born", "indexed", "mark"})
Claimed(e) == Reached(e, 6) \/ (engine[e].st = "booting" /\ engine[e].at = 6 /\ engine[e].pc # "run")
Marked == campaign # None /\ campaign.marked
AllBorn == \A x \in Entities : world[x] # "unborn"

(* Only two of the steps have places of their own, and what a process has  *)
(* not come to is as it was when it started.                               *)
Placed ==
  \A e \in Engines :
    /\ \/ engine[e].pc = "run"
       \/ engine[e].st = "booting" /\ engine[e].at = 14 /\ engine[e].pc = "start"
       \/ InWorld(e, {"publish", "born", "indexed", "mark", "marker", "wait", "last"})
    /\ ~Claimed(e) => engine[e].sent = 0
    /\ ~Reached(e, 14) => engine[e].rules = "none"
    /\ Alive(e) => starts >= 1

(* The campaign a process works for is the one that is claimed.            *)
CampaignHeld ==
  \A e \in Engines : Claimed(e) =>
    campaign # None /\ engine[e].seed = campaign.seed /\ Requested[e] = campaign.exp

(* One process imports, until the marker; past the world step there is one.*)
OneImporter ==
  /\ \A e, o \in Engines : Importer(e) /\ Importer(o) => e = o
  /\ \A e \in Engines : Importer(e) => ~campaign.marked
  /\ \A e \in Engines : Reached(e, 6) \/ InWorld(e, {"last"}) => campaign.marked

(* What is born came from the log; what the readbacks saw is born; after   *)
(* an import that found the log empty the log is the plan, and a marked    *)
(* one has been ingested to its end.                                       *)
BornFromLog == \A x \in Entities : world[x] # "unborn" => \E i \in 1 .. ingested : entityLog[i] = x

ReadbacksHold ==
  /\ \A e \in Engines : InWorld(e, {"indexed", "mark"}) => AllBorn
  /\ \A e \in Engines : InWorld(e, {"born", "indexed", "mark"}) => engine[e].sent = Len(Plan)

LogIsPlan ==
  \A e \in Engines : Importer(e) /\ ~leftover =>
    Len(entityLog) = engine[e].sent /\ \A i \in 1 .. engine[e].sent : entityLog[i] = Plan[i]

MarkedIsWhole == Marked => AllBorn /\ (~leftover => ingested = Len(entityLog))

ImportIsWhole == BornFromLog /\ ReadbacksHold /\ LogIsPlan /\ MarkedIsWhole

(* Play follows the marker, and the index of a process past its world step *)
(* keeps the members that have not moved.                                  *)
PlayFollows ==
  /\ \A x \in Entities : world[x] = "played" => Marked
  /\ \A e \in Engines : Reached(e, 6) /\ ~leftover =>
       \A m \in Members : world[m] = "template" => m \in index[e]

(* A lone process is the only one alive, and since it took its baseline    *)
(* only its own rule processor has published a status.                     *)
LoneStatus ==
  \A e \in Engines : engine[e].lone /\ Alive(e) =>
    /\ \A o \in Engines \ {e} : ~Alive(o)
    /\ engine[e].st = "booting" /\ engine[e].at = 14 /\ engine[e].pc = "start" => status.rev = engine[e].baseline
    /\ Reached(e, 14) => /\ status.rev >= engine[e].baseline
                         /\ status.rev > engine[e].baseline => status.by = e
                         /\ status.rev > engine[e].baseline /\ status.ready => engine[e].rules = "ready"
    /\ Reached(e, 15) => engine[e].rules = "ready"

BootInv == TypeOK /\ Placed /\ CampaignHeld /\ OneImporter /\ ImportIsWhole /\ PlayFollows /\ LoneStatus

-----------------------------------------------------------------------------
(* Where the steps stand in the sequence.                                  *)

LEMMA Positions ==
  /\ DOMAIN StepOrder = 1 .. 22 /\ Len(StepOrder) = 22
  /\ StepOrder[4] = "graph" /\ StepOrder[6] = "world" /\ StepOrder[9] = "lifecycle"
  /\ StepOrder[14] = "rules" /\ StepOrder[15] = "resume" /\ StepOrder[17] = "stages"
  /\ StepOrder[21] = "intake"
  /\ \A i \in 1 .. 22 :
       /\ StepOrder[i] = "graph" => i = 4
       /\ StepOrder[i] = "world" => i = 6
       /\ StepOrder[i] = "lifecycle" => i = 9
       /\ StepOrder[i] = "rules" => i = 14
       /\ StepOrder[i] = "resume" => i = 15
       /\ StepOrder[i] = "stages" => i = 17
       /\ StepOrder[i] = "intake" => i = 21
BY SMTT(30) DEF StepOrder

LEMMA StateFields ==
  ASSUME NEW r \in EngineStates
  PROVE  /\ r.st \in {"down", "booting", "up", "refused"}
         /\ r.at \in 1 .. 22
         /\ r.fresh \in BOOLEAN /\ r.lone \in BOOLEAN /\ r.marker \in BOOLEAN
         /\ r.seed \in 0 .. MaxStarts /\ r.sent \in 0 .. Len(Plan)
         /\ r.baseline \in 0 .. 2 * MaxStarts
BY Positions DEF EngineStates

(* Fields of a process's state may be set one by one.                      *)
LEMMA StateUpdates ==
  ASSUME NEW r \in EngineStates
  PROVE  /\ \A x \in {"down", "booting", "up", "refused"} : [r EXCEPT !.st = x] \in EngineStates
         /\ \A x \in DOMAIN StepOrder : [r EXCEPT !.at = x] \in EngineStates
         /\ \A x \in {"run", "publish", "born", "indexed", "mark", "marker", "wait", "last", "start"} :
              [r EXCEPT !.pc = x] \in EngineStates
         /\ \A x \in BOOLEAN : /\ [r EXCEPT !.fresh = x] \in EngineStates
                               /\ [r EXCEPT !.lone = x] \in EngineStates
                               /\ [r EXCEPT !.marker = x] \in EngineStates
         /\ \A x \in 0 .. MaxStarts : [r EXCEPT !.seed = x] \in EngineStates
         /\ \A x \in 0 .. Len(Plan) : [r EXCEPT !.sent = x] \in EngineStates
         /\ \A x \in 0 .. 2 * MaxStarts : [r EXCEPT !.baseline = x] \in EngineStates
         /\ \A x \in {"none", "building", "ready"} : [r EXCEPT !.rules = x] \in EngineStates
<1> DEFINE A == {"down", "booting", "up", "refused"}
           B == DOMAIN StepOrder
           C == {"run", "publish", "born", "indexed", "mark", "marker", "wait", "last", "start"}
           D == BOOLEAN
           E == 0 .. MaxStarts
           F == 0 .. Len(Plan)
           G == 0 .. 2 * MaxStarts
           H == {"none", "building", "ready"}
<1>1. EngineStates = [st : A, at : B, pc : C, fresh : D, seed : E, sent : F, baseline : G, rules : H, lone : D, marker : D]
  BY DEF EngineStates
<1> HIDE DEF A, B, C, D, E, F, G, H
<1>2. \A x \in A : [r EXCEPT !.st = x] \in EngineStates
  BY <1>1
<1>3. \A x \in B : [r EXCEPT !.at = x] \in EngineStates
  BY <1>1
<1>4. \A x \in C : [r EXCEPT !.pc = x] \in EngineStates
  BY <1>1
<1>5. \A x \in D : [r EXCEPT !.fresh = x] \in EngineStates
  BY <1>1
<1>6. \A x \in D : [r EXCEPT !.lone = x] \in EngineStates
  BY <1>1
<1>7. \A x \in D : [r EXCEPT !.marker = x] \in EngineStates
  BY <1>1
<1>8. \A x \in E : [r EXCEPT !.seed = x] \in EngineStates
  BY <1>1
<1>9. \A x \in F : [r EXCEPT !.sent = x] \in EngineStates
  BY <1>1
<1>10. \A x \in G : [r EXCEPT !.baseline = x] \in EngineStates
  BY <1>1
<1>11. \A x \in H : [r EXCEPT !.rules = x] \in EngineStates
  BY <1>1
<1> QED
  BY <1>2, <1>3, <1>4, <1>5, <1>6, <1>7, <1>8, <1>9, <1>10, <1>11, Zenon DEF A, B, C, D, E, F, G, H

(* Past is read off the counter.                                           *)
LEMMA PastIsReached ==
  ASSUME TypeOK, NEW e \in Engines
  PROVE  /\ Past(e, "graph") <=> Reached(e, 4)
         /\ Past(e, "world") <=> Reached(e, 6)
         /\ Past(e, "resume") <=> Reached(e, 15)
         /\ Past(e, "stages") <=> Reached(e, 17)
<1>1. engine[e].st \in {"down", "booting", "up", "refused"} /\ engine[e].at \in 1 .. 22
  BY StateFields DEF TypeOK
<1> DEFINE a == engine[e].at
<1>2. a \in 1 .. 22
  BY <1>1
<1>3. \A k \in 1 .. 22 : StepOrder[k] \in Steps
  BY Positions DEF Steps
<1>4. \A k \in 1 .. 22 : a > k => StepOrder[k] \in {StepOrder[i] : i \in 1 .. a - 1}
  BY <1>2
<1>5. \A s : s \in {StepOrder[i] : i \in 1 .. a - 1} => \E i \in 1 .. 22 : i < a /\ s = StepOrder[i]
  BY <1>2
<1>6. Done(e) = IF engine[e].st = "up" THEN Steps ELSE {StepOrder[i] : i \in 1 .. a - 1}
  BY DEF Done
<1>7. \A k \in 1 .. 22 : Reached(e, k) => Past(e, StepOrder[k])
  BY <1>1, <1>3, <1>4, <1>6 DEF Past, Alive, Reached
<1>8. \A s : Past(e, s) => engine[e].st = "up" \/ (engine[e].st = "booting" /\ \E i \in 1 .. 22 : i < a /\ s = StepOrder[i])
  BY <1>1, <1>5, <1>6 DEF Past, Alive
<1> QED
  BY <1>1, <1>7, <1>8, Positions DEF Reached

(* The step a process is at is read off the counter too.                   *)
LEMMA AtIsPlace ==
  ASSUME TypeOK, NEW e \in Engines, NEW pc
  PROVE  /\ At(e, "world", pc) => InWorld(e, {pc})
         /\ At(e, "lifecycle", pc) => engine[e].st = "booting" /\ engine[e].at = 9 /\ engine[e].pc = pc
         /\ At(e, "rules", pc) => engine[e].st = "booting" /\ engine[e].at = 14 /\ engine[e].pc = pc
         /\ At(e, "resume", pc) => engine[e].st = "booting" /\ engine[e].at = 15 /\ engine[e].pc = pc
         /\ At(e, "stages", pc) => engine[e].st = "booting" /\ engine[e].at = 17 /\ engine[e].pc = pc
         /\ At(e, "intake", pc) => engine[e].st = "booting" /\ engine[e].at = 21 /\ engine[e].pc = pc
<1>1. engine[e].at \in 1 .. 22
  BY StateFields DEF TypeOK
<1> QED
  BY <1>1, Positions DEF At, Runnable, Step, InWorld

LEMMA PlainIsElsewhere ==
  ASSUME TypeOK, NEW e \in Engines, Plain(Step(e))
  PROVE  engine[e].at \notin {6, 9, 14, 15, 17, 21}
<1>1. engine[e].at \in 1 .. 22
  BY StateFields DEF TypeOK
<1> QED
  BY <1>1, Positions DEF Plain, Step

-----------------------------------------------------------------------------
(* What a step does to the processes: it moves one of them.                *)

Becomes(e, r) == engine' = [engine EXCEPT ![e] = r]

(* The process stops, and with it all it was running.                      *)
Halts(e) ==
  /\ \A o \in Engines : o # e => engine'[o] = engine[o]
  /\ ~(engine'[e].st \in {"booting", "up"})
  /\ engine'[e].pc = "run" /\ engine'[e].sent = 0 /\ engine'[e].rules = "none"

(* The step at which a process is ends, or it goes on within it; r is what *)
(* its rule processor does from there.                                     *)
Advances(e, r) ==
  /\ \A o \in Engines : o # e => engine'[o] = engine[o]
  /\ engine[e].st = "booting"
  /\ \/ engine'[e].st = "up" /\ engine[e].at = 22
     \/ engine'[e].st = "booting" /\ engine'[e].at = engine[e].at + 1
  /\ engine'[e].pc = "run" /\ engine'[e].rules = r
  /\ engine'[e].sent = engine[e].sent /\ engine'[e].seed = engine[e].seed
  /\ engine'[e].lone = engine[e].lone /\ engine'[e].baseline = engine[e].baseline

Turns(e, pc, seed, sent) ==
  /\ \A o \in Engines : o # e => engine'[o] = engine[o]
  /\ engine'[e].st = engine[e].st /\ engine'[e].at = engine[e].at /\ engine'[e].pc = pc
  /\ engine'[e].seed = seed /\ engine'[e].sent = sent
  /\ engine'[e].rules = engine[e].rules /\ engine'[e].lone = engine[e].lone

LEMMA BecomesTyped ==
  ASSUME TypeOK, NEW e \in Engines, NEW r \in EngineStates, Becomes(e, r)
  PROVE  /\ engine' \in [Engines -> EngineStates]
         /\ engine'[e] = r
         /\ \A o \in Engines : o # e => engine'[o] = engine[o]
BY DEF TypeOK, Becomes

LEMMA DownTyped ==
  /\ Down \in EngineStates
  /\ Refused \in EngineStates
  /\ \A b \in BOOLEAN : [Refused EXCEPT !.marker = b] \in EngineStates
  /\ \A b \in BOOLEAN : [Down EXCEPT !.st = "booting", !.lone = b] \in EngineStates
<1>1. Len(Plan) \in Nat /\ MaxStarts \in Nat
  BY BootAssumption
<1>2. 0 \in 0 .. MaxStarts /\ 0 \in 0 .. Len(Plan) /\ 0 \in 0 .. 2 * MaxStarts
  BY <1>1
<1>3. 1 \in DOMAIN StepOrder
  BY Positions
<1>4. Down \in EngineStates
  BY <1>2, <1>3, Zenon DEF Down, EngineStates
<1>5. Refused \in EngineStates
  BY <1>4, StateUpdates DEF Refused
<1>6. \A b \in BOOLEAN : [[Down EXCEPT !.st = "booting"] EXCEPT !.lone = b] \in EngineStates
  BY <1>4, StateUpdates, Zenon
<1> QED
  BY <1>4, <1>5, <1>6, StateUpdates

LEMMA HaltEffect ==
  ASSUME TypeOK, NEW e \in Engines, Refuse(e) \/ Becomes(e, Down)
  PROVE  Halts(e) /\ engine' \in [Engines -> EngineStates]
<1>1. CASE Refuse(e)
  <2> DEFINE r == [Refused EXCEPT !.marker = engine[e].marker]
  <2>1. Becomes(e, r)
    BY <1>1 DEF Refuse, Becomes
  <2>2. engine[e].marker \in BOOLEAN
    BY StateFields DEF TypeOK
  <2>3. r \in EngineStates
    BY <2>2, DownTyped
  <2>4. r.st = "refused" /\ r.pc = "run" /\ r.sent = 0 /\ r.rules = "none"
    BY DEF Refused, Down
  <2> HIDE DEF r
  <2> QED
    BY <2>1, <2>3, <2>4, BecomesTyped DEF Halts
<1>2. CASE Becomes(e, Down)
  <2>4. Down.st = "down" /\ Down.pc = "run" /\ Down.sent = 0 /\ Down.rules = "none"
    BY DEF Down
  <2> QED
    BY <1>2, <2>4, BecomesTyped, DownTyped DEF Halts
<1> QED
  BY <1>1, <1>2

LEMMA AdvanceEffect ==
  ASSUME TypeOK, NEW e \in Engines, engine[e].st = "booting", Complete(e)
  PROVE  Advances(e, engine[e].rules) /\ engine' \in [Engines -> EngineStates]
<1> DEFINE r == Finished(e, engine[e])
<1>1. Becomes(e, r)
  BY DEF Complete, Becomes
<1>2. engine[e] \in EngineStates
  BY DEF TypeOK
<1>3. engine[e].at \in 1 .. 22
  BY StateFields DEF TypeOK
<1>4. r \in EngineStates
  <2>1. CASE engine[e].at = 22
    <3>1. [[engine[e] EXCEPT !.st = "up"] EXCEPT !.pc = "run"] \in EngineStates
      BY <1>2, StateUpdates, Zenon
    <3>2. r = [engine[e] EXCEPT !.st = "up", !.pc = "run"]
      BY <2>1, Positions DEF Finished
    <3> QED
      BY <3>1, <3>2
  <2>2. CASE engine[e].at # 22
    <3>1. engine[e].at + 1 \in DOMAIN StepOrder
      BY <1>3, <2>2, Positions
    <3>2. [[engine[e] EXCEPT !.at = engine[e].at + 1] EXCEPT !.pc = "run"] \in EngineStates
      BY <1>2, <3>1, StateUpdates, Zenon
    <3>3. r = [engine[e] EXCEPT !.at = engine[e].at + 1, !.pc = "run"]
      BY <2>2, Positions DEF Finished
    <3> QED
      BY <3>2, <3>3
  <2> QED
    BY <2>1, <2>2
<1>5. /\ \/ r.st = "up" /\ engine[e].at = 22
         \/ r.st = "booting" /\ r.at = engine[e].at + 1
      /\ r.pc = "run" /\ r.rules = engine[e].rules /\ r.sent = engine[e].sent
      /\ r.seed = engine[e].seed /\ r.lone = engine[e].lone /\ r.baseline = engine[e].baseline
  BY <1>2, <1>3, Positions DEF Finished, EngineStates
<1> HIDE DEF r
<1> QED
  BY <1>1, <1>4, <1>5, BecomesTyped DEF Advances

LEMMA StartRulesEffect ==
  ASSUME TypeOK, NEW e \in Engines, StartRules(e)
  PROVE  Advances(e, "building") /\ engine' \in [Engines -> EngineStates]
<1> DEFINE q == Finished(e, engine[e])
           r == [q EXCEPT !.rules = "building"]
<1>1. Becomes(e, r)
  BY DEF StartRules, Becomes
<1>2. engine[e] \in EngineStates
  BY DEF TypeOK
<1>3. engine[e].at = 14 /\ engine[e].st = "booting"
  BY AtIsPlace DEF StartRules
<1>4. q = [engine[e] EXCEPT !.at = engine[e].at + 1, !.pc = "run"]
  BY <1>3, Positions DEF Finished
<1>5. r \in EngineStates
  <2>1. engine[e].at + 1 \in DOMAIN StepOrder
    BY <1>3, Positions
  <2>2. [[engine[e] EXCEPT !.at = engine[e].at + 1] EXCEPT !.pc = "run"] \in EngineStates
    BY <1>2, <2>1, StateUpdates, Zenon
  <2>3. q \in EngineStates
    BY <1>4, <2>2
  <2> QED
    BY <2>3, StateUpdates
<1>6. /\ r.st = "booting" /\ r.at = engine[e].at + 1
      /\ r.pc = "run" /\ r.rules = "building" /\ r.sent = engine[e].sent
      /\ r.seed = engine[e].seed /\ r.lone = engine[e].lone /\ r.baseline = engine[e].baseline
  BY <1>2, <1>3, <1>4, Positions DEF EngineStates
<1> HIDE DEF r, q
<1> QED
  BY <1>1, <1>3, <1>5, <1>6, BecomesTyped DEF Advances

LEMMA GotoEffect ==
  ASSUME TypeOK, NEW e \in Engines,
         NEW pc \in {"indexed", "mark", "last"}, Goto(e, pc)
  PROVE  Turns(e, pc, engine[e].seed, engine[e].sent) /\ engine' \in [Engines -> EngineStates]
<1> DEFINE r == [engine[e] EXCEPT !.pc = pc]
<1>1. Becomes(e, r)
  BY DEF Goto, Becomes, TypeOK
<1>2. engine[e] \in EngineStates
  BY DEF TypeOK
<1>3. r \in EngineStates
  BY <1>2 DEF EngineStates
<1>4. /\ r.st = engine[e].st /\ r.at = engine[e].at /\ r.pc = pc /\ r.seed = engine[e].seed
      /\ r.sent = engine[e].sent /\ r.rules = engine[e].rules /\ r.lone = engine[e].lone
  BY <1>2 DEF EngineStates
<1> HIDE DEF r
<1> QED
  BY <1>1, <1>3, <1>4, BecomesTyped DEF Turns

LEMMA ClaimEffect ==
  ASSUME TypeOK, starts \in 0 .. MaxStarts, NEW e \in Engines,
         engine' = [engine EXCEPT ![e].pc = "publish", ![e].fresh = TRUE, ![e].seed = starts]
  PROVE  Turns(e, "publish", starts, engine[e].sent) /\ engine' \in [Engines -> EngineStates]
<1> DEFINE p == [engine[e] EXCEPT !.pc = "publish"]
           q == [p EXCEPT !.fresh = TRUE]
           r == [q EXCEPT !.seed = starts]
<1>1. Becomes(e, r)
  BY DEF Becomes, TypeOK
<1>2. engine[e] \in EngineStates
  BY DEF TypeOK
<1>3. p \in EngineStates /\ q \in EngineStates /\ r \in EngineStates
  BY <1>2, StateUpdates, Zenon
<1>4. /\ r.st = engine[e].st /\ r.at = engine[e].at /\ r.pc = "publish" /\ r.seed = starts
      /\ r.sent = engine[e].sent /\ r.rules = engine[e].rules /\ r.lone = engine[e].lone
  BY <1>2 DEF EngineStates
<1> HIDE DEF r
<1> QED
  BY <1>1, <1>3, <1>4, BecomesTyped DEF Turns

LEMMA StoredEffect ==
  ASSUME TypeOK, NEW e \in Engines, campaign # None,
         engine' = [engine EXCEPT ![e].pc = "marker", ![e].seed = campaign.seed]
  PROVE  Turns(e, "marker", campaign.seed, engine[e].sent) /\ engine' \in [Engines -> EngineStates]
<1> DEFINE p == [engine[e] EXCEPT !.pc = "marker"]
           r == [p EXCEPT !.seed = campaign.seed]
<1>1. Becomes(e, r)
  BY DEF Becomes, TypeOK
<1>2. engine[e] \in EngineStates /\ campaign.seed \in 0 .. MaxStarts
  BY BootAssumption DEF TypeOK, Campaigns, Seeds
<1>3. p \in EngineStates /\ r \in EngineStates
  BY <1>2, StateUpdates, Zenon
<1>4. /\ r.st = engine[e].st /\ r.at = engine[e].at /\ r.pc = "marker" /\ r.seed = campaign.seed
      /\ r.sent = engine[e].sent /\ r.rules = engine[e].rules /\ r.lone = engine[e].lone
  BY <1>2 DEF EngineStates
<1> HIDE DEF r
<1> QED
  BY <1>1, <1>3, <1>4, BecomesTyped DEF Turns

LEMMA ImportEffect ==
  ASSUME TypeOK, NEW e \in Engines, InWorld(e, {"publish"}), engine[e].sent < Len(Plan),
         engine' = [engine EXCEPT ![e].sent = @ + 1,
                    ![e].pc = IF engine[e].sent + 1 = Len(Plan) THEN "born" ELSE @]
  PROVE  /\ Turns(e, IF engine[e].sent + 1 = Len(Plan) THEN "born" ELSE "publish",
                  engine[e].seed, engine[e].sent + 1)
         /\ engine' \in [Engines -> EngineStates]
<1> DEFINE p == [engine[e] EXCEPT !.sent = engine[e].sent + 1]
           c == IF engine[e].sent + 1 = Len(Plan) THEN "born" ELSE "publish"
           r == [p EXCEPT !.pc = c]
<1>1. engine[e] \in EngineStates /\ engine[e].pc = "publish"
  BY DEF TypeOK, InWorld
<1>2. Becomes(e, r)
  BY <1>1 DEF Becomes, TypeOK, EngineStates
<1>3. engine[e].sent + 1 \in 0 .. Len(Plan)
  BY StateFields, BootAssumption DEF TypeOK
<1>4. p \in EngineStates
  BY <1>1, <1>3, StateUpdates, Zenon
<1>5. c \in {"run", "publish", "born", "indexed", "mark", "marker", "wait", "last", "start"}
  OBVIOUS
<1>6. r \in EngineStates
  BY <1>4, <1>5, StateUpdates, Zenon
<1>7. /\ r.st = engine[e].st /\ r.at = engine[e].at /\ r.pc = c /\ r.seed = engine[e].seed
      /\ r.sent = engine[e].sent + 1 /\ r.rules = engine[e].rules /\ r.lone = engine[e].lone
  BY <1>1 DEF EngineStates
<1> HIDE DEF r
<1> QED
  BY <1>2, <1>6, <1>7, BecomesTyped DEF Turns

LEMMA CompletionEffect ==
  ASSUME TypeOK, NEW e \in Engines, campaign # None,
         engine' = [engine EXCEPT ![e].pc = IF campaign.marked THEN "last" ELSE "wait",
                                  ![e].marker = campaign.marked]
  PROVE  /\ Turns(e, IF campaign.marked THEN "last" ELSE "wait", engine[e].seed, engine[e].sent)
         /\ engine' \in [Engines -> EngineStates]
<1> DEFINE c == IF campaign.marked THEN "last" ELSE "wait"
           p == [engine[e] EXCEPT !.pc = c]
           r == [p EXCEPT !.marker = campaign.marked]
<1>1. engine[e] \in EngineStates /\ campaign.marked \in BOOLEAN
  BY BootAssumption DEF TypeOK, Campaigns
<1>2. Becomes(e, r)
  BY DEF Becomes, TypeOK
<1>5. c \in {"run", "publish", "born", "indexed", "mark", "marker", "wait", "last", "start"}
  OBVIOUS
<1>6. p \in EngineStates /\ r \in EngineStates
  BY <1>1, <1>5, StateUpdates, Zenon
<1>7. /\ r.st = engine[e].st /\ r.at = engine[e].at /\ r.pc = c /\ r.seed = engine[e].seed
      /\ r.sent = engine[e].sent /\ r.rules = engine[e].rules /\ r.lone = engine[e].lone
  BY <1>1 DEF EngineStates
<1> HIDE DEF r
<1> QED
  BY <1>2, <1>6, <1>7, BecomesTyped DEF Turns

LEMMA BaselineEffect ==
  ASSUME TypeOK, NEW e \in Engines,
         engine' = [engine EXCEPT ![e].baseline = status.rev, ![e].pc = "start"]
  PROVE  /\ Turns(e, "start", engine[e].seed, engine[e].sent) /\ engine'[e].baseline = status.rev
         /\ engine' \in [Engines -> EngineStates]
<1> DEFINE p == [engine[e] EXCEPT !.baseline = status.rev]
           r == [p EXCEPT !.pc = "start"]
<1>1. engine[e] \in EngineStates /\ status.rev \in 0 .. 2 * MaxStarts
  BY DEF TypeOK
<1>2. Becomes(e, r)
  BY DEF Becomes, TypeOK
<1>3. p \in EngineStates /\ r \in EngineStates
  BY <1>1, StateUpdates, Zenon
<1>4. /\ r.st = engine[e].st /\ r.at = engine[e].at /\ r.pc = "start" /\ r.seed = engine[e].seed
      /\ r.sent = engine[e].sent /\ r.rules = engine[e].rules /\ r.lone = engine[e].lone
      /\ r.baseline = status.rev
  BY <1>1 DEF EngineStates
<1> HIDE DEF r
<1> QED
  BY <1>2, <1>3, <1>4, BecomesTyped DEF Turns

(* The rule processor of a process has replayed the entities.              *)
LEMMA ReadyEffect ==
  ASSUME TypeOK, NEW e \in Engines, engine' = [engine EXCEPT ![e].rules = "ready"]
  PROVE  /\ \A o \in Engines : o # e => engine'[o] = engine[o]
         /\ engine'[e].st = engine[e].st /\ engine'[e].at = engine[e].at /\ engine'[e].pc = engine[e].pc
         /\ engine'[e].seed = engine[e].seed /\ engine'[e].sent = engine[e].sent
         /\ engine'[e].lone = engine[e].lone /\ engine'[e].baseline = engine[e].baseline
         /\ engine'[e].rules = "ready"
         /\ engine' \in [Engines -> EngineStates]
<1> DEFINE r == [engine[e] EXCEPT !.rules = "ready"]
<1>1. engine[e] \in EngineStates
  BY DEF TypeOK
<1>2. Becomes(e, r)
  BY DEF Becomes, TypeOK
<1>3. r \in EngineStates
  BY <1>1, StateUpdates, Zenon
<1>4. /\ r.st = engine[e].st /\ r.at = engine[e].at /\ r.pc = engine[e].pc /\ r.seed = engine[e].seed
      /\ r.sent = engine[e].sent /\ r.rules = "ready" /\ r.lone = engine[e].lone
      /\ r.baseline = engine[e].baseline
  BY <1>1 DEF EngineStates
<1> HIDE DEF r
<1> QED
  BY <1>2, <1>3, <1>4, BecomesTyped

(* A process starts, and nobody is alone that was before.                  *)
LEMMA StartEffect ==
  ASSUME TypeOK, NEW e \in Engines, Start(e)
  PROVE  /\ engine'[e].st = "booting" /\ engine'[e].at = 1 /\ engine'[e].pc = "run"
         /\ engine'[e].sent = 0 /\ engine'[e].rules = "none"
         /\ engine'[e].lone => \A o \in Engines : o # e => ~(engine'[o].st \in {"booting", "up"})
         /\ \A o \in Engines : o # e =>
              /\ engine'[o].st = engine[o].st /\ engine'[o].at = engine[o].at
              /\ engine'[o].pc = engine[o].pc /\ engine'[o].seed = engine[o].seed
              /\ engine'[o].sent = engine[o].sent /\ engine'[o].rules = engine[o].rules
              /\ ~engine'[o].lone
         /\ engine' \in [Engines -> EngineStates]
         /\ ~Alive(e) /\ starts' = starts + 1 /\ UNCHANGED <<storeVars, index>>
<1> DEFINE lone == \A o \in Engines \ {e} : ~Alive(o)
           r == [Down EXCEPT !.st = "booting", !.lone = lone]
           s(o) == [engine[o] EXCEPT !.lone = FALSE]
<1>1. engine' = [o \in Engines |-> IF o = e THEN r ELSE s(o)]
  BY DEF Start
<1>2. /\ r.st = "booting" /\ r.at = 1 /\ r.pc = "run" /\ r.sent = 0 /\ r.rules = "none"
      /\ r.lone = lone
  BY DEF Down
<1>3. r \in EngineStates
  BY DownTyped, Zenon
<1>4. \A o \in Engines : s(o) \in EngineStates
  BY StateUpdates, Zenon DEF TypeOK
<1>5. \A o \in Engines :
        /\ s(o).st = engine[o].st /\ s(o).at = engine[o].at
        /\ s(o).pc = engine[o].pc /\ s(o).seed = engine[o].seed
        /\ s(o).sent = engine[o].sent /\ s(o).rules = engine[o].rules
        /\ ~s(o).lone
  BY DEF TypeOK, EngineStates
<1> HIDE DEF r, s
<1>6. engine'[e] = r /\ \A o \in Engines : o # e => engine'[o] = s(o)
  BY <1>1
<1>7. engine' \in [Engines -> EngineStates]
  BY <1>1, <1>3, <1>4
<1>8. engine'[e].lone => \A o \in Engines : o # e => ~(engine'[o].st \in {"booting", "up"})
  BY <1>2, <1>5, <1>6 DEF Alive
<1>9. ~Alive(e) /\ starts' = starts + 1 /\ UNCHANGED <<storeVars, index>>
  BY DEF Start
<1> QED
  BY <1>2, <1>5, <1>6, <1>7, <1>8, <1>9

-----------------------------------------------------------------------------
(* The kinds of step there are, with what each rests on.                   *)

OtherIndexes(e) == \A o \in Engines : o # e => index'[o] = index[o]

HaltStep(e) == Halts(e) /\ OtherIndexes(e) /\ UNCHANGED <<storeVars, starts>>

AdvanceStep(e) ==
  /\ \/ engine[e].at # 14 /\ Advances(e, engine[e].rules)
     \/ engine[e].at = 14 /\ engine[e].pc = "start" /\ Advances(e, "building")
  /\ engine[e].at = 6 => engine[e].pc = "last" /\ index[e] = Members
  /\ engine[e].at = 15 => status.rev > engine[e].baseline /\ status.ready
  /\ casePhase' = casePhase \/ (casePhase = "none" /\ casePhase' = "cold-open")
  /\ UNCHANGED <<campaign, entityLog, ingested, world, status, leftover, index, starts>>

NewCampaign(e) ==
  /\ InWorld(e, {"run"})
  /\ campaign = None
  /\ campaign' = [seed |-> starts, exp |-> Requested[e], marked |-> FALSE]
  /\ leftover' = (entityLog # <<>>)
  /\ UNCHANGED <<graphVars, status, starts>>

ClaimStep(e) == NewCampaign(e) /\ Turns(e, "publish", starts, engine[e].sent) /\ UNCHANGED index
LostClaimStep(e) == NewCampaign(e) /\ Halts(e) /\ OtherIndexes(e)

NewMessage(e) ==
  /\ InWorld(e, {"publish"})
  /\ engine[e].sent < Len(Plan)
  /\ entityLog' = Append(entityLog, Plan[engine[e].sent + 1])
  /\ UNCHANGED <<campaign, ingested, world, casePhase, status, leftover, starts>>

ImportStep(e) ==
  /\ NewMessage(e)
  /\ Turns(e, IF engine[e].sent + 1 = Len(Plan) THEN "born" ELSE "publish", engine[e].seed, engine[e].sent + 1)
  /\ UNCHANGED index
LostImportStep(e) == NewMessage(e) /\ Halts(e) /\ OtherIndexes(e)

StoredStep(e) ==
  /\ InWorld(e, {"run"})
  /\ campaign # None /\ campaign.exp = Requested[e]
  /\ Turns(e, "marker", campaign.seed, engine[e].sent)
  /\ UNCHANGED <<storeVars, index, starts>>

MoveStep(e, to) ==
  /\ \/ to = "indexed" /\ InWorld(e, {"born"}) /\ AllBorn
     \/ to = "mark" /\ InWorld(e, {"indexed"})
     \/ to = "wait" /\ InWorld(e, {"marker"})
     \/ to = "last" /\ InWorld(e, {"marker", "wait"}) /\ campaign.marked
  /\ Turns(e, to, engine[e].seed, engine[e].sent)
  /\ UNCHANGED <<storeVars, index, starts>>

MarkStep(e) ==
  /\ InWorld(e, {"mark"})
  /\ campaign # None
  /\ campaign' = [campaign EXCEPT !.marked = TRUE]
  /\ Turns(e, "last", engine[e].seed, engine[e].sent)
  /\ UNCHANGED <<graphVars, status, leftover, index, starts>>

BaselineStep(e) ==
  /\ engine[e].st = "booting" /\ engine[e].at = 14 /\ engine[e].pc = "run"
  /\ Turns(e, "start", engine[e].seed, engine[e].sent)
  /\ engine'[e].baseline = status.rev
  /\ UNCHANGED <<storeVars, index, starts>>

ProcessStep(e) ==
  \/ Start(e) \/ HaltStep(e) \/ AdvanceStep(e) \/ ClaimStep(e) \/ LostClaimStep(e) \/ ImportStep(e)
  \/ LostImportStep(e) \/ StoredStep(e)
  \/ (\E to \in {"indexed", "mark", "wait", "last"} : MoveStep(e, to))
  \/ MarkStep(e) \/ BaselineStep(e)
  \/ PublishRuleStatus(e) \/ GraphIndex(e) \/ Play(e)

Typed == TypeOK /\ Placed /\ CampaignHeld

LEMMA HaltIsStep ==
  ASSUME TypeOK, NEW e \in Engines, UNCHANGED <<storeVars, starts>>,
         Refuse(e) \/ (Becomes(e, Down) /\ index' = [index EXCEPT ![e] = {}])
  PROVE  HaltStep(e) /\ engine' \in [Engines -> EngineStates] /\ index' \in [Engines -> SUBSET Members]
<1>1. Halts(e) /\ engine' \in [Engines -> EngineStates]
  BY HaltEffect
<1>2. index' = [index EXCEPT ![e] = {}]
  BY DEF Refuse
<1>3. index \in [Engines -> SUBSET Members]
  BY DEF TypeOK
<1>4. OtherIndexes(e) /\ index' \in [Engines -> SUBSET Members]
  BY <1>2, <1>3 DEF OtherIndexes
<1> QED
  BY <1>1, <1>4 DEF HaltStep

(* Every action of a process is one of those kinds, and keeps its types.   *)
LEMMA StepKinds ==
  ASSUME Typed, NEW e \in Engines,
         BootStep(e) \/ StepFails(e) \/ Crash(e)
  PROVE  ProcessStep(e) /\ engine' \in [Engines -> EngineStates] /\ index' \in [Engines -> SUBSET Members]
<1> USE DEF Typed
<1>0. UNCHANGED index => index' \in [Engines -> SUBSET Members]
  BY DEF TypeOK
<1>1. CASE RunStep(e)
  <2>1. engine[e].st = "booting"
    BY <1>1 DEF RunStep, Runnable
  <2>2. Advances(e, engine[e].rules) /\ engine' \in [Engines -> EngineStates]
    BY <1>1, <2>1, AdvanceEffect DEF RunStep
  <2>3. engine[e].at \notin {6, 9, 14, 15, 17, 21}
    BY <1>1, PlainIsElsewhere DEF RunStep
  <2>4. UNCHANGED <<storeVars, index, starts>>
    BY <1>1 DEF RunStep
  <2>5. AdvanceStep(e)
    BY <2>2, <2>3, <2>4 DEF AdvanceStep, storeVars, graphVars
  <2> QED
    BY <1>0, <2>2, <2>4, <2>5 DEF ProcessStep
<1>2. CASE ClaimFresh(e)
  <2>1. InWorld(e, {"run"})
    BY <1>2, AtIsPlace DEF ClaimFresh
  <2>2. NewCampaign(e)
    BY <1>2, <2>1 DEF ClaimFresh, NewCampaign
  <2>3. CASE engine' = [engine EXCEPT ![e].pc = "publish", ![e].fresh = TRUE, ![e].seed = starts] /\ UNCHANGED index
    <3>1. Turns(e, "publish", starts, engine[e].sent) /\ engine' \in [Engines -> EngineStates]
      BY <2>3, ClaimEffect DEF TypeOK
    <3> QED
      BY <1>0, <2>2, <2>3, <3>1 DEF ClaimStep, ProcessStep
  <2>4. CASE Refuse(e)
    <3>1. Halts(e) /\ engine' \in [Engines -> EngineStates]
      BY <2>4, HaltEffect
    <3>2. OtherIndexes(e) /\ index' \in [Engines -> SUBSET Members]
      BY <2>4 DEF Refuse, OtherIndexes, TypeOK
    <3> QED
      BY <2>2, <3>1, <3>2 DEF LostClaimStep, ProcessStep
  <2> QED
    BY <1>2, <2>3, <2>4 DEF ClaimFresh
<1>3. CASE ClaimStored(e)
  <2>1. InWorld(e, {"run"}) /\ campaign # None /\ UNCHANGED <<storeVars, starts>>
    BY <1>3, AtIsPlace DEF ClaimStored
  <2>2. CASE Refuse(e)
    BY <2>1, <2>2, HaltIsStep DEF ProcessStep
  <2>3. CASE /\ campaign.exp = Requested[e] /\ UNCHANGED index
             /\ engine' = [engine EXCEPT ![e].pc = "marker", ![e].seed = campaign.seed]
    <3>1. Turns(e, "marker", campaign.seed, engine[e].sent) /\ engine' \in [Engines -> EngineStates]
      BY <2>1, <2>3, StoredEffect
    <3> QED
      BY <1>0, <2>1, <2>3, <3>1 DEF StoredStep, ProcessStep
  <2> QED
    BY <1>3, <2>2, <2>3 DEF ClaimStored
<1>4. CASE Import(e)
  <2>1. InWorld(e, {"publish"}) /\ engine[e].sent < Len(Plan)
    BY <1>4, AtIsPlace DEF Import
  <2>2. NewMessage(e)
    BY <1>4, <2>1 DEF Import, NewMessage
  <2>3. CASE UNCHANGED index /\ engine' = [engine EXCEPT ![e].sent = @ + 1,
                    ![e].pc = IF engine[e].sent + 1 = Len(Plan) THEN "born" ELSE @]
    <3>1. /\ Turns(e, IF engine[e].sent + 1 = Len(Plan) THEN "born" ELSE "publish",
                   engine[e].seed, engine[e].sent + 1)
          /\ engine' \in [Engines -> EngineStates]
      BY <2>1, <2>3, ImportEffect
    <3> QED
      BY <1>0, <2>2, <2>3, <3>1 DEF ImportStep, ProcessStep
  <2>4. CASE Refuse(e)
    <3>1. Halts(e) /\ engine' \in [Engines -> EngineStates]
      BY <2>4, HaltEffect
    <3>2. OtherIndexes(e) /\ index' \in [Engines -> SUBSET Members]
      BY <2>4 DEF Refuse, OtherIndexes, TypeOK
    <3> QED
      BY <2>2, <3>1, <3>2 DEF LostImportStep, ProcessStep
  <2> QED
    BY <1>4, <2>3, <2>4 DEF Import
<1>5. CASE AwaitEntitiesBorn(e)
  <2>1. InWorld(e, {"born"}) /\ AllBorn /\ UNCHANGED <<storeVars, index, starts>>
    BY <1>5, AtIsPlace DEF AwaitEntitiesBorn, AllBorn
  <2>2. Turns(e, "indexed", engine[e].seed, engine[e].sent) /\ engine' \in [Engines -> EngineStates]
    BY <1>5, GotoEffect DEF AwaitEntitiesBorn
  <2>3. MoveStep(e, "indexed")
    BY <2>1, <2>2 DEF MoveStep
  <2> QED
    BY <1>0, <2>1, <2>2, <2>3 DEF ProcessStep
<1>6. CASE AwaitMembershipIndexed(e)
  <2>1. UNCHANGED <<storeVars, index, starts>> /\ index[e] = Members
    BY <1>6 DEF AwaitMembershipIndexed
  <2>2. CASE At(e, "world", "indexed") /\ Goto(e, "mark")
    <3>1. InWorld(e, {"indexed"})
      BY <2>2, AtIsPlace
    <3>2. Turns(e, "mark", engine[e].seed, engine[e].sent) /\ engine' \in [Engines -> EngineStates]
      BY <2>2, GotoEffect
    <3>3. MoveStep(e, "mark")
      BY <2>1, <3>1, <3>2 DEF MoveStep
    <3> QED
      BY <1>0, <2>1, <3>2, <3>3 DEF ProcessStep
  <2>3. CASE At(e, "world", "last") /\ Complete(e)
    <3>1. engine[e].st = "booting" /\ engine[e].at = 6 /\ engine[e].pc = "last"
      BY <2>3, AtIsPlace DEF InWorld
    <3>2. Advances(e, engine[e].rules) /\ engine' \in [Engines -> EngineStates]
      BY <2>3, <3>1, AdvanceEffect
    <3>3. AdvanceStep(e)
      BY <2>1, <3>1, <3>2 DEF AdvanceStep, storeVars, graphVars
    <3> QED
      BY <1>0, <2>1, <3>2, <3>3 DEF ProcessStep
  <2> QED
    BY <1>6, <2>2, <2>3 DEF AwaitMembershipIndexed
<1>7. CASE MarkImported(e)
  <2>1. InWorld(e, {"mark"}) /\ campaign # None
    BY <1>7, AtIsPlace DEF MarkImported
  <2>2. Turns(e, "last", engine[e].seed, engine[e].sent) /\ engine' \in [Engines -> EngineStates]
    BY <1>7, GotoEffect DEF MarkImported
  <2>3. MarkStep(e)
    BY <1>7, <2>1, <2>2 DEF MarkStep, MarkImported
  <2> QED
    BY <1>0, <1>7, <2>2, <2>3 DEF ProcessStep, MarkImported
<1>8. CASE ImportCompletion(e)
  <2>1. InWorld(e, {"marker"}) /\ UNCHANGED <<storeVars, index, starts>>
    BY <1>8, AtIsPlace DEF ImportCompletion
  <2>2. campaign # None
    BY <2>1 DEF CampaignHeld, Claimed, InWorld
  <2>3. /\ Turns(e, IF campaign.marked THEN "last" ELSE "wait", engine[e].seed, engine[e].sent)
        /\ engine' \in [Engines -> EngineStates]
    BY <1>8, <2>2, CompletionEffect DEF ImportCompletion
  <2>4. CASE campaign.marked
    <3>1. InWorld(e, {"marker", "wait"})
      BY <2>1 DEF InWorld
    <3>2. MoveStep(e, "last")
      BY <2>1, <2>3, <2>4, <3>1 DEF MoveStep
    <3> QED
      BY <1>0, <2>1, <2>3, <3>2 DEF ProcessStep
  <2>5. CASE ~campaign.marked
    <3>2. MoveStep(e, "wait")
      BY <2>1, <2>3, <2>5 DEF MoveStep
    <3> QED
      BY <1>0, <2>1, <2>3, <3>2 DEF ProcessStep
  <2> QED
    BY <2>4, <2>5
<1>9. CASE AwaitImportCompletion(e)
  <2>1. InWorld(e, {"wait"}) /\ campaign.marked /\ UNCHANGED <<storeVars, index, starts>>
    BY <1>9, AtIsPlace DEF AwaitImportCompletion
  <2>2. Turns(e, "last", engine[e].seed, engine[e].sent) /\ engine' \in [Engines -> EngineStates]
    BY <1>9, GotoEffect DEF AwaitImportCompletion
  <2>3. InWorld(e, {"marker", "wait"})
    BY <2>1 DEF InWorld
  <2>4. MoveStep(e, "last")
    BY <2>1, <2>2, <2>3 DEF MoveStep
  <2> QED
    BY <1>0, <2>1, <2>2, <2>4 DEF ProcessStep
<1>10. CASE WaitExpires(e)
  BY <1>10, HaltIsStep DEF WaitExpires, ProcessStep
<1>11. CASE AttachCaseLifecycle(e)
  <2>1. engine[e].st = "booting" /\ engine[e].at = 9
    BY <1>11, AtIsPlace DEF AttachCaseLifecycle
  <2>2. Advances(e, engine[e].rules) /\ engine' \in [Engines -> EngineStates]
    BY <1>11, <2>1, AdvanceEffect DEF AttachCaseLifecycle
  <2>3. AdvanceStep(e)
    BY <1>11, <2>1, <2>2 DEF AdvanceStep, AttachCaseLifecycle
  <2> QED
    BY <1>0, <1>11, <2>2, <2>3 DEF ProcessStep, AttachCaseLifecycle
<1>12. CASE CaptureRuleStatusBaseline(e)
  <2>1. engine[e].st = "booting" /\ engine[e].at = 14 /\ engine[e].pc = "run"
    BY <1>12, AtIsPlace DEF CaptureRuleStatusBaseline
  <2>2. /\ Turns(e, "start", engine[e].seed, engine[e].sent) /\ engine'[e].baseline = status.rev
        /\ engine' \in [Engines -> EngineStates]
    BY <1>12, BaselineEffect DEF CaptureRuleStatusBaseline
  <2>3. UNCHANGED <<storeVars, index, starts>>
    BY <1>12 DEF CaptureRuleStatusBaseline
  <2>4. BaselineStep(e)
    BY <2>1, <2>2, <2>3 DEF BaselineStep
  <2> QED
    BY <1>0, <2>2, <2>3, <2>4 DEF ProcessStep
<1>13. CASE StartRules(e)
  <2>1. engine[e].at = 14 /\ engine[e].pc = "start"
    BY <1>13, AtIsPlace DEF StartRules
  <2>2. Advances(e, "building") /\ engine' \in [Engines -> EngineStates]
    BY <1>13, StartRulesEffect
  <2>3. UNCHANGED <<storeVars, index, starts>>
    BY <1>13 DEF StartRules
  <2>4. AdvanceStep(e)
    BY <2>1, <2>2, <2>3 DEF AdvanceStep, storeVars, graphVars
  <2> QED
    BY <1>0, <2>2, <2>3, <2>4 DEF ProcessStep
<1>14. CASE CheckRuleReadiness(e)
  <2>1. engine[e].st = "booting" /\ engine[e].at = 15
    BY <1>14, AtIsPlace DEF CheckRuleReadiness
  <2>2. Advances(e, engine[e].rules) /\ engine' \in [Engines -> EngineStates]
    BY <1>14, <2>1, AdvanceEffect DEF CheckRuleReadiness
  <2>3. UNCHANGED <<storeVars, index, starts>> /\ status.rev > engine[e].baseline /\ status.ready
    BY <1>14 DEF CheckRuleReadiness
  <2>4. AdvanceStep(e)
    BY <2>1, <2>2, <2>3 DEF AdvanceStep, storeVars, graphVars
  <2> QED
    BY <1>0, <2>2, <2>3, <2>4 DEF ProcessStep
<1>15. CASE RuleReadinessExpires(e)
  BY <1>15, HaltIsStep DEF RuleReadinessExpires, ProcessStep
<1>16. CASE CheckImportMarked(e)
  <2>1. engine[e].st = "booting" /\ engine[e].at \in {17, 21} /\ UNCHANGED <<storeVars, starts>>
    BY <1>16, AtIsPlace DEF CheckImportMarked
  <2>2. CASE Refuse(e)
    BY <2>1, <2>2, HaltIsStep DEF ProcessStep
  <2>3. CASE Complete(e) /\ UNCHANGED index
    <3>1. Advances(e, engine[e].rules) /\ engine' \in [Engines -> EngineStates]
      BY <2>1, <2>3, AdvanceEffect
    <3>2. AdvanceStep(e)
      BY <2>1, <2>3, <3>1 DEF AdvanceStep, storeVars, graphVars
    <3> QED
      BY <1>0, <2>3, <3>1, <3>2 DEF ProcessStep
  <2> QED
    BY <1>16, <2>2, <2>3 DEF CheckImportMarked
<1>17. CASE StepFails(e)
  BY <1>17, HaltIsStep DEF StepFails, ProcessStep
<1>18. CASE Crash(e)
  BY <1>18, HaltIsStep DEF Crash, Becomes, ProcessStep
<1> QED
  BY <1>1, <1>2, <1>3, <1>4, <1>5, <1>6, <1>7, <1>8, <1>9, <1>10, <1>11, <1>12, <1>13, <1>14,
     <1>15, <1>16, <1>17, <1>18 DEF BootStep

-----------------------------------------------------------------------------
(* The types.                                                              *)

LEMMA Ranges ==
  ASSUME TypeOK
  PROVE  \A o \in Engines :
           /\ engine[o].st \in {"down", "booting", "up", "refused"}
           /\ engine[o].at \in 1 .. 22
           /\ engine[o].lone \in BOOLEAN
           /\ engine[o].sent \in 0 .. Len(Plan)
           /\ engine[o].baseline \in Nat
BY StateFields, BootAssumption DEF TypeOK

LEMMA PlanIsTyped ==
  /\ Plan \in Seq(Entities) /\ Len(Plan) \in Nat /\ Len(Plan) > 0
  /\ \A i \in 1 .. Len(Plan) : Plan[i] \in Entities
  /\ \A i, j \in 1 .. Len(Plan) : Plan[i] = Plan[j] => i = j
  /\ \A x \in Entities : \E i \in 1 .. Len(Plan) : Plan[i] = x
BY BootAssumption DEF Entities

LEMMA TypeStep ==
  ASSUME Typed, Next
  PROVE  TypeOK'
<1> USE DEF Typed
<1>1. ASSUME NEW e \in Engines, BootStep(e) \/ StepFails(e) \/ Crash(e)
      PROVE  TypeOK'
  <2>1. ProcessStep(e) /\ engine' \in [Engines -> EngineStates] /\ index' \in [Engines -> SUBSET Members]
    BY <1>1, StepKinds
  <2>2. UNCHANGED starts
    BY <1>1 DEF BootStep, RunStep, ClaimFresh, ClaimStored, Import, AwaitEntitiesBorn, AwaitMembershipIndexed,
       MarkImported, ImportCompletion, AwaitImportCompletion, WaitExpires, AttachCaseLifecycle,
       CaptureRuleStatusBaseline, StartRules, CheckRuleReadiness, RuleReadinessExpires, CheckImportMarked,
       StepFails, Crash
  <2>3. UNCHANGED status
    BY <1>1 DEF BootStep, RunStep, ClaimFresh, ClaimStored, Import, AwaitEntitiesBorn, AwaitMembershipIndexed,
       MarkImported, ImportCompletion, AwaitImportCompletion, WaitExpires, AttachCaseLifecycle,
       CaptureRuleStatusBaseline, StartRules, CheckRuleReadiness, RuleReadinessExpires, CheckImportMarked,
       StepFails, Crash, storeVars
  <2>4. campaign' \in Campaigns \cup {None} /\ leftover' \in BOOLEAN
    <3>1. CASE ClaimFresh(e)
      <4>1. engine[e].st = "booting"
        BY <3>1 DEF ClaimFresh, At, Runnable
      <4>2. starts \in Seeds
        BY <4>1, BootAssumption DEF Placed, Alive, TypeOK, Seeds
      <4>3. Requested[e] \in Experiences
        BY DEF Experiences
      <4> QED
        BY <3>1, <4>2, <4>3 DEF ClaimFresh, Campaigns
    <3>2. CASE MarkImported(e)
      <4>1. campaign \in Campaigns
        BY <3>2 DEF MarkImported, TypeOK
      <4> QED
        BY <3>2, <4>1 DEF MarkImported, Campaigns, TypeOK
    <3>3. CASE ~ClaimFresh(e) /\ ~MarkImported(e)
      BY <1>1, <3>3 DEF BootStep, RunStep, ClaimStored, Import, AwaitEntitiesBorn, AwaitMembershipIndexed,
         ImportCompletion, AwaitImportCompletion, WaitExpires, AttachCaseLifecycle, TypeOK,
         CaptureRuleStatusBaseline, StartRules, CheckRuleReadiness, RuleReadinessExpires, CheckImportMarked,
         StepFails, Crash, storeVars
    <3> QED
      BY <3>1, <3>2, <3>3
  <2>5. entityLog' \in Seq(Entities) /\ ingested' \in 0 .. Len(entityLog')
        /\ world' \in [Entities -> {"unborn", "template", "played"}]
    <3>1. CASE Import(e)
      <4>0. engine[e].sent < Len(Plan)
        BY <3>1 DEF Import
      <4>1. engine[e].sent + 1 \in 1 .. Len(Plan)
        BY <4>0, Ranges, PlanIsTyped
      <4>2. Plan[engine[e].sent + 1] \in Entities
        BY <4>1, PlanIsTyped
      <4>3. Len(entityLog') = Len(entityLog) + 1 /\ entityLog' \in Seq(Entities)
        BY <3>1, <4>2 DEF Import, TypeOK
      <4> QED
        BY <3>1, <4>3 DEF Import, TypeOK
    <3>2. CASE ~Import(e)
      <4>1. UNCHANGED <<entityLog, ingested, world>>
        BY <1>1, <3>2 DEF BootStep, RunStep, ClaimFresh, ClaimStored, AwaitEntitiesBorn, AwaitMembershipIndexed,
           MarkImported, ImportCompletion, AwaitImportCompletion, WaitExpires, AttachCaseLifecycle,
           CaptureRuleStatusBaseline, StartRules, CheckRuleReadiness, RuleReadinessExpires, CheckImportMarked,
           StepFails, Crash, storeVars, graphVars
      <4> QED
        BY <4>1 DEF TypeOK
    <3> QED
      BY <3>1, <3>2
  <2>6. casePhase' \in {"none", "cold-open", "discovery"}
    BY <1>1 DEF BootStep, RunStep, ClaimFresh, ClaimStored, Import, AwaitEntitiesBorn, AwaitMembershipIndexed,
       MarkImported, ImportCompletion, AwaitImportCompletion, WaitExpires, AttachCaseLifecycle,
       CaptureRuleStatusBaseline, StartRules, CheckRuleReadiness, RuleReadinessExpires, CheckImportMarked,
       StepFails, Crash, storeVars, graphVars, TypeOK
  <2> QED
    BY <2>1, <2>2, <2>3, <2>4, <2>5, <2>6 DEF TypeOK
<1>2. ASSUME NEW e \in Engines, Start(e)
      PROVE  TypeOK'
  <2>1. engine' \in [Engines -> EngineStates]
    BY <1>2, StartEffect
  <2>2. starts \in 0 .. MaxStarts /\ starts < MaxStarts /\ starts' = starts + 1 /\ MaxStarts \in Nat
    BY <1>2, BootAssumption DEF Start, TypeOK
  <2>3. starts' \in 0 .. MaxStarts
    BY <2>2
  <2> QED
    BY <1>2, <2>1, <2>3 DEF Start, TypeOK, storeVars, graphVars
<1>3. ASSUME NEW e \in Engines, PublishRuleStatus(e)
      PROVE  TypeOK'
  <2>1. engine' \in [Engines -> EngineStates]
    BY <1>3, ReadyEffect DEF PublishRuleStatus, TypeOK
  <2>2. status.rev \in 0 .. 2 * MaxStarts /\ status.rev < 2 * MaxStarts /\ MaxStarts \in Nat
    BY <1>3, BootAssumption DEF PublishRuleStatus, TypeOK
  <2>3. status.rev + 1 \in 0 .. 2 * MaxStarts
    BY <2>2
  <2>4. \E b \in BOOLEAN : status' = [rev |-> status.rev + 1, by |-> e, ready |-> b]
    BY <1>3 DEF PublishRuleStatus
  <2>5. status' \in [rev : 0 .. 2 * MaxStarts, by : Engines \cup {None}, ready : BOOLEAN]
    <3> DEFINE R == 0 .. 2 * MaxStarts
               W == Engines \cup {None}
    <3>1. status.rev + 1 \in R /\ e \in W
      BY <2>3
    <3> HIDE DEF R, W
    <3>2. status' \in [rev : R, by : W, ready : BOOLEAN]
      BY <2>4, <3>1
    <3> QED
      BY <3>2, Zenon DEF R, W
  <2> QED
    BY <1>3, <2>1, <2>5 DEF PublishRuleStatus, TypeOK, graphVars
<1>4. ASSUME NEW e \in Engines, GraphIndex(e)
      PROVE  TypeOK'
  <2>1. index' \in [Engines -> SUBSET Members]
    BY <1>4 DEF GraphIndex, TypeOK
  <2> QED
    BY <1>4, <2>1 DEF GraphIndex, TypeOK, storeVars, graphVars
<1>5. ASSUME NEW e \in Engines, Play(e)
      PROVE  TypeOK'
  <2>1. world' \in [Entities -> {"unborn", "template", "played"}] /\ casePhase' \in {"none", "cold-open", "discovery"}
    BY <1>5 DEF Play, TypeOK
  <2> QED
    BY <1>5, <2>1 DEF Play, TypeOK
<1>6. CASE GraphIngest
  <2>1. ingested' \in 0 .. Len(entityLog)
    BY <1>6 DEF GraphIngest, TypeOK
  <2>2. world' \in [Entities -> {"unborn", "template", "played"}]
    BY <1>6 DEF GraphIngest, TypeOK
  <2> QED
    BY <1>6, <2>1, <2>2 DEF GraphIngest, TypeOK
<1>7. CASE OperatorDeletes
  BY <1>7 DEF OperatorDeletes, TypeOK, graphVars
<1> QED
  BY <1>1, <1>2, <1>3, <1>4, <1>5, <1>6, <1>7 DEF Next

-----------------------------------------------------------------------------
(* The inductive step, one lemma per part of the invariant.                *)

LEMMA NextKinds ==
  ASSUME BootInv, Next
  PROVE  (\E e \in Engines : ProcessStep(e)) \/ GraphIngest \/ OperatorDeletes
<1>1. Typed
  BY DEF BootInv, Typed
<1>2. ASSUME NEW e \in Engines, Start(e) \/ PublishRuleStatus(e) \/ GraphIndex(e) \/ Play(e)
      PROVE  ProcessStep(e)
  BY <1>2 DEF ProcessStep
<1>3. ASSUME NEW e \in Engines, BootStep(e) \/ StepFails(e) \/ Crash(e)
      PROVE  ProcessStep(e)
  BY <1>1, <1>3, StepKinds
<1> QED
  BY <1>2, <1>3 DEF Next

(* Nothing of the processes changes in a step of the graph or the operator.*)
LEMMA PublishEffect ==
  ASSUME TypeOK, NEW e \in Engines, PublishRuleStatus(e)
  PROVE  /\ \A o \in Engines : o # e => engine'[o] = engine[o]
         /\ engine'[e].st = engine[e].st /\ engine'[e].at = engine[e].at /\ engine'[e].pc = engine[e].pc
         /\ engine'[e].seed = engine[e].seed /\ engine'[e].sent = engine[e].sent
         /\ engine'[e].lone = engine[e].lone /\ engine'[e].baseline = engine[e].baseline
         /\ Alive(e) /\ engine[e].rules = "building"
         /\ status'.rev = status.rev + 1 /\ status'.by = e
         /\ status'.ready => engine'[e].rules = "ready"
         /\ engine'[e].rules \in {engine[e].rules, "ready"}
         /\ UNCHANGED <<campaign, graphVars, leftover, index, starts>>
BY ReadyEffect DEF PublishRuleStatus

LEMMA PlacedStep ==
  ASSUME BootInv, NEW e \in Engines, ProcessStep(e)
  PROVE  Placed'
<1> SUFFICES ASSUME NEW o \in Engines
             PROVE  /\ \/ engine'[o].pc = "run"
                       \/ engine'[o].st = "booting" /\ engine'[o].at = 14 /\ engine'[o].pc = "start"
                       \/ InWorld(o, {"publish", "born", "indexed", "mark", "marker", "wait", "last"})'
                    /\ ~Claimed(o)' => engine'[o].sent = 0
                    /\ ~Reached(o, 14)' => engine'[o].rules = "none"
                    /\ Alive(o)' => starts' >= 1
  BY DEF Placed
<1>0. /\ TypeOK
      /\ \/ engine[o].pc = "run"
         \/ engine[o].st = "booting" /\ engine[o].at = 14 /\ engine[o].pc = "start"
         \/ InWorld(o, {"publish", "born", "indexed", "mark", "marker", "wait", "last"})
      /\ ~Claimed(o) => engine[o].sent = 0
      /\ ~Reached(o, 14) => engine[o].rules = "none"
      /\ Alive(o) => starts >= 1
      /\ engine[o].st \in {"down", "booting", "up", "refused"} /\ engine[o].at \in 1 .. 22
      /\ starts \in Nat
  BY Ranges, BootAssumption DEF BootInv, Placed, TypeOK
<1> USE DEF InWorld, Claimed, Reached, Alive
<1>1. CASE Start(e)
  BY <1>0, <1>1, StartEffect
<1>2. CASE HaltStep(e)
  BY <1>0, <1>2 DEF HaltStep, Halts
<1>3. CASE AdvanceStep(e)
  BY <1>0, <1>3 DEF AdvanceStep, Advances
<1>4. CASE ClaimStep(e)
  BY <1>0, <1>4 DEF ClaimStep, NewCampaign, Turns
<1>5. CASE LostClaimStep(e)
  BY <1>0, <1>5 DEF LostClaimStep, NewCampaign, Halts
<1>6. CASE ImportStep(e)
  BY <1>0, <1>6 DEF ImportStep, NewMessage, Turns
<1>7. CASE LostImportStep(e)
  BY <1>0, <1>7 DEF LostImportStep, NewMessage, Halts
<1>8. CASE StoredStep(e)
  BY <1>0, <1>8 DEF StoredStep, Turns
<1>9. CASE \E to \in {"indexed", "mark", "wait", "last"} : MoveStep(e, to)
  BY <1>0, <1>9 DEF MoveStep, Turns
<1>10. CASE MarkStep(e)
  BY <1>0, <1>10 DEF MarkStep, Turns
<1>11. CASE BaselineStep(e)
  BY <1>0, <1>11 DEF BaselineStep, Turns
<1>12. CASE PublishRuleStatus(e)
  BY <1>0, <1>12, PublishEffect
<1>13. CASE GraphIndex(e) \/ Play(e)
  BY <1>0, <1>13 DEF GraphIndex, Play
<1> QED
  BY <1>1, <1>2, <1>3, <1>4, <1>5, <1>6, <1>7, <1>8, <1>9, <1>10, <1>11, <1>12, <1>13 DEF ProcessStep

LEMMA HeldStep ==
  ASSUME BootInv, NEW e \in Engines, ProcessStep(e)
  PROVE  CampaignHeld'
<1> SUFFICES ASSUME NEW o \in Engines, Claimed(o)'
             PROVE  campaign' # None /\ engine'[o].seed = campaign'.seed /\ Requested[o] = campaign'.exp
  BY DEF CampaignHeld
<1>0. /\ TypeOK
      /\ Claimed(o) => campaign # None /\ engine[o].seed = campaign.seed /\ Requested[o] = campaign.exp
      /\ engine[o].st \in {"down", "booting", "up", "refused"} /\ engine[o].at \in 1 .. 22
  BY Ranges DEF BootInv, CampaignHeld
<1>a. ASSUME NewCampaign(e)
      PROVE  campaign' # None /\ campaign'.seed = starts /\ campaign'.exp = Requested[e] /\ ~Claimed(o)
  <2>1. engine[e].st = "booting"
    BY <1>a DEF NewCampaign, InWorld
  <2>2. starts \in Seeds
    BY <2>1, BootAssumption DEF BootInv, Placed, Alive, TypeOK, Seeds
  <2>3. [seed |-> starts, exp |-> Requested[e], marked |-> FALSE] \in Campaigns
    BY <2>2 DEF Campaigns, Experiences
  <2> QED
    BY <1>0, <1>a, <2>3, BootAssumption DEF NewCampaign
<1>b. ASSUME UNCHANGED campaign, Claimed(o), engine'[o].seed = engine[o].seed
      PROVE  campaign' # None /\ engine'[o].seed = campaign'.seed /\ Requested[o] = campaign'.exp
  BY <1>0, <1>b
<1> USE DEF InWorld, Claimed, Reached
<1>1. CASE Start(e)
  BY <1>0, <1>1, <1>b, StartEffect DEF storeVars
<1>2. CASE HaltStep(e)
  BY <1>0, <1>2, <1>b DEF HaltStep, Halts, storeVars
<1>3. CASE AdvanceStep(e)
  BY <1>0, <1>3, <1>b DEF AdvanceStep, Advances
<1>4. CASE ClaimStep(e)
  BY <1>0, <1>4, <1>a DEF ClaimStep, Turns
<1>5. CASE LostClaimStep(e)
  BY <1>0, <1>5, <1>a DEF LostClaimStep, Halts
<1>6. CASE ImportStep(e)
  BY <1>0, <1>6, <1>b DEF ImportStep, NewMessage, Turns
<1>7. CASE LostImportStep(e)
  BY <1>0, <1>7, <1>b DEF LostImportStep, NewMessage, Halts
<1>8. CASE StoredStep(e)
  BY <1>0, <1>8 DEF StoredStep, Turns, storeVars
<1>9. CASE \E to \in {"indexed", "mark", "wait", "last"} : MoveStep(e, to)
  BY <1>0, <1>9, <1>b DEF MoveStep, Turns, storeVars
<1>10. CASE MarkStep(e)
  <2>1. campaign \in Campaigns
    BY <1>0, <1>10 DEF MarkStep, TypeOK
  <2>2. campaign' \in Campaigns /\ campaign'.seed = campaign.seed /\ campaign'.exp = campaign.exp
    BY <1>10, <2>1 DEF MarkStep, Campaigns
  <2> QED
    BY <1>0, <1>10, <2>2, BootAssumption DEF MarkStep, Turns
<1>11. CASE BaselineStep(e)
  BY <1>0, <1>11, <1>b DEF BaselineStep, Turns, storeVars
<1>12. CASE PublishRuleStatus(e)
  BY <1>0, <1>12, <1>b, PublishEffect
<1>13. CASE GraphIndex(e) \/ Play(e)
  BY <1>0, <1>13, <1>b DEF GraphIndex, Play, storeVars
<1> QED
  BY <1>1, <1>2, <1>3, <1>4, <1>5, <1>6, <1>7, <1>8, <1>9, <1>10, <1>11, <1>12, <1>13 DEF ProcessStep

LEMMA ImporterStep ==
  ASSUME BootInv, NEW e \in Engines, ProcessStep(e)
  PROVE  OneImporter'
<1>0. /\ TypeOK /\ OneImporter /\ CampaignHeld
      /\ \A o \in Engines : engine[o].st \in {"down", "booting", "up", "refused"} /\ engine[o].at \in 1 .. 22
  BY Ranges DEF BootInv
<1> DEFINE Ended(o) == Reached(o, 6) \/ InWorld(o, {"last"})
<1>u. /\ \A o, p \in Engines : Importer(o) /\ Importer(p) => o = p
      /\ \A o \in Engines : Importer(o) => ~campaign.marked
      /\ \A o \in Engines : Ended(o) => campaign.marked
      /\ \A o \in Engines : Importer(o) \/ Ended(o) => Claimed(o)
  BY <1>0 DEF OneImporter, Importer, InWorld, Claimed, Reached
(* Where nothing becomes an importer and nothing passes the world step.    *)
<1>k. ASSUME UNCHANGED campaign,
             \A o \in Engines : Importer(o)' => Importer(o),
             \A o \in Engines : Ended(o)' => Ended(o)
      PROVE  OneImporter'
  BY <1>u, <1>k DEF OneImporter
<1> USE DEF InWorld, Importer, Reached
<1>1. CASE Start(e)
  BY <1>0, <1>1, <1>k, StartEffect DEF storeVars
<1>2. CASE HaltStep(e)
  BY <1>0, <1>2, <1>k DEF HaltStep, Halts, storeVars
<1>3. CASE AdvanceStep(e)
  BY <1>0, <1>3, <1>k DEF AdvanceStep, Advances
<1>a. ASSUME NewCampaign(e)
      PROVE  /\ ~campaign'.marked
             /\ \A o \in Engines : ~Claimed(o)
  BY <1>0, <1>a DEF NewCampaign, CampaignHeld
<1>4. CASE ClaimStep(e)
  <2>1. ~campaign'.marked /\ \A o \in Engines : ~Importer(o) /\ ~Ended(o)
    BY <1>4, <1>a, <1>u DEF ClaimStep
  <2>2. \A o \in Engines : Importer(o)' => o = e
    BY <1>4, <2>1 DEF ClaimStep, Turns
  <2>3. \A o \in Engines : ~Ended(o)'
    BY <1>0, <1>4, <2>1 DEF ClaimStep, NewCampaign, Turns
  <2> QED
    BY <2>1, <2>2, <2>3 DEF OneImporter
<1>5. CASE LostClaimStep(e)
  <2>1. ~campaign'.marked /\ \A o \in Engines : ~Importer(o) /\ ~Ended(o)
    BY <1>5, <1>a, <1>u DEF LostClaimStep
  <2>2. \A o \in Engines : ~Importer(o)' /\ ~Ended(o)'
    BY <1>5, <2>1 DEF LostClaimStep, Halts
  <2> QED
    BY <2>1, <2>2 DEF OneImporter
<1>6. CASE ImportStep(e)
  BY <1>0, <1>6, <1>k DEF ImportStep, NewMessage, Turns
<1>7. CASE LostImportStep(e)
  BY <1>0, <1>7, <1>k DEF LostImportStep, NewMessage, Halts
<1>8. CASE StoredStep(e)
  BY <1>0, <1>8, <1>k DEF StoredStep, Turns, storeVars
<1>9. ASSUME NEW to \in {"indexed", "mark", "wait", "last"}, MoveStep(e, to)
      PROVE  OneImporter'
  <2>1. UNCHANGED campaign
    BY <1>9 DEF MoveStep, storeVars
  <2>2. \A o \in Engines : Importer(o)' => Importer(o)
    BY <1>9 DEF MoveStep, Turns
  <2>3. \A o \in Engines : Ended(o)' => Ended(o) \/ campaign.marked
    BY <1>9 DEF MoveStep, Turns
  <2> QED
    BY <2>1, <2>2, <2>3, <1>u DEF OneImporter
<1>10. CASE MarkStep(e)
  <2>1. Importer(e)
    BY <1>10 DEF MarkStep
  <2>2. \A o \in Engines : ~Importer(o)'
    BY <1>10, <1>u, <2>1 DEF MarkStep, Turns
  <2>3. campaign'.marked
    BY <1>0, <1>10 DEF MarkStep, TypeOK, Campaigns
  <2> QED
    BY <2>2, <2>3 DEF OneImporter
<1>11. CASE BaselineStep(e)
  BY <1>0, <1>11, <1>k DEF BaselineStep, Turns, storeVars
<1>12. CASE PublishRuleStatus(e)
  BY <1>0, <1>12, <1>k, PublishEffect
<1>13. CASE GraphIndex(e) \/ Play(e)
  BY <1>0, <1>13, <1>k DEF GraphIndex, Play, storeVars
<1> QED
  BY <1>1, <1>2, <1>3, <1>4, <1>5, <1>6, <1>7, <1>8, <1>9, <1>10, <1>11, <1>12, <1>13 DEF ProcessStep

(* The log grows at its end.                                               *)
LEMMA NewMessageEffect ==
  ASSUME BootInv, NEW e \in Engines, NewMessage(e)
  PROVE  /\ entityLog \in Seq(Entities) /\ Len(entityLog) \in Nat
         /\ Len(entityLog') = Len(entityLog) + 1
         /\ \A i \in 1 .. Len(entityLog) : entityLog'[i] = entityLog[i]
         /\ entityLog'[Len(entityLog) + 1] = Plan[engine[e].sent + 1]
<1>1. entityLog \in Seq(Entities)
  BY DEF BootInv, TypeOK
<1>2. engine[e].sent < Len(Plan) /\ entityLog' = Append(entityLog, Plan[engine[e].sent + 1])
  BY DEF NewMessage
<1>3. engine[e].sent + 1 \in 1 .. Len(Plan)
  <2>1. TypeOK
    BY DEF BootInv
  <2>2. engine[e].sent \in 0 .. Len(Plan)
    BY <2>1, Ranges
  <2>3. Len(Plan) \in Nat
    BY PlanIsTyped
  <2> QED BY <1>2, <2>2, <2>3
<1>4. Plan[engine[e].sent + 1] \in Entities
  BY <1>3, PlanIsTyped
<1> QED
  BY <1>1, <1>2, <1>4

LEMMA BornStep ==
  ASSUME BootInv, NEW e \in Engines, ProcessStep(e)
  PROVE  BornFromLog'
<1>0. TypeOK /\ BornFromLog
  BY DEF BootInv, ImportIsWhole
<1>k. ASSUME UNCHANGED <<entityLog, ingested>>,
             \A x \in Entities : world'[x] # "unborn" => world[x] # "unborn"
      PROVE  BornFromLog'
  BY <1>0, <1>k DEF BornFromLog
<1>1. CASE NewMessage(e)
  <2>1. UNCHANGED <<ingested, world>> /\ ingested \in 0 .. Len(entityLog)
    BY <1>0, <1>1 DEF NewMessage, TypeOK
  <2>2. \A i \in 1 .. ingested : entityLog'[i] = entityLog[i]
    BY <1>1, <2>1, NewMessageEffect
  <2> QED
    BY <1>0, <2>1, <2>2 DEF BornFromLog
<1>2. CASE Play(e)
  BY <1>0, <1>2, <1>k DEF Play, TypeOK
<1>3. CASE ~NewMessage(e) /\ ~Play(e)
  <2>1. UNCHANGED <<entityLog, ingested, world>>
    BY <1>3 DEF ProcessStep, Start, HaltStep, AdvanceStep, ClaimStep, LostClaimStep, NewCampaign, ImportStep,
       LostImportStep, StoredStep, MoveStep, MarkStep, BaselineStep, PublishRuleStatus, GraphIndex,
       storeVars, graphVars
  <2> QED
    BY <1>k, <2>1
<1> QED
  BY <1>1, <1>2, <1>3

LEMMA ReadbackStep ==
  ASSUME BootInv, NEW e \in Engines, ProcessStep(e)
  PROVE  ReadbacksHold'
<1> SUFFICES ASSUME NEW o \in Engines
             PROVE  /\ InWorld(o, {"indexed", "mark"})' => AllBorn'
                    /\ InWorld(o, {"born", "indexed", "mark"})' => engine'[o].sent = Len(Plan)
  BY DEF ReadbacksHold
<1>0. /\ TypeOK
      /\ InWorld(o, {"indexed", "mark"}) => AllBorn
      /\ InWorld(o, {"born", "indexed", "mark"}) => engine[o].sent = Len(Plan)
      /\ engine[o].st \in {"down", "booting", "up", "refused"} /\ engine[o].at \in 1 .. 22
      /\ engine[o].sent \in Nat /\ Len(Plan) \in Nat
      /\ InWorld(o, {"run"}) => engine[o].sent = 0
      /\ InWorld(o, {"publish", "born", "indexed", "mark", "marker", "wait", "last"}) \/ engine[o].pc = "run"
         \/ (engine[o].at = 14 /\ engine[o].pc = "start")
  BY Ranges, PlanIsTyped DEF BootInv, ImportIsWhole, ReadbacksHold, Placed, InWorld, Claimed, Reached
<1>w. AllBorn => AllBorn'
  <2>1. CASE Play(e)
    BY <1>0, <2>1 DEF Play, TypeOK, AllBorn
  <2>2. CASE ~Play(e)
    BY <2>2 DEF ProcessStep, Start, HaltStep, AdvanceStep, ClaimStep, LostClaimStep, NewCampaign, ImportStep,
       LostImportStep, NewMessage, StoredStep, MoveStep, MarkStep, BaselineStep, PublishRuleStatus, GraphIndex,
       storeVars, graphVars, AllBorn
  <2> QED
    BY <2>1, <2>2
<1> USE DEF InWorld
<1>1. CASE Start(e)
  BY <1>0, <1>w, <1>1, StartEffect
<1>2. CASE HaltStep(e) \/ LostClaimStep(e) \/ LostImportStep(e)
  BY <1>0, <1>w, <1>2 DEF HaltStep, LostClaimStep, LostImportStep, Halts
<1>3. CASE AdvanceStep(e)
  BY <1>0, <1>w, <1>3 DEF AdvanceStep, Advances
<1>4. CASE ClaimStep(e)
  BY <1>0, <1>w, <1>4 DEF ClaimStep, NewCampaign, Turns
<1>6. CASE ImportStep(e)
  BY <1>0, <1>w, <1>6 DEF ImportStep, NewMessage, Turns
<1>8. CASE StoredStep(e)
  BY <1>0, <1>w, <1>8 DEF StoredStep, Turns
<1>9. ASSUME NEW to \in {"indexed", "mark", "wait", "last"}, MoveStep(e, to)
      PROVE  /\ InWorld(o, {"indexed", "mark"})' => AllBorn'
             /\ InWorld(o, {"born", "indexed", "mark"})' => engine'[o].sent = Len(Plan)
  BY <1>0, <1>w, <1>9 DEF MoveStep, Turns
<1>10. CASE MarkStep(e)
  BY <1>0, <1>w, <1>10 DEF MarkStep, Turns
<1>11. CASE BaselineStep(e)
  BY <1>0, <1>w, <1>11 DEF BaselineStep, Turns
<1>12. CASE PublishRuleStatus(e)
  BY <1>0, <1>w, <1>12, PublishEffect
<1>13. CASE GraphIndex(e) \/ Play(e)
  BY <1>0, <1>w, <1>13 DEF GraphIndex, Play
<1> QED
  BY <1>1, <1>2, <1>3, <1>4, <1>6, <1>8, <1>9, <1>10, <1>11, <1>12, <1>13 DEF ProcessStep

LEMMA LogStep ==
  ASSUME BootInv, NEW e \in Engines, ProcessStep(e)
  PROVE  LogIsPlan'
<1> SUFFICES ASSUME NEW o \in Engines, Importer(o)', ~leftover'
             PROVE  Len(entityLog') = engine'[o].sent /\ \A i \in 1 .. engine'[o].sent : entityLog'[i] = Plan[i]
  BY DEF LogIsPlan
<1>0. /\ TypeOK /\ OneImporter
      /\ Importer(o) /\ ~leftover =>
           Len(entityLog) = engine[o].sent /\ \A i \in 1 .. engine[o].sent : entityLog[i] = Plan[i]
      /\ engine[o].st \in {"down", "booting", "up", "refused"} /\ engine[o].at \in 1 .. 22
      /\ engine[o].sent \in Nat
      /\ ~Claimed(o) => engine[o].sent = 0
      /\ Claimed(o) => campaign # None
  BY Ranges, PlanIsTyped DEF BootInv, ImportIsWhole, LogIsPlan, Placed, CampaignHeld
<1>k. ASSUME UNCHANGED <<entityLog, leftover>>, Importer(o), engine'[o].sent = engine[o].sent
      PROVE  Len(entityLog') = engine'[o].sent /\ \A i \in 1 .. engine'[o].sent : entityLog'[i] = Plan[i]
  BY <1>0, <1>k
<1> USE DEF InWorld, Importer
<1>1. CASE Start(e)
  BY <1>0, <1>k, <1>1, StartEffect DEF storeVars, graphVars
<1>2. CASE HaltStep(e)
  BY <1>0, <1>k, <1>2 DEF HaltStep, Halts, storeVars, graphVars
<1>3. CASE AdvanceStep(e)
  BY <1>0, <1>k, <1>3 DEF AdvanceStep, Advances
<1>a. ASSUME NewCampaign(e)
      PROVE  ~Importer(o) /\ entityLog' = <<>> /\ (o = e => engine[o].sent = 0)
  BY <1>0, <1>a DEF NewCampaign, Claimed, Reached, graphVars
<1>4. CASE ClaimStep(e)
  BY <1>0, <1>4, <1>a DEF ClaimStep, Turns
<1>5. CASE LostClaimStep(e)
  BY <1>0, <1>5, <1>a DEF LostClaimStep, Halts
<1>b. ASSUME NewMessage(e)
      PROVE  Importer(e) /\ (o # e => ~Importer(o)) /\ UNCHANGED leftover
  BY <1>0, <1>b DEF NewMessage, OneImporter
<1>6. CASE ImportStep(e)
  <2>1. o = e
    BY <1>6, <1>b DEF ImportStep, Turns
  <2>2. NewMessage(e) /\ engine'[o].sent = engine[o].sent + 1
    BY <1>6, <2>1 DEF ImportStep, Turns
  <2>3. Len(entityLog) = engine[o].sent /\ \A i \in 1 .. engine[o].sent : entityLog[i] = Plan[i]
    BY <1>0, <1>b, <2>1, <2>2
  <2>4. \A i \in 1 .. engine[o].sent + 1 : i \in 1 .. engine[o].sent \/ i = engine[o].sent + 1
    BY <1>0
  <2> QED
    BY <1>0, <2>1, <2>2, <2>3, <2>4, NewMessageEffect
<1>7. CASE LostImportStep(e)
  BY <1>0, <1>7, <1>b DEF LostImportStep, Halts
<1>8. CASE StoredStep(e)
  BY <1>0, <1>k, <1>8 DEF StoredStep, Turns, storeVars, graphVars
<1>9. ASSUME NEW to \in {"indexed", "mark", "wait", "last"}, MoveStep(e, to)
      PROVE  Len(entityLog') = engine'[o].sent /\ \A i \in 1 .. engine'[o].sent : entityLog'[i] = Plan[i]
  BY <1>0, <1>k, <1>9 DEF MoveStep, Turns, storeVars, graphVars
<1>10. CASE MarkStep(e)
  BY <1>0, <1>k, <1>10 DEF MarkStep, Turns, graphVars
<1>11. CASE BaselineStep(e)
  BY <1>0, <1>k, <1>11 DEF BaselineStep, Turns, storeVars, graphVars
<1>12. CASE PublishRuleStatus(e)
  BY <1>0, <1>k, <1>12, PublishEffect DEF graphVars
<1>13. CASE GraphIndex(e) \/ Play(e)
  BY <1>0, <1>k, <1>13 DEF GraphIndex, Play, storeVars, graphVars
<1> QED
  BY <1>1, <1>2, <1>3, <1>4, <1>5, <1>6, <1>7, <1>8, <1>9, <1>10, <1>11, <1>12, <1>13 DEF ProcessStep

(* The argument for the marker: every planned entity is born, so each came *)
(* from the log; the log is the plan, which names none twice, so its last  *)
(* message has been applied.                                               *)
LEMMA MarkedStep ==
  ASSUME BootInv, NEW e \in Engines, ProcessStep(e)
  PROVE  MarkedIsWhole'
<1>0. TypeOK /\ OneImporter /\ BornFromLog /\ ReadbacksHold /\ LogIsPlan /\ MarkedIsWhole
  BY DEF BootInv, ImportIsWhole
<1>k. ASSUME UNCHANGED <<campaign, entityLog, ingested, world, leftover>>
      PROVE  MarkedIsWhole'
  BY <1>0, <1>k DEF MarkedIsWhole, Marked, AllBorn
<1>1. CASE NewCampaign(e)
  BY <1>1 DEF NewCampaign, MarkedIsWhole, Marked
<1>2. CASE NewMessage(e)
  <2>1. Importer(e) /\ UNCHANGED campaign
    BY <1>2 DEF NewMessage, Importer, InWorld
  <2> QED
    BY <1>0, <2>1 DEF OneImporter, MarkedIsWhole, Marked
<1>3. CASE MarkStep(e)
  <2>1. UNCHANGED <<entityLog, ingested, world, leftover>> /\ InWorld(e, {"mark"})
    BY <1>3 DEF MarkStep, graphVars
  <2>2. AllBorn /\ engine[e].sent = Len(Plan) /\ Importer(e)
    BY <1>0, <2>1 DEF ReadbacksHold, Importer, InWorld
  <2>3. ASSUME ~leftover
        PROVE  ingested = Len(entityLog)
    <3>1. Len(entityLog) = Len(Plan) /\ \A i \in 1 .. Len(Plan) : entityLog[i] = Plan[i]
      BY <1>0, <2>2, <2>3 DEF LogIsPlan
    <3>2. Len(Plan) \in 1 .. Len(Plan) /\ Plan[Len(Plan)] \in Entities /\ Len(Plan) \in Nat
      BY PlanIsTyped
    <3>3. PICK i \in 1 .. ingested : entityLog[i] = Plan[Len(Plan)]
      BY <1>0, <2>2, <3>2 DEF BornFromLog, AllBorn
    <3>4. ingested \in 0 .. Len(Plan)
      BY <1>0, <3>1 DEF TypeOK
    <3>5. i \in 1 .. Len(Plan)
      BY <3>2, <3>4
    <3>6. Plan[i] = Plan[Len(Plan)]
      BY <3>1, <3>3, <3>5
    <3>7. i = Len(Plan)
      BY <3>2, <3>5, <3>6, PlanIsTyped
    <3> QED
      BY <3>1, <3>2, <3>4, <3>7
  <2> QED
    BY <2>1, <2>2, <2>3 DEF MarkedIsWhole, AllBorn
<1>4. CASE Play(e)
  <2>1. UNCHANGED <<campaign, entityLog, ingested, leftover>>
    BY <1>4 DEF Play
  <2>2. AllBorn => AllBorn'
    BY <1>0, <1>4 DEF Play, TypeOK, AllBorn
  <2> QED
    BY <1>0, <2>1, <2>2 DEF MarkedIsWhole, Marked
<1>5. CASE ~NewCampaign(e) /\ ~NewMessage(e) /\ ~MarkStep(e) /\ ~Play(e)
  BY <1>5, <1>k DEF ProcessStep, Start, HaltStep, AdvanceStep, ClaimStep, LostClaimStep, ImportStep,
     LostImportStep, StoredStep, MoveStep, BaselineStep, PublishRuleStatus, GraphIndex, storeVars, graphVars
<1> QED
  BY <1>1, <1>2, <1>3, <1>4, <1>5

LEMMA PlayStep ==
  ASSUME BootInv, NEW e \in Engines, ProcessStep(e)
  PROVE  PlayFollows'
<1>0. /\ TypeOK /\ OneImporter /\ CampaignHeld /\ PlayFollows
      /\ \A o \in Engines : engine[o].st \in {"down", "booting", "up", "refused"} /\ engine[o].at \in 1 .. 22
  BY Ranges DEF BootInv
<1>m. Members \subseteq Entities
  BY BootAssumption
<1>1. \A x \in Entities : world'[x] = "played" => Marked'
  <2>1. CASE Play(e)
    <3>1. Reached(e, 6)
      BY <2>1 DEF Play, Reached
    <3>2. Marked
      BY <1>0, <3>1 DEF Marked, OneImporter, CampaignHeld, Claimed
    <3> QED
      BY <2>1, <3>2 DEF Play, Marked
  <2>2. CASE NewCampaign(e)
    BY <1>0, <2>2 DEF NewCampaign, PlayFollows, Marked, graphVars
  <2>3. CASE MarkStep(e)
    <3>1. campaign \in Campaigns
      BY <1>0, <2>3 DEF MarkStep, TypeOK
    <3>2. campaign' \in Campaigns /\ campaign'.marked
      BY <2>3, <3>1 DEF MarkStep, Campaigns
    <3> QED
      BY <3>2, BootAssumption DEF Marked
  <2>4. CASE ~Play(e) /\ ~NewCampaign(e) /\ ~MarkStep(e)
    <3>1. UNCHANGED <<campaign, world>>
      BY <2>4 DEF ProcessStep, Start, HaltStep, AdvanceStep, ClaimStep, LostClaimStep, ImportStep, NewMessage,
         LostImportStep, StoredStep, MoveStep, BaselineStep, PublishRuleStatus, GraphIndex, storeVars, graphVars
    <3> QED
      BY <1>0, <3>1 DEF PlayFollows, Marked
  <2> QED
    BY <2>1, <2>2, <2>3, <2>4
<1>2. ASSUME NEW o \in Engines, Reached(o, 6)', ~leftover', NEW m \in Members, world'[m] = "template"
      PROVE  m \in index'[o]
  <2>k. ASSUME Reached(o, 6), index'[o] = index[o], UNCHANGED leftover, world[m] = "template"
        PROVE  m \in index'[o]
    BY <1>0, <1>2, <2>k DEF PlayFollows
  <2> USE DEF Reached
  <2>1. CASE Start(e)
    BY <1>0, <1>2, <2>1, <2>k, StartEffect DEF storeVars, graphVars
  <2>2. CASE HaltStep(e)
    BY <1>0, <1>2, <2>2, <2>k DEF HaltStep, Halts, OtherIndexes, storeVars, graphVars
  <2>3. CASE AdvanceStep(e)
    <3>1. CASE o = e /\ engine[e].at = 6
      BY <1>2, <2>3, <3>1 DEF AdvanceStep
    <3>2. CASE o # e \/ engine[e].at # 6
      BY <1>0, <1>2, <2>3, <2>k, <3>2 DEF AdvanceStep, Advances
    <3> QED
      BY <3>1, <3>2
  <2>a. ASSUME NewCampaign(e)
        PROVE  ~Reached(o, 6)
    BY <1>0, <2>a DEF NewCampaign, CampaignHeld, Claimed
  <2>4. CASE ClaimStep(e)
    BY <1>0, <1>2, <2>4, <2>a DEF ClaimStep, NewCampaign, InWorld, Turns
  <2>5. CASE LostClaimStep(e)
    BY <1>0, <1>2, <2>5, <2>a DEF LostClaimStep, Halts
  <2>6. CASE ImportStep(e)
    BY <1>0, <1>2, <2>6, <2>k DEF ImportStep, NewMessage, Turns
  <2>7. CASE LostImportStep(e)
    BY <1>0, <1>2, <2>7, <2>k DEF LostImportStep, NewMessage, Halts, OtherIndexes
  <2>8. CASE StoredStep(e)
    BY <1>0, <1>2, <2>8, <2>k DEF StoredStep, Turns, storeVars, graphVars
  <2>9. ASSUME NEW to \in {"indexed", "mark", "wait", "last"}, MoveStep(e, to)
        PROVE  m \in index'[o]
    BY <1>0, <1>2, <2>9, <2>k DEF MoveStep, Turns, storeVars, graphVars
  <2>10. CASE MarkStep(e)
    BY <1>0, <1>2, <2>10, <2>k DEF MarkStep, Turns, graphVars
  <2>11. CASE BaselineStep(e)
    BY <1>0, <1>2, <2>11, <2>k DEF BaselineStep, Turns, storeVars, graphVars
  <2>12. CASE PublishRuleStatus(e)
    BY <1>0, <1>2, <2>12, <2>k, PublishEffect DEF graphVars
  <2>13. CASE GraphIndex(e)
    <3>1. UNCHANGED <<engine, world, leftover>>
      BY <2>13 DEF GraphIndex, storeVars, graphVars
    <3>2. m \in index[o]
      BY <1>0, <1>2, <3>1 DEF PlayFollows
    <3>3. PICK n \in Members :
            index' = [index EXCEPT ![e] = IF world[n] = "template" THEN index[e] \cup {n} ELSE index[e] \ {n}]
      BY <2>13 DEF GraphIndex
    <3>4. world[m] = "template"
      BY <1>2, <3>1
    <3>5. index \in [Engines -> SUBSET Members]
      BY <1>0 DEF TypeOK
    <3> QED
      BY <3>2, <3>3, <3>4, <3>5
  <2>14. CASE Play(e)
    <3>1. world[m] = "template"
      BY <1>0, <1>2, <1>m, <2>14 DEF Play, TypeOK
    <3> QED
      BY <1>2, <2>14, <2>k, <3>1 DEF Play
  <2> QED
    BY <2>1, <2>2, <2>3, <2>4, <2>5, <2>6, <2>7, <2>8, <2>9, <2>10, <2>11, <2>12, <2>13, <2>14 DEF ProcessStep
<1> QED
  BY <1>1, <1>2 DEF PlayFollows

LEMMA LoneStep ==
  ASSUME BootInv, NEW e \in Engines, ProcessStep(e)
  PROVE  LoneStatus'
<1> DEFINE Fine(o) ==
      /\ \A p \in Engines \ {o} : ~Alive(p)
      /\ engine[o].st = "booting" /\ engine[o].at = 14 /\ engine[o].pc = "start" => status.rev = engine[o].baseline
      /\ Reached(o, 14) => /\ status.rev >= engine[o].baseline
                           /\ status.rev > engine[o].baseline => status.by = o
                           /\ status.rev > engine[o].baseline /\ status.ready => engine[o].rules = "ready"
      /\ Reached(o, 15) => engine[o].rules = "ready"
<1> SUFFICES ASSUME NEW o \in Engines, engine'[o].lone, Alive(o)'
             PROVE  Fine(o)'
  BY DEF LoneStatus
<1>0. /\ TypeOK
      /\ engine[o].lone /\ Alive(o) => Fine(o)
      /\ \A p \in Engines : engine[p].st \in {"down", "booting", "up", "refused"} /\ engine[p].at \in 1 .. 22
      /\ engine[o].baseline \in Nat /\ status.rev \in Nat
      /\ ~Reached(o, 14) => engine[o].rules = "none"
  BY Ranges, BootAssumption DEF BootInv, LoneStatus, Placed, TypeOK
(* Another process that moves was alive, so this one was not alone.        *)
<1>k. ASSUME UNCHANGED status, engine[o].lone, Alive(o), Alive(e), o # e
      PROVE  Fine(o)'
  BY <1>0, <1>k
(* A move within the world step.                                           *)
<1>t. ASSUME NEW pc, NEW seed, NEW sent, Turns(e, pc, seed, sent), UNCHANGED status,
             engine[e].st = "booting", engine[e].at = 6
      PROVE  Fine(o)'
  <2>1. CASE o # e
    BY <1>0, <1>t, <1>k, <2>1 DEF Turns, Alive
  <2>2. CASE o = e
    BY <1>0, <1>t, <2>2 DEF Turns, Alive, Reached
  <2> QED
    BY <2>1, <2>2
(* A process that stops.                                                   *)
<1>h. ASSUME Halts(e), UNCHANGED status
      PROVE  Fine(o)'
  BY <1>0, <1>h DEF Halts, Alive, Reached
<1>1. CASE Start(e)
  <2>1. o = e
    BY <1>1, StartEffect, <1>0
  <2> QED
    BY <1>0, <1>1, <2>1, StartEffect DEF Alive, Reached
<1>2. CASE HaltStep(e)
  BY <1>2, <1>h DEF HaltStep, storeVars
<1>3. CASE AdvanceStep(e)
  <2>1. CASE o # e
    BY <1>0, <1>3, <1>k, <2>1 DEF AdvanceStep, Advances, Alive
  <2>2. CASE o = e
    <3>1. engine[o].lone /\ Alive(o) /\ Fine(o) /\ UNCHANGED status /\ \A p \in Engines \ {o} : ~Alive(p)'
      BY <1>0, <1>3, <2>2 DEF AdvanceStep, Advances, Alive
    <3>2. CASE engine[e].at = 14
      BY <1>0, <1>3, <2>2, <3>1, <3>2 DEF AdvanceStep, Advances, Reached
    <3>3. CASE engine[e].at # 14
      <4>1. /\ engine[o].st = "booting" /\ engine'[o].pc = "run"
            /\ engine'[o].rules = engine[o].rules /\ engine'[o].baseline = engine[o].baseline
            /\ engine[o].at = 22 \/ engine'[o].at = engine[o].at + 1
            /\ engine'[o].st = "up" => engine[o].at = 22
            /\ engine[o].at = 15 => status.rev > engine[o].baseline /\ status.ready
        BY <1>3, <2>2, <3>3 DEF AdvanceStep, Advances
      <4>2. Reached(o, 14)' => Reached(o, 14)
        BY <1>0, <2>2, <3>3, <4>1 DEF Reached
      <4>3. Reached(o, 15)' => Reached(o, 15) \/ engine[o].at = 15
        BY <1>0, <4>1 DEF Reached
      <4>4. engine[o].at = 15 => Reached(o, 14)
        BY <4>1 DEF Reached
      <4>5. Reached(o, 15)' => engine'[o].rules = "ready"
        BY <3>1, <4>1, <4>3, <4>4
      <4> QED
        BY <3>1, <4>1, <4>2, <4>5
    <3> QED
      BY <3>2, <3>3
  <2> QED
    BY <2>1, <2>2
<1>4. CASE ClaimStep(e)
  BY <1>4, <1>t DEF ClaimStep, NewCampaign, InWorld
<1>5. CASE LostClaimStep(e)
  BY <1>5, <1>h DEF LostClaimStep, NewCampaign
<1>6. CASE ImportStep(e)
  BY <1>6, <1>t DEF ImportStep, NewMessage, InWorld
<1>7. CASE LostImportStep(e)
  BY <1>7, <1>h DEF LostImportStep, NewMessage
<1>8. CASE StoredStep(e)
  BY <1>8, <1>t DEF StoredStep, InWorld, storeVars
<1>9. ASSUME NEW to \in {"indexed", "mark", "wait", "last"}, MoveStep(e, to)
      PROVE  Fine(o)'
  BY <1>9, <1>t DEF MoveStep, InWorld, storeVars
<1>10. CASE MarkStep(e)
  BY <1>10, <1>t DEF MarkStep, InWorld
<1>11. CASE BaselineStep(e)
  <2>1. CASE o # e
    BY <1>0, <1>11, <1>k, <2>1 DEF BaselineStep, Turns, Alive, storeVars
  <2>2. CASE o = e
    BY <1>0, <1>11, <2>2 DEF BaselineStep, Turns, Alive, Reached, storeVars
  <2> QED
    BY <2>1, <2>2
<1>12. CASE PublishRuleStatus(e)
  <2>1. o = e
    BY <1>0, <1>12, PublishEffect DEF Alive
  <2>2. engine[o].lone /\ Alive(o) /\ Fine(o) /\ \A p \in Engines \ {o} : ~Alive(p)'
    BY <1>0, <1>12, <2>1, PublishEffect DEF Alive
  <2> QED
    BY <1>0, <1>12, <2>1, <2>2, PublishEffect DEF Reached
<1>13. CASE GraphIndex(e) \/ Play(e)
  BY <1>0, <1>13 DEF GraphIndex, Play, storeVars, Alive, Reached
<1> QED
  BY <1>1, <1>2, <1>3, <1>4, <1>5, <1>6, <1>7, <1>8, <1>9, <1>10, <1>11, <1>12, <1>13 DEF ProcessStep

(* Graph ingest and the operator move no process.                          *)
LEMMA IngestStep ==
  ASSUME BootInv, GraphIngest
  PROVE  Placed' /\ CampaignHeld' /\ OneImporter' /\ ImportIsWhole' /\ PlayFollows' /\ LoneStatus'
<1>0. TypeOK /\ Placed /\ CampaignHeld /\ OneImporter /\ ImportIsWhole /\ PlayFollows /\ LoneStatus
  BY DEF BootInv
<1>1. /\ UNCHANGED <<campaign, entityLog, casePhase, status, leftover, engine, index, starts>>
      /\ ingested < Len(entityLog) /\ ingested' = ingested + 1
      /\ world' = [world EXCEPT ![entityLog[ingested + 1]] = "template"]
  BY DEF GraphIngest
<1>2. Placed' /\ CampaignHeld' /\ OneImporter' /\ LoneStatus'
  BY <1>0, <1>1 DEF Placed, CampaignHeld, OneImporter, LoneStatus, Claimed, Importer, InWorld, Reached, Alive
<1>3. ingested \in Nat /\ world \in [Entities -> {"unborn", "template", "played"}]
  BY <1>0 DEF TypeOK
<1>4. AllBorn => AllBorn'
  BY <1>1, <1>3 DEF AllBorn
<1>5. BornFromLog'
  <2> SUFFICES ASSUME NEW x \in Entities, world'[x] # "unborn"
               PROVE  \E i \in 1 .. ingested + 1 : entityLog[i] = x
    BY <1>1 DEF BornFromLog
  <2>1. CASE x = entityLog[ingested + 1]
    BY <1>3, <2>1
  <2>2. CASE x # entityLog[ingested + 1]
    <3>1. world[x] # "unborn"
      BY <1>1, <1>3, <2>2
    <3>2. PICK i \in 1 .. ingested : entityLog[i] = x
      BY <1>0, <3>1 DEF ImportIsWhole, BornFromLog
    <3> QED
      BY <1>3, <3>2
  <2> QED
    BY <2>1, <2>2
<1>6. ReadbacksHold' /\ LogIsPlan'
  BY <1>0, <1>1, <1>4 DEF ImportIsWhole, ReadbacksHold, LogIsPlan, Importer, InWorld
<1>7. Marked => leftover
  BY <1>0, <1>1, <1>3 DEF ImportIsWhole, MarkedIsWhole, TypeOK
<1>8. MarkedIsWhole'
  BY <1>0, <1>1, <1>4, <1>7 DEF ImportIsWhole, MarkedIsWhole, Marked
<1>9. PlayFollows'
  <2>1. \A x \in Entities : world'[x] = "played" => Marked'
    BY <1>0, <1>1, <1>3 DEF PlayFollows, Marked
  <2>2. \A e \in Engines : Reached(e, 6) => Marked
    BY <1>0 DEF OneImporter, CampaignHeld, Claimed, Marked
  <2>3. \A e \in Engines : Reached(e, 6)' => leftover'
    BY <1>1, <1>7, <2>2 DEF Reached
  <2> QED
    BY <2>1, <2>3 DEF PlayFollows
<1> QED
  BY <1>2, <1>5, <1>6, <1>8, <1>9 DEF ImportIsWhole

LEMMA OperatorStep ==
  ASSUME BootInv, OperatorDeletes
  PROVE  Placed' /\ CampaignHeld' /\ OneImporter' /\ ImportIsWhole' /\ PlayFollows' /\ LoneStatus'
<1>0. TypeOK /\ Placed /\ CampaignHeld /\ OneImporter /\ ImportIsWhole /\ PlayFollows /\ LoneStatus
  BY DEF BootInv
<1>1. /\ UNCHANGED <<entityLog, ingested, world, casePhase, status, leftover, engine, index, starts>>
      /\ campaign' = None /\ ~Marked
  BY DEF OperatorDeletes, graphVars, Marked
<1>2. \A e \in Engines : ~Alive(e)
  BY DEF OperatorDeletes
<1>3. \A e \in Engines : ~Claimed(e)' /\ ~Importer(e)' /\ ~Reached(e, 6)' /\ \A S : ~InWorld(e, S)'
  BY <1>1, <1>2 DEF Claimed, Importer, Reached, InWorld, Alive
<1>4. Placed'
  BY <1>0, <1>1, <1>2 DEF Placed, Claimed, InWorld, Reached, Alive
<1>5. CampaignHeld' /\ OneImporter'
  BY <1>3 DEF CampaignHeld, OneImporter
<1>6. LoneStatus'
  BY <1>1, <1>2 DEF LoneStatus, Alive
<1>7. ImportIsWhole'
  BY <1>0, <1>1, <1>3 DEF ImportIsWhole, BornFromLog, ReadbacksHold, LogIsPlan, MarkedIsWhole, Marked
<1>8. PlayFollows'
  BY <1>0, <1>1, <1>3 DEF PlayFollows
<1> QED
  BY <1>4, <1>5, <1>6, <1>7, <1>8

LEMMA BootInvInitially ==
  ASSUME Init
  PROVE  BootInv
<1>1. TypeOK
  <2>1. engine \in [Engines -> EngineStates]
    BY DownTyped DEF Init
  <2>2. status \in [rev : 0 .. 2 * MaxStarts, by : Engines \cup {None}, ready : BOOLEAN]
    BY BootAssumption DEF Init
  <2>3. entityLog \in Seq(Entities) /\ ingested \in 0 .. Len(entityLog) /\ starts \in 0 .. MaxStarts
    BY BootAssumption DEF Init
  <2> QED
    BY <2>1, <2>2, <2>3 DEF Init, TypeOK
<1>2. \A e \in Engines : engine[e].st = "down" /\ engine[e].pc = "run" /\ engine[e].sent = 0 /\ engine[e].rules = "none"
  BY DEF Init, Down
<1>3. \A e \in Engines : ~Claimed(e) /\ ~Importer(e) /\ ~Reached(e, 6) /\ ~Alive(e) /\ \A S : ~InWorld(e, S)
  BY <1>2 DEF Claimed, Importer, Reached, InWorld, Alive
<1>4. Placed /\ CampaignHeld /\ OneImporter /\ LoneStatus
  BY <1>2, <1>3 DEF Placed, CampaignHeld, OneImporter, LoneStatus
<1>5. ~Marked /\ \A x \in Entities : world[x] = "unborn"
  BY DEF Marked, Init
<1>6. ImportIsWhole /\ PlayFollows
  BY <1>3, <1>5 DEF ImportIsWhole, BornFromLog, ReadbacksHold, LogIsPlan, MarkedIsWhole, PlayFollows
<1> QED
  BY <1>1, <1>4, <1>6 DEF BootInv

LEMMA BootInvStep == BootInv /\ [Next]_vars => BootInv'
<1> SUFFICES ASSUME BootInv, [Next]_vars
             PROVE  BootInv'
  OBVIOUS
<1>1. CASE Next
  <2>1. TypeOK'
    BY <1>1, TypeStep DEF BootInv, Typed
  <2>2. ASSUME NEW e \in Engines, ProcessStep(e)
        PROVE  Placed' /\ CampaignHeld' /\ OneImporter' /\ ImportIsWhole' /\ PlayFollows' /\ LoneStatus'
    BY <2>2, PlacedStep, HeldStep, ImporterStep, BornStep, ReadbackStep, LogStep, MarkedStep, PlayStep, LoneStep
       DEF ImportIsWhole
  <2> QED
    BY <1>1, <2>1, <2>2, NextKinds, IngestStep, OperatorStep DEF BootInv
<1>2. CASE UNCHANGED vars
  BY <1>2 DEF vars, storeVars, graphVars, BootInv, TypeOK, Placed, CampaignHeld, OneImporter, ImportIsWhole,
     BornFromLog, ReadbacksHold, LogIsPlan, MarkedIsWhole, PlayFollows, LoneStatus, Claimed, Importer, InWorld,
     Reached, Alive, Marked, AllBorn
<1> QED
  BY <1>1, <1>2

(* The whole invariant holds of every boot: types, places, one importer,   *)
(* the import's log and index, and who wrote the rule status.              *)
THEOREM BootIsSound == Spec => []BootInv
BY BootInvInitially, BootInvStep, PTL DEF Spec

(* Every variable keeps its type.                                          *)
THEOREM BootTypeCorrect == Spec => []TypeOK
<1>1. BootInv => TypeOK
  BY DEF BootInv
<1> QED
  BY <1>1, BootIsSound, PTL

(* instantiate and checkImportMarked: a process that can run a persona     *)
(* plays the one campaign, its import is marked, every planned entity is   *)
(* born, and its own index carries every member the template placed.       *)
THEOREM ServedWorld == Spec => []ServedWorldIsWhole
<1>1. ASSUME BootInv
      PROVE  ServedWorldIsWhole
  <2>0. TypeOK /\ CampaignHeld /\ OneImporter /\ ImportIsWhole /\ PlayFollows
    BY <1>1 DEF BootInv
  <2>1. OneCampaign
    BY <2>0, PastIsReached DEF OneCampaign, CampaignHeld, Claimed
  <2>2. ASSUME NEW e \in Engines, Past(e, "stages")
        PROVE  /\ campaign.marked
               /\ \A x \in Entities : world[x] # "unborn"
               /\ \A m \in Members : world[m] = "template" /\ ~leftover => m \in index[e]
    <3>1. Reached(e, 6)
      <4>1. Reached(e, 17)
        BY <2>0, <2>2, PastIsReached
      <4>2. engine[e].at \in 1 .. 22
        BY <2>0, Ranges
      <4> QED
        BY <4>1, <4>2 DEF Reached
    <3>2. campaign.marked /\ campaign # None
      BY <2>0, <3>1 DEF OneImporter, CampaignHeld, Claimed
    <3>3. AllBorn
      BY <2>0, <3>2 DEF ImportIsWhole, MarkedIsWhole, Marked
    <3> QED
      BY <2>0, <3>1, <3>2, <3>3 DEF PlayFollows, AllBorn
  <2> QED
    BY <2>1, <2>2 DEF ServedWorldIsWhole
<1> QED
  BY <1>1, BootIsSound, PTL

(* MarkImported: the completion marker is written only once every planned  *)
(* entity is born, and unless the claim found an abandoned import's        *)
(* messages, once nothing of the import is still queued.                   *)
THEOREM MarkerCertifies == Spec => []MarkerCertifiesImport
<1>1. BootInv => MarkerCertifiesImport
  BY DEF BootInv, ImportIsWhole, MarkedIsWhole, Marked, AllBorn, MarkerCertifiesImport
<1> QED
  BY <1>1, BootIsSound, PTL

(* checkRuleProcessorStarted: a process alone on the deployment runs its   *)
(* stranded-turn pass only after its own rule processor replayed.          *)
THEOREM PassWaits == Spec => []PassWaitsForOwnRules
<1>1. ASSUME BootInv
      PROVE  PassWaitsForOwnRules
  <2>1. TypeOK /\ LoneStatus
    BY <1>1 DEF BootInv
  <2> SUFFICES ASSUME NEW e \in Engines, Past(e, "resume"), engine[e].lone
               PROVE  engine[e].rules = "ready"
    BY DEF PassWaitsForOwnRules
  <2>2. Reached(e, 15) /\ Alive(e)
    BY <2>1, PastIsReached DEF Past
  <2> QED
    BY <2>1, <2>2 DEF LoneStatus
<1> QED
  BY <1>1, BootIsSound, PTL

(* No restart or late import message undoes play: a moved member is never  *)
(* put back where the template says, and a case that is under way is not   *)
(* re-opened.                                                              *)
THEOREM PlayIsKept == Spec => PlayIsNeverUndone
<1> DEFINE Kept == /\ \A x \in Entities : world[x] = "played" /\ ~leftover => world'[x] = "played"
                   /\ casePhase = "discovery" => casePhase' = "discovery"
<1>1. ASSUME BootInv, [Next]_vars
      PROVE  [Kept]_vars
  <2>0. TypeOK /\ PlayFollows /\ ImportIsWhole
    BY <1>1 DEF BootInv
  <2>k. ASSUME UNCHANGED <<world, casePhase>>
        PROVE  Kept
    BY <2>k
  <2>1. CASE UNCHANGED vars
    BY <2>1
  <2>2. ASSUME NEW e \in Engines, ProcessStep(e)
        PROVE  Kept
    <3>1. CASE Play(e)
      BY <2>0, <3>1 DEF Play, TypeOK
    <3>2. CASE AdvanceStep(e)
      BY <3>2 DEF AdvanceStep
    <3>3. CASE ~Play(e) /\ ~AdvanceStep(e)
      <4>1. UNCHANGED <<world, casePhase>>
        BY <2>2, <3>3 DEF ProcessStep, Start, HaltStep, ClaimStep, LostClaimStep, NewCampaign, ImportStep,
           NewMessage, LostImportStep, StoredStep, MoveStep, MarkStep, BaselineStep, PublishRuleStatus, GraphIndex,
           storeVars, graphVars
      <4> QED
        BY <4>1
    <3> QED
      BY <3>1, <3>2, <3>3
  <2>3. CASE GraphIngest
    <3>1. UNCHANGED casePhase /\ ingested < Len(entityLog)
      BY <2>3 DEF GraphIngest
    <3>2. Marked => leftover
      BY <2>0, <3>1 DEF ImportIsWhole, MarkedIsWhole, TypeOK
    <3>3. \A x \in Entities : world[x] = "played" => leftover
      BY <2>0, <3>2 DEF PlayFollows
    <3> QED
      BY <3>1, <3>3
  <2>4. CASE OperatorDeletes
    BY <2>4 DEF OperatorDeletes, graphVars
  <2> QED
    BY <1>1, <2>1, <2>2, <2>3, <2>4, NextKinds
<1> QED
  BY <1>1, BootIsSound, PTL DEF Spec, PlayIsNeverUndone
=============================================================================
