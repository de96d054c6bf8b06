----------------------------- MODULE MCCaseFlow -----------------------------
(* One case with two players, the first of them with a companion.          *)
EXTENDS CaseFlow, TLC

CONSTANTS t1, t2, t3, ann, bob, anne, boris, watson, victim, butler, letter, poison, greed, study

D(kind, targets, reveals) == [kind |-> kind, targets |-> targets, reveals |-> reveals, theory |-> None]
Accuse(theory, reveals) == [kind |-> "accuse", targets |-> {}, reveals |-> reveals, theory |-> theory]

MCSolution == <<butler, poison, greed>>
MCReveal == [e \in {letter, poison} |->
  [phase |-> IF e = letter THEN "cold-open" ELSE "discovery", kinds |-> {"observe", "investigate"}, targets |-> {study, victim}]]
MCBeliefs == {<<butler, greed>>, <<butler, letter>>}
MCStartKnown == {<<anne, letter>>, <<watson, letter>>}
MCPlayerOf == [t \in {t1, t2, t3} |-> IF t = t3 THEN bob ELSE ann]
MCControls == [p \in {ann, bob} |-> IF p = ann THEN anne ELSE boris]
MCCompanionOf == [p \in {ann, bob} |-> IF p = ann THEN watson ELSE None]

Observe == D("observe", {victim, study}, {letter})
Investigate == D("investigate", {study}, {letter})
AskButler == D("question", {butler}, {greed})
Hint == D("request-hint", {}, {})
Right == Accuse(MCSolution, {})
Wrong == Accuse(<<butler, letter, greed>>, {})

MCChoices == (t1 :> {Observe, AskButler, Hint})
          @@ (t2 :> {Hint, Right})
          @@ (t3 :> {Investigate, Right, Wrong})
=============================================================================
