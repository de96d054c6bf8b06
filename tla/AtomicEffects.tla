---------------------------- MODULE AtomicEffects ----------------------------
(***************************************************************************)
(* What the apply stage promises of the turns' batches (the contract of    *)
(* Applier.Apply and the doc of internal/effect), whatever writes, retries *)
(* and lost replies it is made of.  A batch lands once, whole, on the      *)
(* world as it then is.  Until it has landed it may have disturbed what it *)
(* names, and nothing else.  A rejected batch disturbs nothing, and a turn *)
(* that has ended does nothing more.  EffectApplier implements this.       *)
(***************************************************************************)
EXTENDS Sequences

CONSTANTS
  Turns,
  Facts,
  Start    \* the facts that hold at first

VARIABLES
  facts,   \* the facts that hold
  names,   \* turn -> the facts its batch decides
  puts,    \* turn -> those of them it makes hold
  status,  \* turn -> "applying", or how it ended
  landed,  \* turns in the order their batches landed
  open     \* turns whose batch may have disturbed what it names

vars == <<facts, names, puts, status, landed, open>>

Init ==
  /\ facts = Start
  /\ names \in [Turns -> SUBSET Facts]
  /\ puts \in [Turns -> SUBSET Facts]
  /\ \A t \in Turns : puts[t] \subseteq names[t]
  /\ status = [t \in Turns |-> "applying"]
  /\ landed = <<>>
  /\ open = {}

Unlanded(t) == status[t] = "applying" /\ \A i \in DOMAIN landed : landed[i] # t

(* Some of the batch's writes, in any state of completion.                 *)
Disturb(t) ==
  /\ Unlanded(t)
  /\ facts' \subseteq Facts /\ facts' \ names[t] = facts \ names[t]
  /\ open' = open \cup {t}
  /\ UNCHANGED <<names, puts, status, landed>>

(* The whole batch, at once.                                               *)
Land(t) ==
  /\ Unlanded(t)
  /\ facts' = (facts \ names[t]) \cup puts[t]
  /\ landed' = Append(landed, t)
  /\ open' = open \ {t}
  /\ UNCHANGED <<names, puts, status>>

(* The plan refuses the batch: nothing of it was, or will be, written.     *)
Reject(t) ==
  /\ Unlanded(t) /\ t \notin open
  /\ status' = [status EXCEPT ![t] = "effect-invalid"]
  /\ UNCHANGED <<facts, names, puts, landed, open>>

(* A write failed for good.  Its batch may be part-way, and may even have  *)
(* landed: the reply to the marker can be what was lost.                   *)
GiveUp(t) ==
  /\ status[t] = "applying"
  /\ status' = [status EXCEPT ![t] = "effect-commit-incomplete"]
  /\ UNCHANGED <<facts, names, puts, landed, open>>

Next == \E t \in Turns : Disturb(t) \/ Land(t) \/ Reject(t) \/ GiveUp(t)

Spec == Init /\ [][Next]_vars
=============================================================================
