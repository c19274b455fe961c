------------------------------ MODULE Delivery ------------------------------
(***************************************************************************)
(* What a path into the books promises about what is handed to it, be it a *)
(* request of the web application, a bill of the mobile application, the   *)
(* notice of a payment provider, a draft or a scanned bill.                *)
(*                                                                         *)
(* Nothing the path holds is done with before it has taken effect, and it  *)
(* takes effect once, unless something disturbs its delivery: an answer    *)
(* that is lost after the effect, a process that stops between the effect  *)
(* and the note of it, a second delivery that overlaps with the first.     *)
(***************************************************************************)
EXTENDS Naturals, TLAPS

CONSTANTS
    Items,
    Droppable   \* what may be withdrawn, or given up, after the path holds it

VARIABLES
    state,      \* where each item is
    effects,    \* how often it has taken effect
    disturbed   \* the items whose delivery something has disturbed

vars == <<state, effects, disturbed>>

State == {"absent", "offered", "held", "done", "dropped"}

Init ==
    /\ state = [i \in Items |-> "absent"]
    /\ effects = [i \in Items |-> 0]
    /\ disturbed = {}

-----------------------------------------------------------------------------
(* What a step may do with one item.  A step may deal with several at once. *)

Goes(i, from, to) == state[i] \in from /\ state'[i] = to /\ effects'[i] = effects[i]

Rest(i) == state'[i] = state[i] /\ effects'[i] = effects[i]

\* The user tries it; the path may come to hold it, or leave it with the user.
Offer(i) == Goes(i, {"absent"}, "offered")
Return(i) == Goes(i, {"offered"}, "absent")

\* What was disturbed may come back.
Hold(i) ==
    \/ Goes(i, {"absent", "offered"}, "held")
    \/ i \in disturbed' /\ Goes(i, State, "held")

TakeEffect(i) ==
    /\ state[i] # "absent" /\ state'[i] = state[i]
    /\ effects[i] = 0 \/ i \in disturbed'
    /\ effects'[i] = effects[i] + 1

Settle(i) ==
    /\ effects[i] > 0
    /\ \/ Goes(i, {"offered", "held"}, "done")
       \/ i \in disturbed' /\ Goes(i, State, "done")

Drop(i) ==
    \/ Goes(i, {"offered"}, "dropped")
    \/ i \in Droppable /\ Goes(i, State, "dropped")

Step(i) == Rest(i) \/ Offer(i) \/ Return(i) \/ Hold(i) \/ TakeEffect(i) \/ Settle(i) \/ Drop(i)

Next ==
    /\ state' \in [Items -> State] /\ effects' \in [Items -> Nat]
    /\ \A i \in Items : Step(i)
    /\ disturbed \subseteq disturbed'

Spec == Init /\ [][Next]_vars

-----------------------------------------------------------------------------

\* Safety: what is done has taken effect, and exactly once unless disturbed.
DoneTookEffect ==
    \A i \in Items : state[i] = "done" =>
        effects[i] > 0 /\ (i \notin disturbed => effects[i] = 1)

-----------------------------------------------------------------------------
(* The proof, for any items. *)

\* Nothing takes effect twice undisturbed, and nothing is done without effect.
DeliveryInv ==
    /\ state \in [Items -> State] /\ effects \in [Items -> Nat]
    /\ \A i \in Items : state[i] = "done" => effects[i] > 0
    /\ \A i \in Items \ disturbed : effects[i] <= 1

LEMMA DeliveryPreserved ==
    ASSUME DeliveryInv, Next
    PROVE  DeliveryInv'
<1> USE DEF DeliveryInv
<1>1. /\ state' \in [Items -> State] /\ effects' \in [Items -> Nat]
      /\ disturbed \subseteq disturbed' /\ \A i \in Items : Step(i)
  BY DEF Next
<1>2. ASSUME NEW i \in Items, state'[i] = "done" PROVE effects'[i] > 0
  <2>1. CASE TakeEffect(i)
    BY <2>1, <1>1 DEF TakeEffect
  <2>2. CASE ~TakeEffect(i)
    BY <1>1, <1>2, <2>2 DEF Step, Rest, Offer, Return, Hold, Settle, Drop, Goes
  <2>3. QED BY <2>1, <2>2
<1>3. ASSUME NEW i \in Items \ disturbed' PROVE effects'[i] <= 1
  <2>1. CASE TakeEffect(i)
    BY <2>1, <1>1, <1>3 DEF TakeEffect
  <2>2. CASE ~TakeEffect(i)
    BY <1>1, <1>3, <2>2 DEF Step, Rest, Offer, Return, Hold, Settle, Drop, Goes
  <2>3. QED BY <2>1, <2>2
<1>4. QED BY <1>1, <1>2, <1>3

\* The inductive invariant holds in every reachable state.
THEOREM DeliveryInvariant == Spec => []DeliveryInv
<1>1. Init => DeliveryInv
  BY DEF Init, DeliveryInv, State
<1>2. DeliveryInv /\ [Next]_vars => DeliveryInv'
  <2>1. DeliveryInv /\ Next => DeliveryInv'
    BY DeliveryPreserved
  <2>2. DeliveryInv /\ UNCHANGED vars => DeliveryInv'
    BY DEF DeliveryInv, vars
  <2>3. QED BY <2>1, <2>2
<1>3. QED BY <1>1, <1>2, PTL DEF Spec

\* What the paths into the books promise together: what is done with has taken effect, and
\* once unless its delivery was disturbed.  Every path that implements Delivery inherits it.
THEOREM DoneTookEffectAlways == Spec => []DoneTookEffect
<1>1. DeliveryInv => DoneTookEffect
  BY DEF DeliveryInv, DoneTookEffect
<1>2. QED BY <1>1, DeliveryInvariant, PTL
=============================================================================
