----------------------------- MODULE SagaChain -----------------------------
(***************************************************************************)
(* What a saga promises about its steps whatever happens to its messages:  *)
(* it gets one plan, its steps take effect in the order of that plan, and  *)
(* a step is only undone after it took effect.                             *)
(***************************************************************************)
CONSTANTS
  Saga,
  Step,
  Plan,
  Before   \* Before[p][k]: the steps that come before k in plan p

VARIABLES
  plan,    \* the plan of each saga, once it has one
  ran,     \* the steps that took effect
  undone   \* the steps that were undone

chainVars == <<plan, ran, undone>>

NoPlan == "none"

ChainInit ==
  /\ plan = [s \in Saga |-> NoPlan]
  /\ ran = [s \in Saga |-> {}]
  /\ undone = [s \in Saga |-> {}]

Begin(s, p) ==
  /\ plan[s] = NoPlan
  /\ plan' = [plan EXCEPT ![s] = p]
  /\ UNCHANGED <<ran, undone>>

Run(s, k) ==
  /\ plan[s] \in Plan
  /\ Before[plan[s]][k] \subseteq ran[s]
  /\ ran' = [ran EXCEPT ![s] = @ \union {k}]
  /\ UNCHANGED <<plan, undone>>

Undo(s, k) ==
  /\ k \in ran[s]
  /\ undone' = [undone EXCEPT ![s] = @ \union {k}]
  /\ UNCHANGED <<plan, ran>>

ChainNext ==
  \E s \in Saga :
    \/ \E p \in Plan : Begin(s, p)
    \/ \E k \in Step : Run(s, k) \/ Undo(s, k)

ChainSpec == ChainInit /\ [][ChainNext]_chainVars
-----------------------------------------------------------------------------
(***************************************************************************)
(* Whatever took effect came after the steps its plan puts before it, and  *)
(* whatever was undone had taken effect.                                   *)
(***************************************************************************)
InOrder ==
  \A s \in Saga :
    /\ plan[s] = NoPlan => ran[s] = {}
    /\ \A k \in ran[s] : Before[plan[s]][k] \subseteq ran[s]
    /\ undone[s] \subseteq ran[s]
=============================================================================
