----------------------------- MODULE BudgetGuard -----------------------------
(***************************************************************************)
(* The hard limits of a live provider run: class BudgetGuard in            *)
(* src/src/providers/budget.ts.  Dollars are whole units, so no rounding   *)
(* is modelled.                                                            *)
(*                                                                         *)
(* The class has no await of its own: reserve and settle each run to       *)
(* completion, so each is one step of whichever caller invokes it.  The    *)
(* callers (OpenAiAdapter, StageA, LiveCall) extend this module.           *)
(***************************************************************************)
EXTENDS Integers

CONSTANTS
  MaxRequests,   \* limits.max_requests
  MaxTotal,      \* limits.max_total_usd
  MaxRequest     \* limits.max_request_usd

(* What the constructor insists on before a guard exists.                  *)
ASSUME LimitsAssumption ==
  /\ MaxRequests \in Nat \ {0}
  /\ MaxTotal \in Nat \ {0}
  /\ MaxRequest \in Nat \ {0}
  /\ MaxRequest <= MaxTotal

VARIABLES
  requests,      \* #requests
  spent,         \* #spent
  reserved       \* #reserved

guardVars == <<requests, spent, reserved>>

GuardInit ==
  /\ requests = 0
  /\ spent = 0
  /\ reserved = 0

(* Seeded faults of Admits: outstanding reservations forgotten, and the    *)
(* total compared before the estimate is added.                            *)
AdmitsUnreserved(estimate) ==
  /\ requests + 1 <= MaxRequests
  /\ estimate <= MaxRequest
  /\ spent + estimate <= MaxTotal

AdmitsBeforeAdding(estimate) ==
  /\ requests + 1 <= MaxRequests
  /\ estimate <= MaxRequest
  /\ spent + reserved <= MaxTotal

(* The three refusals of reserve, in the form of their negation.           *)
Admits(estimate) ==
  /\ requests + 1 <= MaxRequests
  /\ estimate <= MaxRequest
  /\ spent + reserved + estimate <= MaxTotal

Reserve(estimate) ==
  /\ Admits(estimate)
  /\ reserved' = reserved + estimate
  /\ requests' = requests + 1
  /\ UNCHANGED spent

(* Math.max(0, ...): a release never takes the counter below zero.         *)
ReleasedFrom(held, estimate) ==
  IF held >= estimate THEN held - estimate ELSE 0

Settle(estimate, actual) ==
  /\ reserved' = ReleasedFrom(reserved, estimate)
  /\ spent' = spent + actual
  /\ UNCHANGED requests
=============================================================================
