---------------------------- MODULE OpenAiAdapter ----------------------------
(***************************************************************************)
(* OpenAiResponsesAdapter (src/src/providers/openai-responses.ts): one     *)
(* adapter shared by several concurrent callers of invoke, each of which   *)
(* reserves, sends, retries and settles against the one BudgetGuard.       *)
(*                                                                         *)
(* invoke is synchronous up to its await of the transport, so a step is    *)
(* what runs between two awaits.  The provider is outside src/: it may     *)
(* charge for an attempt whose answer then never arrives (the transport's  *)
(* own classifyError calls that outcome "possibly_incurred").              *)
(***************************************************************************)
EXTENDS BudgetGuard, FiniteSets

CONSTANTS
  Clients,      \* concurrent callers of invoke
  Estimates,    \* what estimateRequestCost may return
  RetriesPerCall,   \* options.maxRetries
  Overrun       \* how far a reported cost may exceed its estimate

ASSUME ClientsAssumption == IsFiniteSet(Clients)
ASSUME EstimatesAssumption == Estimates \subseteq Nat
ASSUME RetriesAssumption == RetriesPerCall \in Nat
ASSUME OverrunAssumption == Overrun \in Nat

VARIABLES
  invocation,   \* the locals of each client's invoke
  recorded      \* total_cost over #records

adapterVars == <<requests, spent, reserved, invocation, recorded>>

Outcomes == {"none", "ok", "response_invalid", "adapter_failed", "budget_exceeded"}

(* pc: "sent" while an attempt is in flight that the provider has not      *)
(* charged, "charged" while one is that it has.                            *)
Calls == [pc : {"idle", "sent", "charged"}, est : Nat, retries : 0..RetriesPerCall,
          cost : Nat, outcome : Outcomes]

Returned(outcome) ==
  [pc |-> "idle", est |-> 0, retries |-> 0, cost |-> 0, outcome |-> outcome]

InFlight(c) == invocation[c].pc # "idle"

AdapterInit ==
  /\ GuardInit
  /\ invocation = [c \in Clients |-> Returned("none")]
  /\ recorded = 0

(* invoke up to its first await: reserve, then hand the attempt to the     *)
(* transport.                                                              *)
Invoke(c, e) ==
  /\ ~InFlight(c)
  /\ Reserve(e)
  /\ invocation' = [invocation EXCEPT ![c] = [pc |-> "sent", est |-> e, retries |-> 0,
                                  cost |-> 0, outcome |-> "none"]]
  /\ UNCHANGED recorded

(* reserve throws: nothing is sent and nothing is held.                    *)
Refuse(c, e) ==
  /\ ~InFlight(c)
  /\ ~Admits(e)
  /\ invocation' = [invocation EXCEPT ![c] = Returned("budget_exceeded")]
  /\ UNCHANGED <<requests, spent, reserved, recorded>>

(* The provider runs the attempt and charges for it.                       *)
Charge(c, cost) ==
  /\ invocation[c].pc = "sent"
  /\ invocation' = [invocation EXCEPT ![c].pc = "charged", ![c].cost = cost]
  /\ UNCHANGED <<requests, spent, reserved, recorded>>

(* Seeded fault: only an answer that parses is recorded.                   *)
RespondRecordsParsed(c) ==
  /\ invocation[c].pc = "charged"
  /\ Settle(invocation[c].est, invocation[c].cost)
  /\ \E outcome \in {"ok", "response_invalid"} :
       /\ invocation' = [invocation EXCEPT ![c] = Returned(outcome)]
       /\ recorded' = IF outcome = "ok" THEN recorded + invocation[c].cost ELSE recorded

(* The transport resolves: the reported cost is settled and recorded, and  *)
(* only then is the text parsed, so an unparseable answer is still paid.   *)
Respond(c) ==
  /\ invocation[c].pc = "charged"
  /\ Settle(invocation[c].est, invocation[c].cost)
  /\ recorded' = recorded + invocation[c].cost
  /\ \E outcome \in {"ok", "response_invalid"} :
       invocation' = [invocation EXCEPT ![c] = Returned(outcome)]

(* The transport rejects, whatever became of the attempt at the provider.  *)
Retry(c) ==
  /\ InFlight(c)
  /\ invocation[c].retries < RetriesPerCall
  /\ invocation' = [invocation EXCEPT ![c].pc = "sent", ![c].cost = 0,
                          ![c].retries = invocation[c].retries + 1]
  /\ UNCHANGED <<requests, spent, reserved, recorded>>

(* Seeded fault of GiveUp: the reservation is left held.                   *)
GiveUpHolding(c) ==
  /\ InFlight(c)
  /\ invocation[c].retries >= RetriesPerCall
  /\ invocation' = [invocation EXCEPT ![c] = Returned("adapter_failed")]
  /\ UNCHANGED <<requests, spent, reserved, recorded>>

GiveUp(c) ==
  /\ InFlight(c)
  /\ invocation[c].retries >= RetriesPerCall
  /\ Settle(invocation[c].est, 0)
  /\ invocation' = [invocation EXCEPT ![c] = Returned("adapter_failed")]
  /\ UNCHANGED recorded

Resolve(c) == Respond(c) \/ Retry(c) \/ GiveUp(c)

AdapterNext ==
  \E c \in Clients :
    \/ \E e \in Estimates : Invoke(c, e) \/ Refuse(c, e)
    \/ \E cost \in 0..(invocation[c].est + Overrun) : Charge(c, cost)
    \/ Resolve(c)

AdapterSpec == AdapterInit /\ [][AdapterNext]_adapterVars

-----------------------------------------------------------------------------
AdapterTypeOK ==
  /\ requests \in 0..MaxRequests
  /\ spent \in Nat
  /\ reserved \in Nat
  /\ invocation \in [Clients -> Calls]
  /\ recorded \in Nat

(* One pair <<client, i>> per dollar of an estimate still outstanding.     *)
HeldUnits ==
  {u \in Clients \X (1..MaxRequest) : u[2] <= invocation[u[1]].est}

(* The single counter #reserved is the sum of the outstanding estimates:   *)
(* no exit of the retry loop leaks a reservation or releases one twice,    *)
(* and Math.max(0, ...) in settle never hides a difference.                *)
ReservedIsOutstanding == reserved = Cardinality(HeldUnits)

(* What the total cap bounds when a cost may exceed its estimate: the      *)
(* committed money passes the cap by at most one overrun for each client   *)
(* that settled since the last admission (budget.ts:31-33).                *)
Settled == {c \in Clients : ~InFlight(c)}

CommittedWithinCap ==
  spent + reserved <= MaxTotal + Overrun * Cardinality(Settled)

(* Every dollar the guard counts as spent is in a request record, also     *)
(* when the answer it paid for cannot be parsed (openai-responses.ts:226). *)
SpendIsRecorded == spent = recorded

(* The adapter keeps the promise of SpendLedger with one running sum.      *)
Ledger == INSTANCE SpendLedger WITH
            Cap <- MaxTotal, MaxGrant <- MaxRequest,
            held <- [c \in Clients |-> invocation[c].est], gone <- spent

ImplementsLedger == Ledger!Spec

=============================================================================
