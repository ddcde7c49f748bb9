------------------------ MODULE OpenAiAdapterProofs --------------------------
(***************************************************************************)
(* Theorems about OpenAiAdapter for every set of clients, every estimate   *)
(* and every limit.  The inductive invariant is AdapterTypeOK with                *)
(* ReservedIsOutstanding: settle subtracts an estimate from one running    *)
(* sum, and that is a release of exactly what the client held only if the  *)
(* sum covers it, which is what the second conjunct says.                  *)
(* At the end, the theorem about the one paid request of LiveCall.         *)
(***************************************************************************)
EXTENDS OpenAiAdapter, LiveCall, FiniteSetTheorems, TLAPS

(* Sums are cardinalities: an amount n held by c is the set of its units   *)
(* <<c, 1>>, ..., <<c, n>>.                                                *)
UnitsOf(c, n) == {c} \X (1..n)

LEMMA UnitsOfCount ==
  ASSUME NEW c, NEW n \in Nat
  PROVE  IsFiniteSet(UnitsOf(c, n)) /\ Cardinality(UnitsOf(c, n)) = n
<1>1. IsFiniteSet({c}) /\ Cardinality({c}) = 1
  BY FS_Singleton
<1>2. IsFiniteSet(1..n) /\ Cardinality(1..n) = n
  BY FS_Interval
<1>3. IsFiniteSet({c} \X (1..n)) /\ Cardinality({c} \X (1..n)) = 1 * n
  BY <1>1, <1>2, FS_Product
<1> QED
  BY <1>3 DEF UnitsOf

(* The units of all clients are finitely many.                             *)
LEMMA HeldFinite == IsFiniteSet(HeldUnits)
<1>1. IsFiniteSet(1..MaxRequest)
  BY LimitsAssumption, FS_Interval
<1>2. IsFiniteSet(Clients \X (1..MaxRequest))
  BY <1>1, ClientsAssumption, FS_Product
<1> QED
  BY <1>2, FS_Subset DEF HeldUnits

-----------------------------------------------------------------------------
(* No estimate above the per-request cap is ever outstanding.              *)
EstimatesBounded == \A c \in Clients : invocation[c].est <= MaxRequest

(* A charge stays within the overrun of what was estimated for it.         *)
CostsBounded == \A c \in Clients : invocation[c].cost <= invocation[c].est + Overrun

IInv ==
  /\ AdapterTypeOK
  /\ CostsBounded
  /\ EstimatesBounded
  /\ \A c \in Clients : ~InFlight(c) => invocation[c].est = 0
  /\ ReservedIsOutstanding

LEMMA InitIInv == AdapterInit => IInv
<1> SUFFICES ASSUME AdapterInit PROVE IInv
  OBVIOUS
<1>1. AdapterTypeOK
  BY LimitsAssumption, RetriesAssumption
  DEF AdapterInit, GuardInit, AdapterTypeOK, Returned, Calls, Outcomes
<1>2. \A c \in Clients : invocation[c].est = 0
  BY DEF AdapterInit, Returned
<1>3. HeldUnits = {}
  BY <1>2 DEF HeldUnits
<1>4. reserved = Cardinality(HeldUnits)
  BY <1>3, FS_EmptySet DEF AdapterInit, GuardInit
<1> QED
  BY <1>1, <1>2, <1>4, LimitsAssumption, OverrunAssumption
  DEF IInv, EstimatesBounded, ReservedIsOutstanding, CostsBounded, AdapterInit, Returned

(* A settled reservation leaves exactly the other clients' units.          *)
LEMMA SettleUnits ==
  ASSUME IInv, NEW c \in Clients, NEW outcome,
         invocation' = [invocation EXCEPT ![c] = Returned(outcome)]
  PROVE  /\ HeldUnits' = HeldUnits \ UnitsOf(c, invocation[c].est)
         /\ Cardinality(HeldUnits') = reserved - invocation[c].est
         /\ ReleasedFrom(reserved, invocation[c].est) = reserved - invocation[c].est
<1>1. invocation[c].est \in Nat /\ invocation[c].est <= MaxRequest
  BY DEF IInv, AdapterTypeOK, EstimatesBounded, Calls
<1>2. \A d \in Clients : invocation'[d].est = IF d = c THEN 0 ELSE invocation[d].est
  BY DEF IInv, AdapterTypeOK, Returned
<1>3. HeldUnits' = HeldUnits \ UnitsOf(c, invocation[c].est)
  BY <1>1, <1>2 DEF HeldUnits, UnitsOf
<1>4. UnitsOf(c, invocation[c].est) \subseteq HeldUnits
  BY <1>1, LimitsAssumption DEF HeldUnits, UnitsOf
<1>5. IsFiniteSet(HeldUnits)
  BY HeldFinite
<1>6. /\ Cardinality(HeldUnits \ UnitsOf(c, invocation[c].est)) = Cardinality(HeldUnits) - invocation[c].est
      /\ invocation[c].est <= Cardinality(HeldUnits)
  <2>1. HeldUnits \cap UnitsOf(c, invocation[c].est) = UnitsOf(c, invocation[c].est)
    BY <1>4
  <2>2. Cardinality(HeldUnits \ UnitsOf(c, invocation[c].est))
          = Cardinality(HeldUnits) - Cardinality(HeldUnits \cap UnitsOf(c, invocation[c].est))
    BY <1>5, FS_Difference
  <2>3. Cardinality(UnitsOf(c, invocation[c].est)) <= Cardinality(HeldUnits)
    BY <1>4, <1>5, FS_Subset
  <2> QED
    BY <1>1, <2>1, <2>2, <2>3, UnitsOfCount
<1> QED
  BY <1>1, <1>3, <1>6 DEF IInv, ReservedIsOutstanding, ReleasedFrom

(* An admitted reservation adds exactly the client's units.                *)
LEMMA ReserveUnits ==
  ASSUME IInv, NEW c \in Clients, NEW e \in Nat, e <= MaxRequest, ~InFlight(c),
         invocation' = [invocation EXCEPT ![c] = [pc |-> "sent", est |-> e, retries |-> 0,
                                      cost |-> 0, outcome |-> "none"]]
  PROVE  Cardinality(HeldUnits') = reserved + e
<1>1. \A d \in Clients : invocation'[d].est = IF d = c THEN e ELSE invocation[d].est
  BY DEF IInv, AdapterTypeOK
<1>2. invocation[c].est = 0
  BY DEF IInv
<1>3. HeldUnits' = HeldUnits \cup UnitsOf(c, e)
  BY <1>1, <1>2, LimitsAssumption DEF HeldUnits, UnitsOf
<1>4. HeldUnits \cap UnitsOf(c, e) = {}
  BY <1>2 DEF HeldUnits, UnitsOf
<1>5. IsFiniteSet(HeldUnits)
  BY HeldFinite
<1>6. Cardinality(HeldUnits \cup UnitsOf(c, e)) = Cardinality(HeldUnits) + e - 0
  BY <1>4, <1>5, UnitsOfCount, FS_Union, FS_EmptySet
<1> QED
  BY <1>3, <1>5, <1>6, FS_CardinalityType DEF IInv, ReservedIsOutstanding

LEMMA NextIInv == IInv /\ [AdapterNext]_adapterVars => IInv'
<1> SUFFICES ASSUME IInv, [AdapterNext]_adapterVars PROVE IInv'
  OBVIOUS
<1> USE RetriesAssumption, OverrunAssumption, LimitsAssumption
<1>1. ASSUME NEW c \in Clients, NEW e \in Estimates, Invoke(c, e)
      PROVE  IInv'
  <2>1. e \in Nat /\ e <= MaxRequest /\ ~InFlight(c)
    BY <1>1, EstimatesAssumption DEF Invoke, Reserve, Admits
  <2>2. AdapterTypeOK'
    BY <1>1, <2>1 DEF IInv, AdapterTypeOK, Invoke, Reserve, Admits, Calls, Outcomes
  <2>3. ReservedIsOutstanding'
    BY <1>1, <2>1, ReserveUnits DEF Invoke, Reserve, ReservedIsOutstanding
  <2> QED
    BY <1>1, <2>1, <2>2, <2>3 DEF IInv, AdapterTypeOK, EstimatesBounded, CostsBounded, InFlight, Invoke
<1>2. ASSUME NEW c \in Clients, NEW e \in Estimates, Refuse(c, e)
      PROVE  IInv'
  <2>1. invocation[c].est = 0 /\ ~InFlight(c)
    BY <1>2 DEF IInv, Refuse
  <2>2. \A d \in Clients : invocation'[d].est = invocation[d].est
    BY <1>2, <2>1 DEF IInv, AdapterTypeOK, Refuse, Returned
  <2>3. HeldUnits' = HeldUnits
    BY <2>2 DEF HeldUnits
  <2>4. AdapterTypeOK'
    BY <1>2 DEF IInv, AdapterTypeOK, Refuse, Returned, Calls, Outcomes
  <2> QED
    BY <1>2, <2>1, <2>2, <2>3, <2>4
    DEF IInv, AdapterTypeOK, EstimatesBounded, CostsBounded, InFlight, Refuse, Returned, ReservedIsOutstanding
<1>3. ASSUME NEW c \in Clients, NEW cost \in 0..(invocation[c].est + Overrun), Charge(c, cost)
      PROVE  IInv'
  <2>1. invocation[c] \in Calls /\ cost \in Nat
    BY <1>3 DEF IInv, AdapterTypeOK, Calls
  <2>2. \A d \in Clients : invocation'[d].est = invocation[d].est
    BY <1>3, <2>1 DEF IInv, AdapterTypeOK, Charge, Calls
  <2>3. HeldUnits' = HeldUnits
    BY <2>2 DEF HeldUnits
  <2>4. [invocation[c] EXCEPT !.pc = "charged", !.cost = cost] \in Calls
    BY <2>1 DEF Calls
  <2>5. AdapterTypeOK'
    BY <1>3, <2>1, <2>4 DEF IInv, AdapterTypeOK, Charge
  <2>6. \A d \in Clients : InFlight(d)' = InFlight(d)
    BY <1>3, <2>1 DEF IInv, AdapterTypeOK, Charge, Calls, InFlight
  <2> QED
    BY <1>3, <2>2, <2>3, <2>5, <2>6
    DEF IInv, AdapterTypeOK, EstimatesBounded, CostsBounded, Charge, ReservedIsOutstanding
<1>4. ASSUME NEW c \in Clients, Respond(c)
      PROVE  IInv'
  <2>1. PICK outcome \in {"ok", "response_invalid"} :
          invocation' = [invocation EXCEPT ![c] = Returned(outcome)]
    BY <1>4 DEF Respond
  <2>2. invocation[c] \in Calls
    BY DEF IInv, AdapterTypeOK
  <2>0. /\ Cardinality(HeldUnits') = reserved - invocation[c].est
        /\ ReleasedFrom(reserved, invocation[c].est) = reserved - invocation[c].est
    BY <2>1, SettleUnits
  <2>3. ReservedIsOutstanding' /\ reserved' \in Nat
    BY <1>4, <2>0, <2>2
    DEF IInv, AdapterTypeOK, Calls, Respond, Settle, ReservedIsOutstanding, ReleasedFrom
  <2>4. AdapterTypeOK'
    BY <1>4, <2>1, <2>2, <2>3 DEF IInv, AdapterTypeOK, Respond, Settle, Returned, Calls, Outcomes
  <2> QED
    BY <2>1, <2>3, <2>4 DEF IInv, AdapterTypeOK, EstimatesBounded, CostsBounded, InFlight, Returned
<1>5. ASSUME NEW c \in Clients, Retry(c)
      PROVE  IInv'
  <2>1. invocation[c] \in Calls
    BY DEF IInv, AdapterTypeOK
  <2>2. \A d \in Clients : invocation'[d].est = invocation[d].est
    BY <1>5, <2>1 DEF IInv, AdapterTypeOK, Retry, Calls
  <2>3. HeldUnits' = HeldUnits
    BY <2>2 DEF HeldUnits
  <2>4. AdapterTypeOK'
    BY <1>5, <2>1 DEF IInv, AdapterTypeOK, Retry, Calls
  <2>5. \A d \in Clients : InFlight(d)' \/ (d # c /\ invocation'[d] = invocation[d])
    BY <1>5, <2>1 DEF IInv, AdapterTypeOK, Retry, Calls, InFlight
  <2> QED
    BY <1>5, <2>2, <2>3, <2>4, <2>5
    DEF IInv, AdapterTypeOK, EstimatesBounded, CostsBounded, Retry, Calls, ReservedIsOutstanding, InFlight
<1>6. ASSUME NEW c \in Clients, GiveUp(c)
      PROVE  IInv'
  <2>1. invocation[c] \in Calls
    BY DEF IInv, AdapterTypeOK
  <2>0. /\ Cardinality(HeldUnits') = reserved - invocation[c].est
        /\ ReleasedFrom(reserved, invocation[c].est) = reserved - invocation[c].est
    BY <1>6, SettleUnits DEF GiveUp
  <2>2. ReservedIsOutstanding' /\ reserved' \in Nat
    BY <1>6, <2>0, <2>1
    DEF IInv, AdapterTypeOK, Calls, GiveUp, Settle, ReservedIsOutstanding, ReleasedFrom
  <2>3. AdapterTypeOK'
    BY <1>6, <2>1, <2>2 DEF IInv, AdapterTypeOK, GiveUp, Settle, Returned, Calls, Outcomes
  <2> QED
    BY <1>6, <2>2, <2>3 DEF IInv, AdapterTypeOK, EstimatesBounded, CostsBounded, InFlight, GiveUp, Returned
<1>7. CASE UNCHANGED adapterVars
  <2>1. HeldUnits' = HeldUnits
    BY <1>7 DEF adapterVars, HeldUnits
  <2> QED
    BY <1>7, <2>1 DEF IInv, AdapterTypeOK, EstimatesBounded, CostsBounded, InFlight, ReservedIsOutstanding, adapterVars
<1> QED
  BY <1>1, <1>2, <1>3, <1>4, <1>5, <1>6, <1>7 DEF AdapterNext, Resolve

(* The inductive invariant holds of every behaviour.                       *)
THEOREM IInvHolds == AdapterSpec => []IInv
<1> QED
  BY InitIInv, NextIInv, PTL DEF AdapterSpec

(* Every variable keeps its type; in particular the guard never admits     *)
(* more than max_requests reservations.                                    *)
THEOREM TypeCorrect == AdapterSpec => []AdapterTypeOK
<1>1. IInv => AdapterTypeOK
  BY DEF IInv
<1> QED
  BY <1>1, IInvHolds, PTL

(* #reserved is the sum of the outstanding estimates, however the calls    *)
(* interleave, retry and fail.                                             *)
THEOREM ReservationsBalance == AdapterSpec => []ReservedIsOutstanding
<1>1. IInv => ReservedIsOutstanding
  BY DEF IInv
<1> QED
  BY <1>1, IInvHolds, PTL

-----------------------------------------------------------------------------
(* A step that returns client c to idle adds it to the settled ones.       *)
LEMMA SettledGrows ==
  ASSUME IInv, NEW c \in Clients, InFlight(c), NEW outcome,
         invocation' = [invocation EXCEPT ![c] = Returned(outcome)]
  PROVE  /\ Cardinality(Settled') = Cardinality(Settled) + 1
         /\ Cardinality(Settled) \in Nat
<1>1. Settled' = Settled \cup {c}
  BY DEF Settled, InFlight, IInv, AdapterTypeOK, Returned
<1>2. c \notin Settled
  BY DEF Settled
<1>3. IsFiniteSet(Settled)
  BY ClientsAssumption, FS_Subset DEF Settled
<1> QED
  BY <1>1, <1>2, <1>3, FS_AddElement, FS_CardinalityType

(* Steps that leave the committed money alone, and who is in flight.       *)
LEMMA CommittedStutter ==
  ASSUME CommittedWithinCap, spent' = spent, reserved' = reserved,
         \A d \in Clients : InFlight(d)' = InFlight(d)
  PROVE  CommittedWithinCap'
<1>1. Settled' = Settled
  BY DEF Settled
<1> QED
  BY <1>1 DEF CommittedWithinCap

LEMMA NextCommitted == IInv /\ CommittedWithinCap /\ [AdapterNext]_adapterVars => CommittedWithinCap'
<1> SUFFICES ASSUME IInv, CommittedWithinCap, [AdapterNext]_adapterVars
             PROVE  CommittedWithinCap'
  OBVIOUS
<1> USE OverrunAssumption, LimitsAssumption
<1>1. ASSUME NEW c \in Clients, NEW e \in Estimates, Invoke(c, e)
      PROVE  CommittedWithinCap'
  <2>1. spent' + reserved' <= MaxTotal /\ spent' + reserved' \in Nat
    BY <1>1, EstimatesAssumption DEF IInv, AdapterTypeOK, Invoke, Reserve, Admits
  <2>2. Cardinality(Settled') \in Nat
    BY ClientsAssumption, FS_Subset, FS_CardinalityType DEF Settled
  <2>3. Overrun * Cardinality(Settled') >= 0
    BY <2>2
  <2>4. Overrun * Cardinality(Settled') \in Nat
    BY <2>2
  <2> QED
    BY <2>1, <2>3, <2>4 DEF CommittedWithinCap
<1>2. ASSUME NEW c \in Clients, NEW e \in Estimates, Refuse(c, e)
      PROVE  CommittedWithinCap'
  <2>1. \A d \in Clients : InFlight(d)' = InFlight(d)
    BY <1>2 DEF IInv, AdapterTypeOK, Refuse, Returned, InFlight
  <2> QED
    BY <1>2, <2>1, CommittedStutter DEF Refuse
<1>3. ASSUME NEW c \in Clients, NEW cost \in 0..(invocation[c].est + Overrun), Charge(c, cost)
      PROVE  CommittedWithinCap'
  <2>1. \A d \in Clients : InFlight(d)' = InFlight(d)
    BY <1>3 DEF IInv, AdapterTypeOK, Calls, Charge, InFlight
  <2> QED
    BY <1>3, <2>1, CommittedStutter DEF Charge
<1>4. ASSUME NEW c \in Clients, Retry(c)
      PROVE  CommittedWithinCap'
  <2>1. \A d \in Clients : InFlight(d)' = InFlight(d)
    BY <1>4 DEF IInv, AdapterTypeOK, Calls, Retry, InFlight
  <2> QED
    BY <1>4, <2>1, CommittedStutter DEF Retry
<1>5. ASSUME NEW c \in Clients, NEW outcome, NEW actual \in Nat, InFlight(c),
             actual <= invocation[c].est + Overrun,
             invocation' = [invocation EXCEPT ![c] = Returned(outcome)],
             Settle(invocation[c].est, actual)
      PROVE  CommittedWithinCap'
  <2>1. /\ reserved' = reserved - invocation[c].est
        /\ spent' = spent + actual
    BY <1>5, SettleUnits DEF Settle
  <2>2. /\ Cardinality(Settled') = Cardinality(Settled) + 1
        /\ Cardinality(Settled) \in Nat
    BY <1>5, SettledGrows
  <2>3. Overrun * Cardinality(Settled') = Overrun * Cardinality(Settled) + Overrun
    BY <2>2
  <2>4. /\ spent \in Nat /\ reserved \in Nat /\ invocation[c].est \in Nat
        /\ Overrun * Cardinality(Settled) \in Nat
    BY <2>2 DEF IInv, AdapterTypeOK, Calls
  <2> QED
    BY <1>5, <2>1, <2>3, <2>4 DEF CommittedWithinCap
<1>6. ASSUME NEW c \in Clients, Respond(c)
      PROVE  CommittedWithinCap'
  <2>1. /\ InFlight(c) /\ invocation[c].cost \in Nat
        /\ invocation[c].cost <= invocation[c].est + Overrun
    BY <1>6 DEF Respond, InFlight, IInv, AdapterTypeOK, Calls, CostsBounded
  <2> QED
    BY <1>5, <1>6, <2>1 DEF Respond
<1>7. ASSUME NEW c \in Clients, GiveUp(c)
      PROVE  CommittedWithinCap'
  <2>1. InFlight(c) /\ 0 <= invocation[c].est + Overrun
    BY <1>7 DEF GiveUp, IInv, AdapterTypeOK, Calls
  <2> QED
    BY <1>5, <1>7, <2>1 DEF GiveUp
<1>8. CASE UNCHANGED adapterVars
  BY <1>8, CommittedStutter DEF adapterVars, InFlight
<1> QED
  BY <1>1, <1>2, <1>3, <1>4, <1>6, <1>7, <1>8 DEF AdapterNext, Resolve

(* The total cap, for any number of concurrent callers: an actual cost     *)
(* above its estimate can carry the run past the cap by at most one        *)
(* overrun per caller, and with pessimistic estimates not at all.          *)
THEOREM CapHolds == AdapterSpec => []CommittedWithinCap
<1>1. AdapterInit => CommittedWithinCap
  <2> SUFFICES ASSUME AdapterInit PROVE CommittedWithinCap
    OBVIOUS
  <2>1. Cardinality(Settled) \in Nat
    BY ClientsAssumption, FS_Subset, FS_CardinalityType DEF Settled
  <2>2. Overrun * Cardinality(Settled) \in Nat
    BY <2>1, OverrunAssumption
  <2> QED
    BY <2>2, LimitsAssumption DEF AdapterInit, GuardInit, CommittedWithinCap
<1> QED
  BY <1>1, NextCommitted, IInvHolds, PTL DEF AdapterSpec

-----------------------------------------------------------------------------
(* The table of the abstract ledger under the refinement mapping.          *)
Table == [c \in Clients |-> invocation[c].est]

(* The instance of FiniteSets inside the ledger counts as this one does.   *)
LEMMA LedgerCounts == \A S : Ledger!Cardinality(S) = Cardinality(S)
  BY DEF Ledger!Cardinality, Cardinality

(* A return to idle is a Close of the ledger, or nothing at all.           *)
LEMMA ReturnIsClose ==
  ASSUME IInv, NEW c \in Clients, NEW outcome, NEW actual \in Nat,
         actual <= invocation[c].est + Overrun, spent' = spent + actual,
         invocation' = [invocation EXCEPT ![c] = Returned(outcome)]
  PROVE  Ledger!Next
<1>1. Table' = [Table EXCEPT ![c] = 0] /\ Table[c] = invocation[c].est
  BY DEF Table, IInv, AdapterTypeOK, Returned
<1>2. invocation[c].est \in Nat /\ invocation[c].est <= MaxRequest
  BY DEF IInv, AdapterTypeOK, Calls, EstimatesBounded
<1>3. actual \in 0..(MaxRequest + Overrun)
  BY <1>2, OverrunAssumption, LimitsAssumption
<1>4. Ledger!Close(c, actual)
  BY <1>1 DEF Ledger!Close, Table
<1> QED
  BY <1>3, <1>4 DEF Ledger!Next

LEMMA StepRefines == IInv /\ [AdapterNext]_adapterVars => [Ledger!Next]_(Ledger!ledgerVars)
<1> SUFFICES ASSUME IInv, [AdapterNext]_adapterVars
             PROVE  [Ledger!Next]_(Ledger!ledgerVars)
  OBVIOUS
<1>1. ASSUME NEW c \in Clients, NEW e \in Estimates, Invoke(c, e)
      PROVE  Ledger!Next
  <2>1. e \in 0..MaxRequest /\ spent + reserved + e <= MaxTotal /\ spent' = spent
    BY <1>1, EstimatesAssumption, LimitsAssumption DEF Invoke, Reserve, Admits
  <2>2. Table' = [Table EXCEPT ![c] = e] /\ Table[c] = 0
    BY <1>1 DEF Table, IInv, AdapterTypeOK, Invoke
  <2>3. Ledger!HeldUnits(Table) = HeldUnits
    BY DEF Ledger!HeldUnits, HeldUnits, Table
  <2>4. spent + Ledger!Cardinality(Ledger!HeldUnits(Table)) + e <= MaxTotal
    BY <2>1, <2>3, LedgerCounts DEF IInv, ReservedIsOutstanding
  <2>5. Ledger!Grant(c, e)
    BY <2>1, <2>2, <2>4 DEF Ledger!Grant, Table
  <2> QED
    BY <2>1, <2>5 DEF Ledger!Next
<1>2. ASSUME Table' = Table, spent' = spent
      PROVE  UNCHANGED Ledger!ledgerVars
  BY <1>2 DEF Ledger!ledgerVars, Table
<1>3. ASSUME NEW c \in Clients, NEW e \in Estimates, Refuse(c, e)
      PROVE  UNCHANGED Ledger!ledgerVars
  <2>1. Table' = Table /\ spent' = spent
    BY <1>3 DEF Table, IInv, AdapterTypeOK, Refuse, Returned
  <2> QED
    BY <2>1, <1>2
<1>4. ASSUME NEW c \in Clients, NEW cost \in 0..(invocation[c].est + Overrun), Charge(c, cost)
      PROVE  UNCHANGED Ledger!ledgerVars
  <2>1. Table' = Table /\ spent' = spent
    BY <1>4 DEF Table, IInv, AdapterTypeOK, Calls, Charge
  <2> QED
    BY <2>1, <1>2
<1>5. ASSUME NEW c \in Clients, Retry(c)
      PROVE  UNCHANGED Ledger!ledgerVars
  <2>1. Table' = Table /\ spent' = spent
    BY <1>5 DEF Table, IInv, AdapterTypeOK, Calls, Retry
  <2> QED
    BY <2>1, <1>2
<1>6. ASSUME NEW c \in Clients, Respond(c)
      PROVE  Ledger!Next
  <2>1. invocation[c].cost \in Nat /\ invocation[c].cost <= invocation[c].est + Overrun
    BY DEF IInv, AdapterTypeOK, Calls, CostsBounded
  <2> QED
    BY <1>6, <2>1, ReturnIsClose DEF Respond, Settle
<1>7. ASSUME NEW c \in Clients, GiveUp(c)
      PROVE  Ledger!Next
  <2>1. 0 <= invocation[c].est + Overrun
    BY OverrunAssumption DEF IInv, AdapterTypeOK, Calls
  <2> QED
    BY <1>7, <2>1, ReturnIsClose DEF GiveUp, Settle
<1>8. CASE UNCHANGED adapterVars
  <2>1. Table' = Table /\ spent' = spent
    BY <1>8 DEF Table, adapterVars
  <2> QED
    BY <2>1, <1>2
<1> QED
  BY <1>1, <1>3, <1>4, <1>5, <1>6, <1>7, <1>8 DEF AdapterNext, Resolve

(* The adapter implements the ledger: one running sum, incremented and     *)
(* released at the right places, is as good as a table of who holds what.  *)
THEOREM AdapterImplementsLedger == AdapterSpec => ImplementsLedger
<1>1. AdapterInit => Ledger!Init
  <2> SUFFICES ASSUME AdapterInit PROVE Ledger!Init
    OBVIOUS
  <2> QED
    BY DEF AdapterInit, GuardInit, Returned, Ledger!Init
<1> QED
  BY <1>1, StepRefines, IInvHolds, PTL DEF AdapterSpec, ImplementsLedger, Ledger!Spec

-----------------------------------------------------------------------------
(* Only an answer moves the guard's sum, and it moves the records with it: *)
(* giving up settles nothing.                                              *)
LEMMA NextRecorded == IInv /\ SpendIsRecorded /\ [AdapterNext]_adapterVars => SpendIsRecorded'
<1> SUFFICES ASSUME IInv, SpendIsRecorded, [AdapterNext]_adapterVars PROVE SpendIsRecorded'
  OBVIOUS
<1>1. spent \in Nat
  BY DEF IInv, AdapterTypeOK
<1>2. ASSUME NEW c \in Clients, Respond(c)
      PROVE  SpendIsRecorded'
  BY <1>2 DEF SpendIsRecorded, Respond, Settle
<1>3. ASSUME NEW c \in Clients, GiveUp(c)
      PROVE  SpendIsRecorded'
  BY <1>1, <1>3 DEF SpendIsRecorded, GiveUp, Settle
<1>4. ASSUME UNCHANGED <<spent, recorded>>
      PROVE  SpendIsRecorded'
  BY <1>4 DEF SpendIsRecorded
<1> QED
  BY <1>2, <1>3, <1>4 DEF AdapterNext, Resolve, Invoke, Reserve, Refuse, Charge, Retry, adapterVars

(* Every dollar the guard counts as spent is in a request record, for any  *)
(* number of clients, also when the answer it paid for cannot be parsed.   *)
THEOREM SpendingIsRecorded == AdapterSpec => []SpendIsRecorded
<1>1. AdapterInit => SpendIsRecorded
  BY DEF AdapterInit, GuardInit, SpendIsRecorded
<1> QED
  BY <1>1, NextRecorded, IInvHolds, PTL DEF AdapterSpec

-----------------------------------------------------------------------------
(***************************************************************************)
(* LiveCall.  Prices of tokens, for any prices and any numbers of tokens.  *)
(***************************************************************************)
LEMMA ProductsGrow ==
  ASSUME NEW a \in Nat, NEW b \in Nat, NEW c \in Nat, NEW d \in Nat, a <= b, c <= d
  PROVE  a * c <= b * d
<1>1. PICK k \in Nat : b = a + k
  <2>1. b - a \in Nat /\ b = a + (b - a)
    OBVIOUS
  <2> QED
    BY <2>1
<1>2. PICK l \in Nat : d = c + l
  <2>1. d - c \in Nat /\ d = c + (d - c)
    OBVIOUS
  <2> QED
    BY <2>1
<1>3. b * d = a * c + a * l + k * c + k * l
  BY <1>1, <1>2
<1>4. a * l \in Nat /\ k * c \in Nat /\ k * l \in Nat /\ a * c \in Nat
  BY <1>1, <1>2
<1> QED
  BY <1>3, <1>4

(* The price of i tokens of input, c of them cached, w written to the      *)
(* cache, and o of output.                                                 *)
PriceOf(tier, i, c, w, o) ==
  (i - c) * Rates[tier].input + c * Rates[tier].cached
    + w * Rates[tier].write + o * Rates[tier].output

TierFor(i) == IF i > Threshold THEN "long" ELSE "short"

LEMMA RatesAreNumbers ==
  /\ \A t \in Tiers : /\ Rates[t].input \in Nat /\ Rates[t].cached \in Nat
                      /\ Rates[t].write \in Nat /\ Rates[t].output \in Nat
                      /\ Rates[t].cached <= Rates[t].input
  /\ Rates["short"].input <= Rates["long"].input /\ Rates["short"].write <= Rates["long"].write
  /\ Rates["short"].output <= Rates["long"].output
  /\ Threshold \in Nat /\ MaxOutputTokens \in Nat
BY RatesAssumption DEF Tiers, Classes

LEMMA PriceIsNumber ==
  ASSUME NEW t \in Tiers, NEW i \in Nat, NEW c \in Nat, NEW w \in Nat, NEW o \in Nat, c <= i
  PROVE  PriceOf(t, i, c, w, o) \in Nat
<1>1. i - c \in Nat
  OBVIOUS
<1>2. /\ (i - c) * Rates[t].input \in Nat /\ c * Rates[t].cached \in Nat
      /\ w * Rates[t].write \in Nat /\ o * Rates[t].output \in Nat
  BY <1>1, RatesAreNumbers
<1> QED
  BY <1>2 DEF PriceOf

(* What ComputeTokenCost is of usage whose cached tokens are input.        *)
LEMMA CostIsPrice ==
  ASSUME NEW u \in [Classes -> Nat], u.cached <= u.input
  PROVE  ComputeTokenCost(u) = PriceOf(TierFor(u.input), u.input, u.cached, u.write, u.output)
<1>1. u.input \in Nat /\ u.cached \in Nat /\ u.write \in Nat /\ u.output \in Nat
  BY DEF Classes
<1>2. (IF u.input > u.cached THEN u.input - u.cached ELSE 0) = u.input - u.cached
  BY <1>1
<1> QED
  BY <1>2 DEF ComputeTokenCost, TierOf, PriceOf, TierFor

LEMMA BillIsPrice ==
  ASSUME metered \in Usages
  PROVE  /\ metered \in [Classes -> Nat] /\ metered.cached <= metered.input
         /\ Bill = PriceOf(TierFor(metered.input), metered.input, metered.cached,
                           metered.write, metered.output)
<1>1. /\ metered \in [Classes -> Nat] /\ metered.cached <= metered.input
      /\ metered # NoUsage /\ Threshold \in Nat
  BY RatesAssumption
<1>2. metered.input \in Nat
  BY <1>1 DEF Classes
<1>3. (IF metered.input <= Threshold THEN "short" ELSE "long") = TierFor(metered.input)
  BY <1>1, <1>2 DEF TierFor
<1> QED
  BY <1>1, <1>3 DEF Bill, PriceOf

(* Input that is told to be cached costs no more than input that is not.   *)
LEMMA CachedIsCheaper ==
  ASSUME NEW t \in Tiers, NEW i \in Nat, NEW c \in Nat, NEW w \in Nat, NEW o \in Nat, c <= i
  PROVE  PriceOf(t, i, c, w, o) <= PriceOf(t, i, 0, w, o)
<1> DEFINE r == Rates[t].input
           q == Rates[t].cached
<1>1. r \in Nat /\ q \in Nat /\ q <= r
  BY RatesAreNumbers
<1>2. c * q <= c * r
  BY <1>1, ProductsGrow
<1>3. (i - c) * r = i * r - c * r
  BY <1>1
<1>4. i * r \in Nat /\ c * r \in Nat /\ c * q \in Nat /\ (i - 0) * r = i * r /\ 0 * q = 0
  BY <1>1
<1>5. w * Rates[t].write + o * Rates[t].output \in Nat
  BY RatesAreNumbers
<1> DEFINE rest == w * Rates[t].write + o * Rates[t].output
<1>6. PriceOf(t, i, c, w, o) = (i - c) * r + c * q + rest
  <2>1. w * Rates[t].write \in Nat /\ o * Rates[t].output \in Nat /\ (i - c) * r \in Int
    BY <1>1, RatesAreNumbers
  <2> QED
    BY <1>4, <2>1 DEF PriceOf
<1>7. PriceOf(t, i, 0, w, o) = i * r + rest
  <2>1. w * Rates[t].write \in Nat /\ o * Rates[t].output \in Nat
    BY RatesAreNumbers
  <2> QED
    BY <1>4, <2>1 DEF PriceOf
<1> HIDE DEF rest, r, q
<1> QED
  BY <1>2, <1>3, <1>4, <1>5, <1>6, <1>7 DEF rest

LEMMA LongerCostsMore ==
  ASSUME NEW i \in Nat, NEW p \in Nat, NEW o \in Nat, NEW m \in Nat, i <= p, o <= m
  PROVE  PriceOf(TierFor(i), i, 0, 0, o) <= PriceOf(TierFor(p), p, 0, 0, m)
<1>1. TierFor(i) \in Tiers /\ TierFor(p) \in Tiers
  BY DEF TierFor, Tiers
<1>2. TierFor(i) = TierFor(p) \/ (TierFor(i) = "short" /\ TierFor(p) = "long")
  BY RatesAreNumbers DEF TierFor
<1>3. /\ Rates[TierFor(i)].input <= Rates[TierFor(p)].input
      /\ Rates[TierFor(i)].output <= Rates[TierFor(p)].output
      /\ Rates[TierFor(i)].input \in Nat /\ Rates[TierFor(i)].output \in Nat
      /\ Rates[TierFor(p)].input \in Nat /\ Rates[TierFor(p)].output \in Nat
  BY <1>1, <1>2, RatesAreNumbers
<1>4. i * Rates[TierFor(i)].input <= p * Rates[TierFor(p)].input
  BY <1>3, ProductsGrow
<1>5. o * Rates[TierFor(i)].output <= m * Rates[TierFor(p)].output
  BY <1>3, ProductsGrow
<1>6. \A t \in Tiers, j, n \in Nat :
        PriceOf(t, j, 0, 0, n) = j * Rates[t].input + n * Rates[t].output
  <2> SUFFICES ASSUME NEW t \in Tiers, NEW j \in Nat, NEW n \in Nat
               PROVE  PriceOf(t, j, 0, 0, n) = j * Rates[t].input + n * Rates[t].output
    OBVIOUS
  <2>1. /\ j * Rates[t].input \in Nat /\ n * Rates[t].output \in Nat
        /\ 0 * Rates[t].cached = 0 /\ 0 * Rates[t].write = 0 /\ j - 0 = j
    BY RatesAreNumbers
  <2> QED
    BY <2>1 DEF PriceOf
<1>7. /\ i * Rates[TierFor(i)].input \in Nat /\ o * Rates[TierFor(i)].output \in Nat
      /\ p * Rates[TierFor(p)].input \in Nat /\ m * Rates[TierFor(p)].output \in Nat
  BY <1>3
<1>8. /\ PriceOf(TierFor(i), i, 0, 0, o) = i * Rates[TierFor(i)].input + o * Rates[TierFor(i)].output
      /\ PriceOf(TierFor(p), p, 0, 0, m) = p * Rates[TierFor(p)].input + m * Rates[TierFor(p)].output
  BY <1>1, <1>6
<1> QED
  BY <1>4, <1>5, <1>7, <1>8

LEMMA EstimateIsPrice ==
  ASSUME NEW p \in Nat
  PROVE  EstimateRequestCost(p) = PriceOf(TierFor(p), p, 0, 0, MaxOutputTokens)
<1> DEFINE u == [input |-> p, cached |-> 0, write |-> 0, output |-> MaxOutputTokens]
<1>1. u \in [Classes -> Nat] /\ u.cached <= u.input
  BY RatesAreNumbers DEF Classes
<1>2. ComputeTokenCost(u) = PriceOf(TierFor(u.input), u.input, u.cached, u.write, u.output)
  BY <1>1, CostIsPrice
<1> QED
  BY <1>2 DEF EstimateRequestCost

LEMMA EstimateIsNumber == ASSUME NEW p \in Nat PROVE EstimateRequestCost(p) \in Nat
<1>1. TierFor(p) \in Tiers /\ 0 \in Nat /\ 0 <= p /\ MaxOutputTokens \in Nat
  BY RatesAreNumbers DEF TierFor, Tiers
<1>2. PriceOf(TierFor(p), p, 0, 0, MaxOutputTokens) \in Nat
  BY <1>1, PriceIsNumber
<1> QED
  BY <1>2, EstimateIsPrice

LEMMA EstimateCovers ==
  ASSUME metered \in Usages \cup {NoUsage}, promptTokens \in PromptEstimates
  PROVE  EstimateIsPessimistic
<1> SUFFICES ASSUME metered # NoUsage, metered.write = 0, metered.input <= promptTokens,
                    metered.output <= MaxOutputTokens
             PROVE  Bill <= EstimateRequestCost(promptTokens)
  BY DEF EstimateIsPessimistic
<1>1. /\ metered \in [Classes -> Nat] /\ metered.cached <= metered.input
      /\ Bill = PriceOf(TierFor(metered.input), metered.input, metered.cached,
                        metered.write, metered.output)
  BY BillIsPrice
<1>2. /\ metered.input \in Nat /\ metered.cached \in Nat /\ metered.output \in Nat
      /\ metered.write \in Nat
      /\ promptTokens \in Nat /\ MaxOutputTokens \in Nat
  BY <1>1, RatesAssumption DEF Classes
<1>3. TierFor(metered.input) \in Tiers /\ TierFor(promptTokens) \in Tiers
  BY DEF TierFor, Tiers
<1> DEFINE uncached == PriceOf(TierFor(metered.input), metered.input, 0, 0, metered.output)
<1>4. Bill <= uncached
  BY <1>1, <1>2, <1>3, CachedIsCheaper
<1>5. uncached <= EstimateRequestCost(promptTokens)
  BY <1>2, LongerCostsMore, EstimateIsPrice
<1>6. Bill \in Nat /\ uncached \in Nat /\ EstimateRequestCost(promptTokens) \in Nat
  <2>1. uncached \in Nat
    <3>1. 0 \in Nat /\ 0 <= metered.input
      BY <1>2
    <3> QED
      BY <1>2, <1>3, <3>1, PriceIsNumber
  <2>2. Bill \in Nat
    BY <1>1, <1>2, <1>3, PriceIsNumber
  <2>3. EstimateRequestCost(promptTokens) \in Nat
    BY <1>2, EstimateIsNumber
  <2> QED
    BY <2>1, <2>2, <2>3
<1> HIDE DEF uncached
<1> QED
  BY <1>4, <1>5, <1>6

-----------------------------------------------------------------------------
(* What the answer told of the usage.                                      *)
Told == [c \in Classes |-> IF c \in reported THEN metered[c] ELSE 0]

LEMMA ToldCosts ==
  ASSUME metered \in Usages, reported \in SUBSET Classes, {"input", "output"} \subseteq reported
  PROVE  /\ ComputeTokenCost(Told) \in Int /\ Bill \in Int
         /\ "write" \in reported => ComputeTokenCost(Told) >= Bill
         /\ reported = Classes => ComputeTokenCost(Told) = Bill
         /\ ComputeTokenCost(Told) >= Bill - metered.write * Rates["long"].write
         /\ metered.write * Rates["long"].write \in Nat
<1>1. /\ metered \in [Classes -> Nat] /\ metered.cached <= metered.input
      /\ Bill = PriceOf(TierFor(metered.input), metered.input, metered.cached,
                        metered.write, metered.output)
  BY BillIsPrice
<1> DEFINE i == metered.input
           c == metered.cached
           w == metered.write
           o == metered.output
           t == TierFor(i)
<1>2. i \in Nat /\ c \in Nat /\ w \in Nat /\ o \in Nat /\ c <= i /\ t \in Tiers
  BY <1>1 DEF Classes, TierFor, Tiers
<1>3. /\ Told \in [Classes -> Nat] /\ Told.input = i /\ Told.output = o
      /\ Told.cached = (IF "cached" \in reported THEN c ELSE 0)
      /\ Told.write = (IF "write" \in reported THEN w ELSE 0)
  <2>1. \A k \in Classes : Told[k] = (IF k \in reported THEN metered[k] ELSE 0)
    BY DEF Told
  <2>2. \A k \in Classes : metered[k] \in Nat
    BY <1>1
  <2>3. Told \in [Classes -> Nat]
    BY <2>2 DEF Told
  <2> QED
    BY <2>1, <2>3 DEF Classes
<1>4. Told.cached <= Told.input
  BY <1>2, <1>3
<1>5. ComputeTokenCost(Told) = PriceOf(t, i, Told.cached, Told.write, o)
  BY <1>3, <1>4, CostIsPrice
<1>6. /\ PriceOf(t, i, c, w, o) \in Nat /\ PriceOf(t, i, 0, w, o) \in Nat
      /\ PriceOf(t, i, c, 0, o) \in Nat
  <2>1. 0 \in Nat /\ 0 <= i
    BY <1>2
  <2> QED
    BY <1>2, <2>1, PriceIsNumber
<1>7. PriceOf(t, i, c, w, o) <= PriceOf(t, i, 0, w, o)
  BY <1>2, CachedIsCheaper
<1>15. PriceOf(t, i, c, 0, o) <= PriceOf(t, i, 0, 0, o) /\ PriceOf(t, i, 0, 0, o) \in Nat
  <2>1. 0 \in Nat /\ 0 <= i
    BY <1>2
  <2> QED
    BY <1>2, <2>1, CachedIsCheaper, PriceIsNumber
<1>8. w * Rates["long"].write \in Nat /\ w * Rates[t].write \in Nat
  BY <1>2, RatesAreNumbers DEF Tiers
<1>9. w * Rates[t].write <= w * Rates["long"].write
  <2>1. Rates[t].write <= Rates["long"].write /\ Rates[t].write \in Nat /\ Rates["long"].write \in Nat
    BY <1>2, RatesAreNumbers DEF Tiers
  <2>2. w <= w
    BY <1>2
  <2> QED
    BY <1>2, <2>1, <2>2, ProductsGrow
<1>10. PriceOf(t, i, c, 0, o) = PriceOf(t, i, c, w, o) - w * Rates[t].write
  <2>1. /\ (i - c) * Rates[t].input \in Nat /\ c * Rates[t].cached \in Nat
        /\ o * Rates[t].output \in Nat /\ 0 * Rates[t].write = 0
    <3>1. i - c \in Nat
      BY <1>2
    <3> QED
      BY <1>2, <3>1, RatesAreNumbers
  <2> QED
    BY <1>8, <2>1 DEF PriceOf
<1> HIDE DEF i, c, w, o, t
<1>0. {"input", "output"} \subseteq reported /\ reported \subseteq Classes
  OBVIOUS
<1>11. CASE "cached" \in reported /\ "write" \in reported
  <2>1. "cached" \in reported /\ "write" \in reported
    BY <1>11
  <2>2. ComputeTokenCost(Told) = Bill
    BY <1>1, <1>3, <1>5, <2>1 DEF i, c, w, o, t
  <2>3. metered.write * Rates["long"].write \in Nat /\ Bill \in Nat
    BY <1>1, <1>6, <1>8 DEF i, c, w, o, t
  <2> QED
    BY <2>2, <2>3
<1>12. CASE "cached" \in reported /\ "write" \notin reported
  <2>1. "cached" \in reported /\ "write" \notin reported /\ reported # Classes
    BY <1>12 DEF Classes
  <2>2. ComputeTokenCost(Told) = PriceOf(t, i, c, 0, o)
    BY <1>3, <1>5, <2>1
  <2>3. Bill = PriceOf(t, i, c, w, o) /\ metered.write = w
    BY <1>1 DEF i, c, w, o, t
  <2> QED
    BY <1>6, <1>8, <1>9, <1>10, <2>1, <2>2, <2>3
<1>13. CASE "cached" \notin reported /\ "write" \in reported
  <2>1. "cached" \notin reported /\ "write" \in reported /\ reported # Classes
    BY <1>13 DEF Classes
  <2>2. ComputeTokenCost(Told) = PriceOf(t, i, 0, w, o)
    BY <1>3, <1>5, <2>1
  <2>3. Bill = PriceOf(t, i, c, w, o) /\ metered.write = w
    BY <1>1 DEF i, c, w, o, t
  <2> QED
    BY <1>6, <1>7, <1>8, <2>1, <2>2, <2>3
<1>14. CASE "cached" \notin reported /\ "write" \notin reported
  <2>1. "cached" \notin reported /\ "write" \notin reported /\ reported # Classes
    BY <1>14 DEF Classes
  <2>2. ComputeTokenCost(Told) = PriceOf(t, i, 0, 0, o)
    BY <1>3, <1>5, <2>1
  <2>3. Bill = PriceOf(t, i, c, w, o) /\ metered.write = w
    BY <1>1 DEF i, c, w, o, t
  <2> QED
    BY <1>6, <1>8, <1>9, <1>10, <1>15, <2>1, <2>2, <2>3
<1> QED
  BY <1>11, <1>12, <1>13, <1>14

-----------------------------------------------------------------------------
(* A timeout and an answer that cannot be read are left open.              *)
LEMMA UncertainStaysOpen ==
  \A failure \in {"timeout", "unreadable"} :
    /\ ClassifyError(failure).billing = "possibly_incurred"
    /\ ClassifyError(failure).retryable = FALSE
<1>1. FirstOf(Chain, InstanceOf["unreadable"]) = "UnknownError"
  BY DEF FirstOf, InstanceOf
<1>2. FirstOf(Chain, InstanceOf["timeout"]) = "APIConnectionTimeoutError"
  <2> DEFINE at == {i \in DOMAIN Chain : Chain[i] \in InstanceOf["timeout"]}
  <2>1. DOMAIN Chain = 1..9 /\ Chain[1] = "APIConnectionTimeoutError"
    BY DEF Chain
  <2>2. 1 \in at /\ \A j \in at : 1 <= j
    BY <2>1 DEF InstanceOf
  <2>3. at \subseteq Nat
    BY <2>1
  <2> HIDE DEF at
  <2>4. (CHOOSE i \in at : \A j \in at : i <= j) = 1
    <3>1. \A i \in at : (\A j \in at : i <= j) => i = 1
      BY <2>2, <2>3
    <3> QED
      BY <2>2, <3>1
  <2> QED
    BY <2>1, <2>2, <2>4 DEF FirstOf, at
<1>3. ASSUME NEW class \in {"UnknownError", "APIConnectionTimeoutError"}
      PROVE  Verdict(class).billing = "possibly_incurred" /\ Verdict(class).retryable = FALSE
  <2>1. class \in {"APIConnectionTimeoutError", "UnknownError"}
    OBVIOUS
  <2>2. (class \in {"APIConnectionError", "RateLimitError", "InternalServerError"}) = FALSE
    OBVIOUS
  <2>3. Verdict(class) = [error_class |-> class, retryable |-> FALSE, outcome |-> "unknown",
                          billing |-> "possibly_incurred"]
    BY <2>1, <2>2, Zenon DEF Verdict
  <2> QED
    BY <2>3
<1> QED
  BY <1>1, <1>2, <1>3 DEF ClassifyError

(* An answer whose receipt is valid.                                       *)
Whole == event = "answered" /\ identified /\ {"input", "output"} \subseteq reported

(* A receipt tells an answer, or what class the failure is of.             *)
ReceiptTells ==
  liveReceipt # NoReceipt =>
    \/ /\ event = "answered" /\ metered \in Usages /\ reported \in SUBSET Classes
       /\ liveReceipt.billing = "incurred" /\ liveReceipt.retryable = FALSE
       /\ liveReceipt.cost = ComputeTokenCost(Told)
       /\ liveReceipt.accuracy = "reconstructed" => "write" \in reported
       /\ liveReceipt.transport_valid => Whole
    \/ /\ metered # NoUsage => event \in Ambiguous
       /\ liveReceipt.billing = ClassifyError(event).billing
       /\ liveReceipt.retryable = ClassifyError(event).retryable
       /\ liveReceipt.transport_valid = FALSE

(* The limits have let the request through.                                *)
LetThrough ==
  signals = Signals /\ requests = 1 /\ EstimateRequestCost(promptTokens) <= MaxTotal

LiveInv ==
  /\ callPc \in {"gate", "reserve", "send", "failed", "answered", "write", "ended"}
  /\ metered \in Usages \cup {NoUsage} /\ promptTokens \in PromptEstimates
  /\ callPc \in {"gate", "reserve"} =>
       requests = 0 /\ spent = 0 /\ reserved = 0 /\ metered = NoUsage
  /\ callPc = "reserve" => signals = Signals
  /\ callPc \in {"gate", "reserve", "send", "failed", "answered"} => liveReceipt = NoReceipt
  /\ callPc \in {"send", "failed", "answered", "write"} => LetThrough
  /\ callPc = "send" => metered = NoUsage
  /\ callPc = "failed" /\ metered # NoUsage => event \in Ambiguous
  /\ callPc = "answered" => event = "answered" /\ metered \in Usages /\ reported \in SUBSET Classes
  /\ callPc = "write" /\ liveReceipt.transport_valid => Whole
  /\ callPc = "ended" /\ metered # NoUsage => LetThrough /\ (callExit \in {1, Killed} \/ onDisk)
  /\ callExit = 0 => callPc = "ended" /\ onDisk /\ Whole
  /\ ReceiptTells

LEMMA LiveStarts == LiveInit => LiveInv
BY DEF LiveInit, GuardInit, LiveInv, ReceiptTells

LEMMA LiveStep ==
  ASSUME LiveInv, [LiveNext]_<<liveVars, guardVars>>
  PROVE  LiveInv'
<1>1. CASE CheckLiveAuthorization
  BY <1>1 DEF LiveInv, ReceiptTells, LetThrough, Whole, CheckLiveAuthorization, Exits, guardVars
<1>2. CASE ReserveCall
  <2>1. CASE callPc' = "ended"
    BY <1>2, <2>1 DEF LiveInv, ReceiptTells, LetThrough, Whole, ReserveCall, Exits, guardVars
  <2>2. CASE callPc' # "ended"
    <3>1. /\ callPc = "reserve" /\ callPc' = "send" /\ Reserve(EstimateRequestCost(promptTokens))
          /\ UNCHANGED <<signals, promptTokens, event, metered, reported, identified, liveReceipt, onDisk, callExit>>
      BY <1>2, <2>2 DEF ReserveCall, Exits
    <3>2. LetThrough'
      <4>1. promptTokens \in Nat /\ MaxTotal \in Nat
        BY RatesAssumption, LimitsAssumption DEF LiveInv
      <4>2. EstimateRequestCost(promptTokens) \in Nat
        BY <4>1, EstimateIsNumber
      <4>3. requests = 0 /\ spent = 0 /\ reserved = 0 /\ signals = Signals
        BY <3>1 DEF LiveInv
      <4>4. EstimateRequestCost(promptTokens) <= MaxTotal /\ requests' = 1
        BY <3>1, <4>1, <4>2, <4>3 DEF Reserve, Admits
      <4>5. EstimateRequestCost(promptTokens)' = EstimateRequestCost(promptTokens)
        BY <3>1
      <4> QED
        BY <3>1, <4>3, <4>4, <4>5 DEF LetThrough
    <3> QED
      BY <3>1, <3>2 DEF LiveInv, ReceiptTells
  <2> QED
    BY <2>1, <2>2
<1>3. CASE RequestFails
  BY <1>3 DEF LiveInv, ReceiptTells, LetThrough, Whole, RequestFails, guardVars
<1>4. CASE RequestAnswered
  BY <1>4 DEF LiveInv, ReceiptTells, LetThrough, Whole, RequestAnswered, guardVars
<1>5. CASE RecordAnswer
  <2>1. /\ callPc = "answered" /\ callPc' = "write"
        /\ UNCHANGED <<signals, promptTokens, event, metered, reported, identified, onDisk, callExit, requests>>
        /\ liveReceipt' = [billing |-> "incurred", outcome |-> "completed", retryable |-> FALSE,
                        cost |-> ComputeTokenCost(Told),
                        accuracy |-> IF "write" \in reported THEN "reconstructed" ELSE "estimated",
                        transport_valid |-> identified /\ {"input", "output"} \subseteq reported]
    BY <1>5 DEF RecordAnswer, Settle, Told
  <2>2. /\ liveReceipt'.billing = "incurred" /\ liveReceipt'.retryable = FALSE
        /\ liveReceipt'.cost = ComputeTokenCost(Told)
        /\ liveReceipt'.accuracy = "reconstructed" => "write" \in reported
        /\ liveReceipt'.transport_valid => identified /\ {"input", "output"} \subseteq reported
    BY <2>1
  <2>6. liveReceipt'.transport_valid => Whole'
    BY <2>1, <2>2 DEF LiveInv, Whole
  <2>3. ComputeTokenCost(Told)' = ComputeTokenCost(Told)
    BY <2>1 DEF Told
  <2>4. ReceiptTells'
    BY <2>1, <2>2, <2>3, <2>6 DEF LiveInv, ReceiptTells
  <2>5. LetThrough'
    BY <2>1 DEF LiveInv, LetThrough
  <2> QED
    BY <2>1, <2>4, <2>5, <2>6 DEF LiveInv
<1>6. CASE RecordFailure
  <2>1. /\ callPc = "failed" /\ callPc' = "write"
        /\ UNCHANGED <<signals, promptTokens, event, metered, reported, identified, onDisk, callExit, guardVars>>
        /\ liveReceipt'.billing = ClassifyError(event).billing
        /\ liveReceipt'.retryable = ClassifyError(event).retryable
        /\ liveReceipt'.transport_valid = FALSE
    BY <1>6 DEF RecordFailure
  <2>2. ReceiptTells'
    BY <2>1 DEF LiveInv, ReceiptTells
  <2> QED
    BY <2>1, <2>2 DEF LiveInv, LetThrough, guardVars
<1>7. CASE WriteLiveReceipt
  <2>1. /\ callPc = "write" /\ callPc' = "ended" /\ (callExit' = 1 \/ onDisk')
        /\ callExit' = 0 => onDisk' /\ liveReceipt.transport_valid
        /\ UNCHANGED <<signals, promptTokens, event, metered, reported, identified, liveReceipt, guardVars>>
    BY <1>7 DEF WriteLiveReceipt, Exits
  <2> QED
    BY <2>1 DEF LiveInv, ReceiptTells, LetThrough, Whole, guardVars, Told
<1>9. CASE KillCall
  <2>1. /\ callPc # "ended" /\ callPc' = "ended" /\ callExit' = 137
        /\ metered' \in {metered} \cup Usages
        /\ callPc # "send" => metered' = metered
        /\ UNCHANGED <<signals, promptTokens, event, reported, identified, liveReceipt, onDisk, guardVars>>
    BY <1>9 DEF KillCall, Exits, Killed
  <2>2. metered' # NoUsage => LetThrough'
    BY <2>1 DEF LiveInv, LetThrough, guardVars
  <2>3. ReceiptTells'
    <3>1. CASE callPc = "send"
      BY <2>1, <3>1 DEF LiveInv, ReceiptTells
    <3>2. CASE callPc # "send"
      BY <2>1, <3>2 DEF LiveInv, ReceiptTells, Whole, Told
    <3> QED
      BY <3>1, <3>2
  <2> QED
    BY <2>1, <2>2, <2>3 DEF LiveInv, Killed
<1>8. CASE UNCHANGED <<liveVars, guardVars>>
  BY <1>8 DEF LiveInv, ReceiptTells, LetThrough, Whole, liveVars, guardVars, Told
<1> QED
  BY <1>1, <1>2, <1>3, <1>4, <1>5, <1>6, <1>7, <1>8, <1>9 DEF LiveNext

LEMMA ReceiptIsTrue == ASSUME LiveInv PROVE LiveReceiptIsTrue
<1>1. Bill > 0 => metered # NoUsage
  BY DEF Bill
<1>2. UncertainIsNotRetried
  <2> SUFFICES ASSUME liveReceipt # NoReceipt, Bill > 0,
                      liveReceipt.billing = "not_incurred" \/ liveReceipt.retryable
               PROVE  event \in {"reset", "server_error"}
    BY DEF UncertainIsNotRetried
  <2>1. /\ event \in Ambiguous
        /\ liveReceipt.billing = ClassifyError(event).billing
        /\ liveReceipt.retryable = ClassifyError(event).retryable
    BY <1>1 DEF LiveInv, ReceiptTells
  <2> QED
    BY <2>1, UncertainStaysOpen DEF Ambiguous
<1>3. CostIsReconstructed
  <2> SUFFICES ASSUME liveReceipt # NoReceipt, liveReceipt.transport_valid
               PROVE  /\ liveReceipt.accuracy = "reconstructed" => liveReceipt.cost >= Bill
                      /\ reported = Classes => liveReceipt.cost = Bill
                      /\ liveReceipt.cost >= Bill - metered.write * Rates["long"].write
    BY DEF CostIsReconstructed
  <2>1. /\ metered \in Usages /\ reported \in SUBSET Classes
        /\ liveReceipt.cost = ComputeTokenCost(Told)
        /\ liveReceipt.accuracy = "reconstructed" => "write" \in reported
        /\ {"input", "output"} \subseteq reported
    BY DEF LiveInv, ReceiptTells, Whole
  <2> QED
    BY <2>1, ToldCosts
<1>4. EstimateIsPessimistic
  BY EstimateCovers DEF LiveInv
<1>5. callPc \in {"gate", "reserve", "send", "failed", "answered", "write", "ended"}
  BY DEF LiveInv
<1>6. Bill > 0 => LetThrough
  BY <1>1, <1>5 DEF LiveInv
<1>7. callPc = "ended" /\ Bill > 0 => callExit \in {1, Killed} \/ onDisk
  BY <1>1 DEF LiveInv
<1>8. callExit = 0 => onDisk /\ Whole
  BY DEF LiveInv
<1> QED
  BY <1>2, <1>3, <1>4, <1>6, <1>7, <1>8 DEF LiveReceiptIsTrue, LetThrough, Whole

(* For any prices, threshold, limits and usage, and whichever counts and   *)
(* id an answer has: a receipt of a paid call is true of it but for a      *)
(* request that a broken connection or a failed server lost after it was   *)
(* metered (AmbiguousIsNotRetryable is false of those), the reservation    *)
(* covers what it was taken for, and a charged request had the operator's  *)
(* leave and leaves a receipt unless the disk refused it or the process    *)
(* was killed (live-smoke.mjs:91-223).                                     *)
THEOREM ReceiptsAreTrue == LiveSpec => []LiveReceiptIsTrue
<1>1. LiveInv /\ [LiveNext]_<<liveVars, guardVars>> => LiveInv'
  BY LiveStep
<1>2. LiveInv => LiveReceiptIsTrue
  BY ReceiptIsTrue
<1> QED
  BY <1>1, <1>2, LiveStarts, PTL DEF LiveSpec
=============================================================================
