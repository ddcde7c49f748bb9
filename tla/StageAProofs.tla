---------------------------- MODULE StageAProofs -----------------------------
(***************************************************************************)
(* Theorems about StageA for every schedule, every set of tasks and arms,  *)
(* every limit and every timeout.  The inductive invariant says what the   *)
(* loop holds at each point besides its receipts: money that is paid and   *)
(* not yet on one, and an evaluator whose exit code means what its suite   *)
(* did.  Then two theorems about the freeze that Stage A runs under.       *)
(*                                                                         *)
(* The change set of an answer, for every tree and every set of links: the *)
(* target of a write is resolved once, before the write, so the invariant  *)
(* says that a tree only grows in ways that leave paths leading where they *)
(* led.  Below the deepest name that exists there is at most a link to     *)
(* what is not there, which only the last name of a path may be.           *)
(***************************************************************************)
EXTENDS StageA, StudyFreeze, ChangeSet, InductionLemmas

Active == {"asked", "charged", "materialize", "copying", "evaluating"}

MoneyAccounted ==
  /\ est <= MaxRequest
  /\ cost <= est + Overrun
  /\ pc \in {"next", "asked", "summing", "summarized"} => cost = 0
  /\ SpentIsReceipted

CellsInOrder ==
  /\ pc \in Active => cell <= Len(Order)
  /\ ReceiptsFollowSchedule

(* A suite that has ended, by itself or not.                               *)
Endings == SuiteEndings \cup {"unspawnable"}

(* What the evaluator's state and exit code say of its suite.              *)
EvaluatorSays ==
  /\ Alive => pc \in {"evaluating", "crashed"}
  /\ evaluator.pc = "done" => pc \in {"evaluating", "crashed", "thrown"}
  /\ evaluator.pc = "setup" => evaluator.suite = "none"
  /\ evaluator.pc = "testing" => evaluator.suite = "running"
  /\ evaluator.pc = "closing" => evaluator.suite \in Endings
  /\ evaluator.pc \in {"setup", "testing"} => ~evaluator.timedOut
  /\ pc = "evaluating" /\ evaluator.suite = "passed" => answer /\ workspace # "torn"

CodeTells ==
  evaluator.pc \in {"removing", "done"} =>
    /\ evaluator.code = 0 => evaluator.suite = "passed"
    /\ V2 /\ evaluator.code \in {0, 17} =>
         ~evaluator.timedOut /\ evaluator.suite \in {"passed", "failed", "unran"}

SummaryIsLast == summary # "none" => pc = "summarized"

(* The loop ends with a refused budget.                                    *)
RefusalIsLast ==
  \A i \in 1..Len(attempts) :
    attempts[i].status = "budget_refused" =>
      i = Len(attempts) /\ pc \in {"summing", "summarized"}

(* From the question for its status to the copy the worktree is clean, but *)
(* for the operator.                                                       *)
CopiedClean ==
  /\ pc = "copying" => disturbed \/ worktree[TaskOf(cell)] = "clean"
  /\ ScoredOnBase

VerdictsEarned ==
  SuccessIsRepair /\ AttributableIsEarned /\ RefusalIsLast /\ ContinuesOnEvidence

IInv ==
  /\ TypeOK
  /\ CellsInOrder
  /\ MoneyAccounted
  /\ EvaluatorSays
  /\ CodeTells
  /\ SummaryIsLast
  /\ VerdictsEarned
  /\ CopiedClean
  /\ ClassifiedCleansUp

-----------------------------------------------------------------------------
(* Sums are cardinalities: an amount n on receipt c is the set of its      *)
(* units <<c, 1>>, ..., <<c, n>>.                                          *)
UnitsOf(c, n) == {c} \X (1..n)

LEMMA UnitsOfCount ==
  ASSUME NEW c, NEW n \in Nat
  PROVE  IsFiniteSet(UnitsOf(c, n)) /\ Cardinality(UnitsOf(c, n)) = n
<1>1. IsFiniteSet({c}) /\ Cardinality({c}) = 1
  BY FS_Singleton
<1>2. IsFiniteSet(1..n) /\ Cardinality(1..n) = n
  BY FS_Interval
<1>3. IsFiniteSet({c} \X (1..n)) /\ Cardinality({c} \X (1..n)) = 1 * n
  BY <1>1, <1>2, FS_Product
<1> QED
  BY <1>3 DEF UnitsOf

LEMMA ReceiptedFinite ==
  ASSUME TypeOK
  PROVE  IsFiniteSet(ReceiptedUnits) /\ Cardinality(ReceiptedUnits) \in Nat
<1>1. Len(attempts) \in Nat /\ MaxRequest + Overrun \in Nat
  BY LimitsAssumption, OverrunAssumption DEF TypeOK
<1>2. IsFiniteSet(1..Len(attempts)) /\ IsFiniteSet(1..(MaxRequest + Overrun))
  BY <1>1, FS_Interval
<1>3. IsFiniteSet((1..Len(attempts)) \X (1..(MaxRequest + Overrun)))
  BY <1>2, FS_Product
<1> QED
  BY <1>3, FS_Subset, FS_CardinalityType DEF ReceiptedUnits

(* One more receipt adds its cost to the sum, and nothing else.            *)
LEMMA AppendReceipt ==
  ASSUME TypeOK, NEW r \in Attempts, r.cost <= MaxRequest + Overrun,
         attempts' = Append(attempts, r)
  PROVE  Cardinality(ReceiptedUnits') = Cardinality(ReceiptedUnits) + r.cost
<1> DEFINE n == Len(attempts)
<1>1. /\ attempts \in Seq(Attempts) /\ n \in Nat /\ r.cost \in Nat
      /\ MaxRequest + Overrun \in Nat
  BY LimitsAssumption, OverrunAssumption DEF TypeOK, Attempts
<1>2. /\ Len(attempts') = n + 1 /\ attempts'[n + 1] = r
      /\ \A i \in 1..n : attempts'[i] = attempts[i]
  BY <1>1
<1>3. 1..(n + 1) = (1..n) \cup {n + 1}
  BY <1>1
<1>4. ReceiptedUnits' = ReceiptedUnits \cup UnitsOf(n + 1, r.cost)
  BY <1>1, <1>2, <1>3 DEF ReceiptedUnits, UnitsOf
<1>5. ReceiptedUnits \cap UnitsOf(n + 1, r.cost) = {}
  BY <1>1 DEF ReceiptedUnits, UnitsOf
<1>6. Cardinality(ReceiptedUnits \cup UnitsOf(n + 1, r.cost))
        = Cardinality(ReceiptedUnits) + Cardinality(UnitsOf(n + 1, r.cost))
            - Cardinality(ReceiptedUnits \cap UnitsOf(n + 1, r.cost))
  BY <1>1, ReceiptedFinite, UnitsOfCount, FS_Union
<1>7. Cardinality(ReceiptedUnits \cap UnitsOf(n + 1, r.cost)) = 0
  BY <1>5, FS_EmptySet
<1> QED
  BY <1>1, <1>4, <1>6, <1>7, ReceiptedFinite, UnitsOfCount

(* Two tasks are enough, however many there are.                           *)
LEMMA TwoOf ==
  ASSUME NEW S, IsFiniteSet(S), Cardinality(S) >= 2
  PROVE  \E x, y \in S : x # y
<1>1. S # {}
  BY FS_EmptySet
<1>2. PICK x \in S : TRUE
  BY <1>1
<1>3. IsFiniteSet(S \ {x}) /\ Cardinality(S \ {x}) = Cardinality(S) - 1
  BY FS_RemoveElement
<1>4. S \ {x} # {}
  BY <1>3, FS_EmptySet, FS_CardinalityType
<1> QED
  BY <1>2, <1>4
-----------------------------------------------------------------------------
LEMMA EvaluatorsTyped == NoEvaluator \in Evaluators /\ Spawned \in Evaluators
<1>1. NoEvaluator \in Evaluators
  BY TimeoutAssumption DEF NoEvaluator, Evaluators, Suites, ExitCodes, NullCode
<1>2. Timeout \in 0..Timeout
  BY TimeoutAssumption
<1>3. [NoEvaluator EXCEPT !.pc = "setup", !.left = Timeout] \in Evaluators
  BY <1>1, <1>2 DEF Evaluators
<1> QED
  BY <1>1, <1>3 DEF Spawned

LEMMA ElementOf == ASSUME NEW S, NEW s \in Seq(S), NEW i \in 1..Len(s) PROVE s[i] \in S
OBVIOUS

(* Every cell of the schedule has a task and an arm.                       *)
LEMMA CellTyped ==
  ASSUME NEW c \in 1..Len(Order)
  PROVE  TaskOf(c) \in Tasks /\ ArmOf(c) \in Arms
<1>1. Order[c] \in [task : Tasks, arm : Arms]
  BY OrderAssumption, ElementOf
<1> QED
  BY <1>1 DEF TaskOf, ArmOf

LEMMA NoReceipts == <<>> \in Seq(Attempts)
OBVIOUS

LEMMA InitIInv == Init => IInv
<1> SUFFICES ASSUME Init PROVE IInv
  OBVIOUS
<1>1. evaluator \in Evaluators
  BY EvaluatorsTyped DEF Init
<1>2. Len(Order) \in Nat
  BY OrderAssumption
<1>3. requests \in 0..MaxRequests /\ spent \in Nat /\ reserved \in Nat
  BY LimitsAssumption DEF Init, GuardInit
<1>4. TypeOK
  <2>1. 1 \in 1..(Len(Order) + 1) /\ "next" \in {"next"} \cup Ended
    BY <1>2
  <2> QED
    BY <1>1, <1>3, <2>1, NoReceipts DEF Init, TypeOK
<1>5. /\ attempts = <<>> /\ pc = "next" /\ cell = 1 /\ cost = 0 /\ est = 0 /\ spent = 0
      /\ evaluator = NoEvaluator /\ summary = "none"
  BY DEF Init, GuardInit
<1>6. CellsInOrder
  BY <1>5 DEF CellsInOrder, ReceiptsFollowSchedule, Active
<1>7. MoneyAccounted
  <2>1. ReceiptedUnits = {}
    BY <1>5 DEF ReceiptedUnits
  <2>2. Cardinality(ReceiptedUnits) = 0
    BY <2>1, FS_EmptySet
  <2> QED
    BY <1>5, <2>2, LimitsAssumption, OverrunAssumption
       DEF MoneyAccounted, SpentIsReceipted, InHand
<1>8. EvaluatorSays /\ CodeTells /\ ClassifiedCleansUp
  BY <1>5 DEF EvaluatorSays, CodeTells, ClassifiedCleansUp, Alive, NoEvaluator
<1>9. VerdictsEarned
  BY <1>5 DEF VerdictsEarned, SuccessIsRepair, AttributableIsEarned, RefusalIsLast,
              ContinuesOnEvidence
<1>10. CopiedClean
  BY <1>5 DEF CopiedClean, ScoredOnBase
<1> QED
  BY <1>4, <1>5, <1>6, <1>7, <1>8, <1>9, <1>10 DEF IInv, SummaryIsLast

(* Before the end there is no summary, and so no verdict to go on.         *)
LEMMA NoSummaryYet ==
  ASSUME IInv, pc \notin Ended, summary' = summary
  PROVE  SummaryIsLast' /\ ContinuesOnEvidence'
<1>1. summary = "none"
  BY DEF IInv, SummaryIsLast, Ended
<1> QED
  BY <1>1 DEF SummaryIsLast, ContinuesOnEvidence

(* What reserve and settle do to the guard.                                *)
LEMMA GuardTyped ==
  ASSUME TypeOK, NEW e \in Nat, NEW c \in Nat,
         \/ Reserve(e) /\ spent' = spent
         \/ Settle(e, c) /\ spent' = spent + c
         \/ UNCHANGED guardVars
  PROVE  requests' \in 0..MaxRequests /\ spent' \in Nat /\ reserved' \in Nat
<1>1. /\ requests \in 0..MaxRequests /\ spent \in Nat /\ reserved \in Nat
      /\ MaxRequests \in Nat
  BY LimitsAssumption DEF TypeOK
<1>2. CASE Reserve(e)
  BY <1>1, <1>2 DEF Reserve, Admits
<1>3. CASE Settle(e, c)
  BY <1>1, <1>3 DEF Settle, ReleasedFrom
<1>4. CASE UNCHANGED guardVars
  BY <1>1, <1>4 DEF guardVars
<1> QED
  BY <1>2, <1>3, <1>4

(* An estimate the guard admits, and which of them may be asked for.       *)
LEMMA EstimateTyped ==
  ASSUME NEW e \in Reservations
  PROVE  e \in Nat
BY EstimatesAssumption DEF Reservations

-----------------------------------------------------------------------------
(* The script ends without a summary.                                      *)
LEMMA LeaveIInv ==
  ASSUME IInv, pc \notin Ended,
         NEW how \in {"thrown", "crashed"}, Exit(how),
         requests' \in 0..MaxRequests, spent' \in Nat, reserved' \in Nat,
         workspace' \in {workspace, "none"},
         Alive => how = "crashed"
  PROVE  IInv'
<1>0. /\ attempts' = <<>> /\ pc' = how /\ est' = 0 /\ cost' = 0 /\ answer' = FALSE
      /\ UNCHANGED <<mode, cell, summary, evaluator, worktree, disturbed>>
  BY DEF Exit, treeVars
<1>1. TypeOK'
  BY <1>0, NoReceipts DEF IInv, TypeOK, Ended
<1>3. CellsInOrder'
  BY <1>0 DEF CellsInOrder, ReceiptsFollowSchedule, Active
<1>4. MoneyAccounted'
  BY <1>0, LimitsAssumption, OverrunAssumption DEF MoneyAccounted, SpentIsReceipted
<1>5. EvaluatorSays' /\ CodeTells' /\ ClassifiedCleansUp'
  BY <1>0 DEF IInv, EvaluatorSays, CodeTells, ClassifiedCleansUp, V2, Alive
<1>6. SuccessIsRepair' /\ AttributableIsEarned' /\ RefusalIsLast'
  BY <1>0 DEF SuccessIsRepair, AttributableIsEarned, RefusalIsLast
<1>7. CopiedClean'
  BY <1>0 DEF CopiedClean, ScoredOnBase
<1> QED
  BY <1>0, <1>1, <1>3, <1>4, <1>5, <1>6, <1>7, NoSummaryYet DEF IInv, VerdictsEarned

LEMMA ExitIInv ==
  ASSUME IInv,
         \/ \E e \in Reservations : BeginFails(e)
         \/ RefuseWorktree \/ BodyFails \/ SummaryFails \/ Crash
  PROVE  IInv'
<1>1. /\ TypeOK /\ est \in Nat /\ cost \in Nat
      /\ requests \in 0..MaxRequests /\ spent \in Nat /\ reserved \in Nat
  BY DEF IInv, TypeOK
<1>2. CASE \E e \in Reservations : BeginFails(e)
  <2>1. PICK e \in Reservations : BeginFails(e)
    BY <1>2
  <2>2. requests' \in 0..MaxRequests /\ spent' \in Nat /\ reserved' \in Nat
    BY <1>1, <2>1, GuardTyped, EstimateTyped DEF BeginFails, Reserve, guardVars
  <2>3. ~Alive
    BY <2>1 DEF BeginFails, IInv, EvaluatorSays
  <2> QED
    BY <2>1, <2>2, <2>3, LeaveIInv DEF BeginFails, Ended
<1>3. CASE RefuseWorktree
  <2>1. ~Alive
    BY <1>3 DEF RefuseWorktree, IInv, EvaluatorSays
  <2> QED
    BY <1>1, <1>3, <2>1, LeaveIInv DEF RefuseWorktree, Ended, guardVars
<1>6. CASE BodyFails
  <2>1. requests' \in 0..MaxRequests /\ spent' \in Nat /\ reserved' \in Nat
    <3>1. CASE UNCHANGED guardVars
      BY <1>1, <3>1 DEF guardVars
    <3>2. ASSUME NEW paid \in {0, cost}, Settle(est, paid)
          PROVE  requests' \in 0..MaxRequests /\ spent' \in Nat /\ reserved' \in Nat
      <4>1. paid \in Nat /\ spent' = spent + paid
        BY <1>1, <3>2 DEF Settle
      <4> QED
        BY <1>1, <3>2, <4>1, GuardTyped
    <3> QED
      BY <1>6, <3>1, <3>2 DEF BodyFails
  <2>2. ~Alive /\ pc \notin Ended
    BY <1>6 DEF BodyFails, IInv, EvaluatorSays, Ended, Alive
  <2> QED
    BY <1>6, <2>1, <2>2, LeaveIInv DEF BodyFails
<1>4. CASE SummaryFails
  <2>1. ~Alive
    BY <1>4 DEF SummaryFails, IInv, EvaluatorSays
  <2> QED
    BY <1>1, <1>4, <2>1, LeaveIInv DEF SummaryFails, Ended, guardVars
<1>5. CASE Crash
  BY <1>1, <1>5, LeaveIInv DEF Crash, guardVars
<1> QED
  BY <1>2, <1>3, <1>4, <1>5, <1>6

-----------------------------------------------------------------------------
(* A step within a cell: the receipts and the evaluator's word stay.       *)
LEMMA WithinIInv ==
  ASSUME IInv, TypeOK', MoneyAccounted', EvaluatorSays', CodeTells', CopiedClean',
         pc \notin Ended, pc # "summing",
         UNCHANGED <<mode, cell, attempts, summary>>,
         pc # "next" \/ cell <= Len(Order), pc' \in Active,
         evaluator.pc # "done", evaluator'.pc # "done"
  PROVE  IInv'
<1>1. CellsInOrder'
  BY DEF IInv, CellsInOrder, ReceiptsFollowSchedule, Active, TypeOK, Ended
<1>2. SuccessIsRepair' /\ AttributableIsEarned'
  BY DEF IInv, VerdictsEarned, SuccessIsRepair, AttributableIsEarned, V2
<1>3. RefusalIsLast'
  BY DEF IInv, VerdictsEarned, RefusalIsLast, Ended
<1>4. ClassifiedCleansUp'
  BY DEF ClassifiedCleansUp
<1> QED
  BY <1>1, <1>2, <1>3, <1>4, NoSummaryYet DEF IInv, VerdictsEarned

(* Where no evaluator was spawned, nothing is said of one.                 *)
LEMMA NothingSpawned ==
  ASSUME IInv, pc \notin {"evaluating", "crashed", "thrown"}
  PROVE  evaluator.pc = "none"
<1>1. evaluator.pc \in {"none", "setup", "testing", "closing", "removing", "done"}
  BY DEF IInv, TypeOK, Evaluators
<1> QED
  BY <1>1 DEF IInv, EvaluatorSays, Alive

LEMMA NothingSaid ==
  ASSUME evaluator.pc = "none", evaluator' = evaluator, pc' # "evaluating"
  PROVE  EvaluatorSays' /\ CodeTells'
BY DEF EvaluatorSays, CodeTells, Alive

LEMMA BeginIInv == ASSUME IInv, NEW e \in Reservations, BeginCell(e) PROVE IInv'
<1>0. TypeOK /\ e \in Nat /\ pc = "next" /\ pc' = "asked" /\ cell <= Len(Order)
  BY EstimateTyped DEF IInv, BeginCell, More
<1>1. requests' \in 0..MaxRequests /\ spent' \in Nat /\ reserved' \in Nat
  BY <1>0, GuardTyped DEF BeginCell, Reserve
<1>2. TypeOK'
  BY <1>0, <1>1 DEF TypeOK, BeginCell, treeVars
<1>3. MoneyAccounted'
  <2>1. est' = e /\ e <= MaxRequest /\ cost' = cost /\ spent' = spent /\ attempts' = attempts
    BY DEF BeginCell, Reserve, Admits
  <2>2. ReceiptedUnits' = ReceiptedUnits
    BY <2>1 DEF ReceiptedUnits
  <2>3. cost = 0 /\ spent = Cardinality(ReceiptedUnits) + 0
    BY <1>0 DEF IInv, MoneyAccounted, SpentIsReceipted, InHand
  <2> QED
    BY <1>0, <2>1, <2>2, <2>3, OverrunAssumption DEF MoneyAccounted, SpentIsReceipted, InHand
<1>4. evaluator' = evaluator /\ evaluator.pc = "none"
  BY <1>0, NothingSpawned DEF BeginCell
<1>5. EvaluatorSays' /\ CodeTells' /\ CopiedClean'
  BY <1>0, <1>4, NothingSaid DEF CopiedClean, ScoredOnBase
<1> QED
  BY <1>0, <1>2, <1>3, <1>4, <1>5, WithinIInv DEF BeginCell, Active, Ended

LEMMA ChargeIInv == ASSUME IInv, NEW c \in 0..(est + Overrun), Charge(c) PROVE IInv'
<1>0. TypeOK /\ pc = "asked" /\ pc' = "charged" /\ c \in Nat /\ c <= est + Overrun
  BY OverrunAssumption DEF IInv, TypeOK, Charge
<1>1. TypeOK'
  BY <1>0 DEF TypeOK, Charge, treeVars, guardVars
<1>2. MoneyAccounted'
  <2>1. ReceiptedUnits' = ReceiptedUnits
    BY DEF Charge, ReceiptedUnits
  <2>2. spent = Cardinality(ReceiptedUnits) + 0 /\ est <= MaxRequest
    BY <1>0 DEF IInv, MoneyAccounted, SpentIsReceipted, InHand
  <2> QED
    BY <1>0, <2>1, <2>2 DEF Charge, guardVars, MoneyAccounted, SpentIsReceipted, InHand
<1>3. evaluator' = evaluator /\ evaluator.pc = "none"
  BY <1>0, NothingSpawned DEF Charge
<1>4. EvaluatorSays' /\ CodeTells' /\ CopiedClean'
  BY <1>0, <1>3, NothingSaid DEF CopiedClean, ScoredOnBase
<1> QED
  BY <1>0, <1>1, <1>2, <1>3, <1>4, WithinIInv DEF Charge, Active, Ended

(* Money is settled when the answer is there: it is in hand from then on.  *)
LEMMA AnsweredPays ==
  ASSUME IInv, Answered
  PROVE  /\ TypeOK /\ pc \in {"asked", "charged"}
         /\ requests' \in 0..MaxRequests /\ spent' \in Nat /\ reserved' \in Nat
         /\ spent' = Cardinality(ReceiptedUnits) + cost
<1>1. TypeOK /\ est \in Nat /\ cost \in Nat /\ Cardinality(ReceiptedUnits) \in Nat
  BY ReceiptedFinite DEF IInv, TypeOK
<1>2. CASE pc = "charged" /\ Settle(est, cost)
  <2>1. spent = Cardinality(ReceiptedUnits) + 0
    BY <1>2 DEF IInv, MoneyAccounted, SpentIsReceipted, InHand
  <2>2. spent' = spent + cost
    BY <1>2 DEF Settle
  <2> QED
    BY <1>1, <1>2, <2>1, <2>2, GuardTyped
<1>3. CASE pc = "asked" /\ UNCHANGED guardVars
  <2>1. spent = Cardinality(ReceiptedUnits) + 0 /\ cost = 0
    BY <1>3 DEF IInv, MoneyAccounted, SpentIsReceipted, InHand
  <2>2. spent' = spent
    BY <1>3 DEF guardVars
  <2> QED
    BY <1>1, <1>3, <2>1, <2>2 DEF guardVars, TypeOK
<1> QED
  BY <1>2, <1>3 DEF Answered

LEMMA AcceptIInv == ASSUME IInv, NEW repairs \in BOOLEAN, AcceptOutput(repairs) PROVE IInv'
<1>0. /\ TypeOK /\ pc \in {"asked", "charged"} /\ pc' = "materialize"
      /\ requests' \in 0..MaxRequests /\ spent' \in Nat /\ reserved' \in Nat
      /\ spent' = Cardinality(ReceiptedUnits) + cost
  BY AnsweredPays DEF AcceptOutput
<1>1. TypeOK'
  BY <1>0 DEF TypeOK, AcceptOutput, treeVars
<1>2. MoneyAccounted'
  <2>1. ReceiptedUnits' = ReceiptedUnits
    BY DEF AcceptOutput, ReceiptedUnits
  <2> QED
    BY <1>0, <2>1 DEF IInv, MoneyAccounted, SpentIsReceipted, InHand, AcceptOutput
<1>3. evaluator' = evaluator /\ evaluator.pc = "none"
  BY <1>0, NothingSpawned DEF AcceptOutput
<1>4. EvaluatorSays' /\ CodeTells' /\ CopiedClean'
  BY <1>0, <1>3, NothingSaid DEF CopiedClean, ScoredOnBase
<1> QED
  BY <1>0, <1>1, <1>2, <1>3, <1>4, WithinIInv DEF AcceptOutput, Active, Ended

(* What the copy is of follows from what the worktree was found to be.     *)
LEMMA MaterializeIInv == ASSUME IInv, CheckWorktree \/ CopyAndSpawn PROVE IInv'
<1>0. TypeOK /\ pc \in {"materialize", "copying"} /\ pc' \in {"copying", "evaluating"}
      /\ evaluator.pc = "none"
  BY NothingSpawned DEF IInv, CheckWorktree, CopyAndSpawn
<1>1. cell \in 1..Len(Order) /\ TaskOf(cell) \in Tasks
  <2>1. cell \in 1..Len(Order)
    BY <1>0, OrderAssumption DEF IInv, CellsInOrder, Active, TypeOK
  <2> QED
    BY <2>1, CellTyped
<1>2. /\ ReceiptedUnits' = ReceiptedUnits
      /\ UNCHANGED <<requests, spent, reserved, mode, cell, est, cost, answer, attempts, summary,
                     worktree, disturbed>>
  BY DEF CheckWorktree, CopyAndSpawn, ReceiptedUnits, guardVars, treeVars
<1>3. MoneyAccounted'
  BY <1>0, <1>2 DEF IInv, MoneyAccounted, SpentIsReceipted, InHand
<1>4. CASE CheckWorktree
  <2>1. /\ pc' = "copying" /\ UNCHANGED <<evaluator, workspace>>
        /\ worktree[TaskOf(cell)] = "clean"
    BY <1>4 DEF CheckWorktree
  <2>2. TypeOK'
    BY <1>0, <1>2, <2>1 DEF TypeOK
  <2>3. EvaluatorSays' /\ CodeTells'
    BY <1>0, <2>1, NothingSaid
  <2>4. CopiedClean'
    BY <1>2, <2>1 DEF CopiedClean, ScoredOnBase, TaskOf
  <2> QED
    BY <1>0, <1>2, <1>3, <2>1, <2>2, <2>3, <2>4, WithinIInv DEF Active, Ended
<1>5. CASE CopyAndSpawn
  <2>1. /\ pc = "copying" /\ pc' = "evaluating" /\ evaluator' = Spawned
        /\ workspace' = [clean |-> "base", dirty |-> "tainted", absent |-> "torn"]
                          [worktree[TaskOf(cell)]]
    BY <1>5 DEF CopyAndSpawn
  <2>2. /\ Spawned \in Evaluators /\ Spawned.pc = "setup" /\ Spawned.suite = "none"
        /\ Spawned.timedOut = FALSE
    BY EvaluatorsTyped DEF Spawned, NoEvaluator
  <2>3. worktree[TaskOf(cell)] \in {"clean", "dirty", "absent"}
    BY <1>0, <1>1 DEF TypeOK
  <2>4. /\ workspace' \in {"base", "tainted", "torn"}
        /\ worktree[TaskOf(cell)] = "clean" => workspace' = "base"
    BY <2>1, <2>3
  <2>5. TypeOK'
    BY <1>0, <1>2, <2>1, <2>2, <2>4 DEF TypeOK
  <2>6. EvaluatorSays' /\ CodeTells'
    BY <2>1, <2>2 DEF EvaluatorSays, CodeTells, Alive
  <2>7. CopiedClean'
    BY <1>2, <2>1, <2>4 DEF IInv, CopiedClean, ScoredOnBase
  <2> QED
    BY <1>0, <1>2, <1>3, <2>1, <2>2, <2>5, <2>6, <2>7, WithinIInv DEF Active, Ended
<1> QED
  BY <1>4, <1>5
-----------------------------------------------------------------------------
(***************************************************************************)
(* The evaluator.                                                          *)
(***************************************************************************)

(* An evaluator that is gone: what it was told of its suite stays.         *)
LEMMA ExitTells ==
  ASSUME evaluator \in Evaluators, NEW code \in ExitCodes,
         NEW leaves \in SUBSET {"scratch", "suite"}, Exits(code, leaves)
  PROVE  /\ evaluator' \in Evaluators /\ evaluator'.pc = "done"
         /\ evaluator'.suite = evaluator.suite /\ evaluator'.timedOut = evaluator.timedOut
         /\ evaluator'.code = code /\ evaluator'.leaves = leaves
BY EvaluatorsTyped DEF Exits, Evaluators

(* What the classification and v1's last line say of a suite that ended.   *)
LEMMA ClassificationTells ==
  ASSUME NEW suite \in Endings, NEW timedOut \in BOOLEAN
  PROVE  LET code == ClassifyChildResult(suite, timedOut)
         IN  /\ code \in ExitCodes
             /\ code = 0 => suite = "passed"
             /\ code \in {0, 17} => ~timedOut /\ suite \in {"passed", "failed", "unran"}
<1>1. suite \in {"passed", "failed", "unran", "signalled", "unspawnable"}
  BY DEF Endings, SuiteEndings
<1>2. CASE suite = "unspawnable"
  BY <1>2 DEF ClassifyChildResult, ExitCodes
<1>3. CASE suite # "unspawnable" /\ timedOut
  BY <1>3 DEF ClassifyChildResult, ExitCodes
<1>4. CASE suite = "signalled" /\ ~timedOut
  BY <1>4 DEF ClassifyChildResult, ExitCodes
<1>5. CASE suite = "passed" /\ ~timedOut
  BY <1>5 DEF ClassifyChildResult, ExitCodes
<1>6. CASE suite \in {"failed", "unran"} /\ ~timedOut
  BY <1>6 DEF ClassifyChildResult, ExitCodes
<1> QED
  BY <1>1, <1>2, <1>3, <1>4, <1>5, <1>6

LEMMA LastLineTells ==
  ASSUME NEW suite
  PROVE  ExitOfV1(suite) \in ExitCodes /\ (ExitOfV1(suite) = 0 => suite = "passed")
BY DEF ExitOfV1, ExitCodes

(* What any step of the evaluator makes of it.                             *)
EvaluatorStep ==
  /\ Alive /\ evaluator' \in Evaluators
  /\ evaluator'.pc \in {"setup", "testing", "closing", "removing", "done"}
  /\ evaluator'.pc = "setup" => evaluator'.suite = "none"
  /\ evaluator'.pc = "testing" => evaluator'.suite = "running"
  /\ evaluator'.pc = "closing" => evaluator'.suite \in Endings
  /\ evaluator'.pc \in {"setup", "testing"} => ~evaluator'.timedOut
  /\ evaluator'.suite = "passed" =>
       evaluator.suite = "passed" \/ (answer /\ workspace # "torn")
  /\ evaluator'.pc \in {"removing", "done"} =>
       /\ evaluator'.code = 0 => evaluator'.suite = "passed"
       /\ V2 /\ evaluator'.code \in {0, 17} =>
            ~evaluator'.timedOut /\ evaluator'.suite \in {"passed", "failed", "unran"}
  /\ V2 /\ evaluator'.pc = "done" /\ evaluator'.leaves # {} => evaluator'.code \in {NullCode, 1}

LEMMA EvaluatorMoves == ASSUME IInv, Evaluate PROVE EvaluatorStep
<1>0. /\ evaluator \in Evaluators /\ V2 \in BOOLEAN /\ EvaluatorSays /\ CodeTells
      /\ evaluator.timedOut \in BOOLEAN /\ evaluator.suite \in Suites
      /\ evaluator.left \in 0..Timeout /\ evaluator.suiteLeft \in 0..Timeout
  BY DEF IInv, TypeOK, V2, Evaluators
<1>1. CASE StartSuite
  <2>1. /\ evaluator' = [evaluator EXCEPT !.pc = "testing", !.suite = "running",
                                          !.suiteLeft = Timeout]
        /\ evaluator.pc = "setup"
    BY <1>1 DEF StartSuite
  <2>2. Timeout \in 0..Timeout /\ "running" \in Suites
    BY TimeoutAssumption DEF Suites
  <2>3. /\ evaluator' \in Evaluators /\ evaluator'.pc = "testing" /\ evaluator'.suite = "running"
        /\ evaluator'.timedOut = evaluator.timedOut
    BY <1>0, <2>1, <2>2 DEF Evaluators
  <2> QED
    BY <1>0, <2>1, <2>3 DEF EvaluatorStep, Alive, EvaluatorSays
<1>2. CASE NeverSetUp
  <2>1. PICK code \in {-1, 1} : Exits(code, {})
    BY <1>2 DEF NeverSetUp
  <2>2. code \in ExitCodes /\ {} \in SUBSET {"scratch", "suite"} /\ evaluator.pc = "setup"
    BY <1>2 DEF ExitCodes, NeverSetUp
  <2> QED
    BY <1>0, <2>1, <2>2, ExitTells DEF EvaluatorStep, Alive, EvaluatorSays
<1>3. CASE SetupFails(V2)
  <2>1. PICK code \in {1, 72} : evaluator' = [evaluator EXCEPT !.pc = "removing", !.code = code]
    BY <1>3 DEF SetupFails
  <2>2. code \in ExitCodes /\ evaluator.pc = "setup"
    BY <1>3 DEF ExitCodes, SetupFails
  <2>3. /\ evaluator' \in Evaluators /\ evaluator'.pc = "removing" /\ evaluator'.code = code
        /\ evaluator'.suite = evaluator.suite
    BY <1>0, <2>1, <2>2 DEF Evaluators
  <2> QED
    BY <1>0, <2>2, <2>3 DEF EvaluatorStep, Alive, EvaluatorSays
<1>4. CASE SuiteUnspawnable
  <2>1. /\ evaluator' = [evaluator EXCEPT !.pc = "closing", !.suite = "unspawnable"]
        /\ evaluator.pc = "setup" /\ "unspawnable" \in Suites
    BY <1>4 DEF SuiteUnspawnable, Suites
  <2>2. /\ evaluator' \in Evaluators /\ evaluator'.pc = "closing"
        /\ evaluator'.suite = "unspawnable"
    BY <1>0, <2>1 DEF Evaluators
  <2> QED
    BY <2>1, <2>2 DEF EvaluatorStep, Alive, Endings
<1>5. ASSUME NEW suite \in SuiteEndings, SuiteMayEnd(suite), SuiteEnds(suite)
      PROVE  EvaluatorStep
  <2>1. /\ evaluator' = [evaluator EXCEPT !.pc = "closing", !.suite = suite]
        /\ evaluator.pc = "testing" /\ suite \in Suites /\ suite \in Endings
    BY <1>5 DEF SuiteEnds, Suites, Endings
  <2>2. evaluator' \in Evaluators /\ evaluator'.pc = "closing" /\ evaluator'.suite = suite
    BY <1>0, <2>1 DEF Evaluators
  <2> QED
    BY <1>5, <2>1, <2>2 DEF EvaluatorStep, Alive, SuiteMayEnd
<1>6. CASE SuiteTimesOut(V2)
  <2>1. /\ evaluator.pc \in {"testing", "closing"}
        /\ evaluator' = [evaluator EXCEPT
             !.pc = "closing", !.timedOut = V2,
             !.suite = IF evaluator.pc = "testing" THEN "signalled" ELSE evaluator.suite]
    BY <1>6 DEF SuiteTimesOut
  <2>2. "signalled" \in Suites /\ "signalled" \in Endings
    BY DEF Suites, Endings, SuiteEndings
  <2>3. /\ evaluator' \in Evaluators /\ evaluator'.pc = "closing"
        /\ evaluator'.suite = IF evaluator.pc = "testing" THEN "signalled" ELSE evaluator.suite
    BY <1>0, <2>1, <2>2 DEF Evaluators
  <2> QED
    BY <1>0, <2>1, <2>2, <2>3 DEF EvaluatorStep, Alive, EvaluatorSays
<1>7. CASE Closes(V2)
  <2>0. evaluator.pc = "closing" /\ evaluator.suite \in Endings
    BY <1>0, <1>7 DEF Closes, EvaluatorSays
  <2>1. CASE V2
    <3> DEFINE code == ClassifyChildResult(evaluator.suite, evaluator.timedOut)
    <3>1. /\ code \in ExitCodes
          /\ code = 0 => evaluator.suite = "passed"
          /\ code \in {0, 17} =>
               ~evaluator.timedOut /\ evaluator.suite \in {"passed", "failed", "unran"}
      BY <1>0, <2>0, ClassificationTells
    <3>2. evaluator' = [evaluator EXCEPT !.pc = "removing", !.code = code]
      BY <1>7, <2>1 DEF Closes
    <3> HIDE DEF code
    <3>3. /\ evaluator' \in Evaluators /\ evaluator'.pc = "removing" /\ evaluator'.code = code
          /\ evaluator'.suite = evaluator.suite /\ evaluator'.timedOut = evaluator.timedOut
      BY <1>0, <3>1, <3>2 DEF Evaluators
    <3> QED
      BY <2>0, <3>1, <3>3 DEF EvaluatorStep, Alive
  <2>2. CASE ~V2
    <3>1. Exits(ExitOfV1(evaluator.suite), {"scratch"})
      BY <1>7, <2>2 DEF Closes
    <3>2. /\ ExitOfV1(evaluator.suite) \in ExitCodes
          /\ {"scratch"} \in SUBSET {"scratch", "suite"}
          /\ ExitOfV1(evaluator.suite) = 0 => evaluator.suite = "passed"
      BY LastLineTells
    <3> QED
      BY <1>0, <2>0, <2>2, <3>1, <3>2, ExitTells DEF EvaluatorStep, Alive
  <2> QED
    BY <1>0, <2>1, <2>2
<1>8. CASE Removes
  <2>1. /\ evaluator.pc = "removing" /\ Exits(evaluator.code, {})
        /\ evaluator.code \in ExitCodes /\ {} \in SUBSET {"scratch", "suite"}
    BY <1>0, <1>8 DEF Removes, Evaluators
  <2>2. /\ evaluator' \in Evaluators /\ evaluator'.pc = "done"
        /\ evaluator'.suite = evaluator.suite /\ evaluator'.timedOut = evaluator.timedOut
        /\ evaluator'.code = evaluator.code /\ evaluator'.leaves = {}
    BY <1>0, <2>1, ExitTells
  <2> QED
    BY <1>0, <2>1, <2>2 DEF EvaluatorStep, Alive, CodeTells
<1>9. CASE RemovalFails
  <2>1. /\ evaluator.pc = "removing" /\ Exits(1, {"scratch"})
        /\ 1 \in ExitCodes /\ {"scratch"} \in SUBSET {"scratch", "suite"}
    BY <1>9 DEF RemovalFails, ExitCodes
  <2>2. /\ evaluator' \in Evaluators /\ evaluator'.pc = "done"
        /\ evaluator'.suite = evaluator.suite /\ evaluator'.code = 1
    BY <1>0, <2>1, ExitTells
  <2> QED
    BY <2>1, <2>2 DEF EvaluatorStep, Alive
<1>10. CASE EvaluatorTimesOut
  <2>1. PICK leaves \in Orphans : Exits(NullCode, leaves)
    BY <1>10 DEF EvaluatorTimesOut
  <2>2. leaves \in SUBSET {"scratch", "suite"} /\ NullCode \in ExitCodes /\ Alive
    BY <1>10, <2>1 DEF Orphans, ExitCodes, EvaluatorTimesOut
  <2>3. /\ evaluator' \in Evaluators /\ evaluator'.pc = "done"
        /\ evaluator'.suite = evaluator.suite /\ evaluator'.code = NullCode
    BY <1>0, <2>1, <2>2, ExitTells
  <2> QED
    BY <2>2, <2>3 DEF EvaluatorStep, NullCode
<1>11. CASE Tick
  <2>1. /\ evaluator' = [evaluator EXCEPT !.left = Earlier(evaluator.left),
                                          !.suiteLeft = Earlier(evaluator.suiteLeft)]
        /\ Alive
    BY <1>11 DEF Tick
  <2>2. \A left \in 0..Timeout : Earlier(left) \in 0..Timeout
    BY TimeoutAssumption DEF Earlier
  <2>3. /\ evaluator' \in Evaluators /\ evaluator'.pc = evaluator.pc
        /\ evaluator'.suite = evaluator.suite /\ evaluator'.timedOut = evaluator.timedOut
        /\ evaluator'.code = evaluator.code /\ evaluator'.leaves = evaluator.leaves
    BY <1>0, <2>1, <2>2 DEF Evaluators
  <2> QED
    BY <1>0, <2>1, <2>3 DEF EvaluatorStep, Alive, EvaluatorSays, CodeTells
<1> QED
  BY <1>1, <1>2, <1>3, <1>4, <1>5, <1>6, <1>7, <1>8, <1>9, <1>10, <1>11 DEF Evaluate

LEMMA EvaluateIInv == ASSUME IInv, pc # "crashed", Evaluate PROVE IInv'
<1>0. TypeOK /\ EvaluatorStep /\ UNCHANGED <<guardVars, loopVars, treeVars>>
  BY EvaluatorMoves DEF IInv, Evaluate
<1>1. UNCHANGED <<requests, spent, reserved, mode, pc, cell, est, cost, answer, workspace,
                  attempts, summary, worktree, disturbed>>
  BY <1>0 DEF guardVars, loopVars, treeVars
<1>2. pc = "evaluating" /\ evaluator.pc # "done"
  BY <1>0 DEF IInv, EvaluatorSays, EvaluatorStep, Alive
<1>3. TypeOK'
  BY <1>0, <1>1 DEF TypeOK, EvaluatorStep
<1>4. CellsInOrder' /\ SummaryIsLast' /\ CopiedClean'
  BY <1>1 DEF IInv, CellsInOrder, ReceiptsFollowSchedule, SummaryIsLast, CopiedClean, ScoredOnBase
<1>5. MoneyAccounted'
  BY <1>1 DEF IInv, MoneyAccounted, SpentIsReceipted, InHand, ReceiptedUnits
<1>6. EvaluatorSays'
  <2>1. evaluator'.suite = "passed" => answer /\ workspace # "torn"
    BY <1>0, <1>2 DEF IInv, EvaluatorSays, EvaluatorStep
  <2> QED
    BY <1>0, <1>1, <1>2, <2>1 DEF EvaluatorSays, EvaluatorStep, Alive
<1>7. CodeTells'
  BY <1>0, <1>1 DEF CodeTells, EvaluatorStep, V2
<1>8. SuccessIsRepair'
  <2>1. evaluator'.pc = "done" /\ Succeeds(evaluator'.code) =>
          answer /\ workspace # "torn" /\ evaluator'.suite = "passed"
    BY <1>1, <1>2, <1>6, <1>7 DEF EvaluatorSays, CodeTells, Succeeds
  <2> QED
    BY <1>1, <2>1 DEF IInv, VerdictsEarned, SuccessIsRepair, V2, Succeeds
<1>9. AttributableIsEarned' /\ ContinuesOnEvidence' /\ RefusalIsLast'
  BY <1>1, <1>2 DEF IInv, VerdictsEarned, AttributableIsEarned, SummaryIsLast,
                    ContinuesOnEvidence, RefusalIsLast
<1>10. ClassifiedCleansUp'
  <2>1. V2 /\ evaluator'.pc = "done" /\ evaluator'.leaves # {} => evaluator'.code \in {NullCode, 1}
    BY <1>0 DEF EvaluatorStep
  <2>2. \A code \in {NullCode, 1} : ~AttributableToModel(InterpretEvaluatorExit(code))
    BY DEF NullCode, InterpretEvaluatorExit, AttributableToModel
  <2> QED
    BY <1>1, <2>1, <2>2 DEF ClassifiedCleansUp, V2
<1> QED
  BY <1>3, <1>4, <1>5, <1>6, <1>7, <1>8, <1>9, <1>10 DEF IInv, VerdictsEarned

-----------------------------------------------------------------------------
(***************************************************************************)
(* Receipts.                                                               *)
(***************************************************************************)
ReceiptEarned(r) ==
  /\ r.task_success => IF V2 THEN r.suite = "passed" /\ r.evaluator_outcome = "passed"
                       ELSE r.status = "evaluated"
  /\ AttributableToModel(r.evaluator_outcome) => r.suite \in {"passed", "failed", "unran"}

(* A receipt for the cell at hand, with the money paid for it.             *)
LEMMA ReceiptWritten ==
  ASSUME IInv, NEW r \in Attempts, attempts' = Append(attempts, r), r.cell = cell,
         ReceiptEarned(r), pc \notin Ended, pc # "summing", summary' = summary,
         mode' = mode, pc' \in {"next", "summing"},
         r.status = "budget_refused" => pc' = "summing"
  PROVE  /\ \A i \in 1..Len(attempts') : attempts'[i].cell = i
         /\ Len(attempts) = cell - 1 /\ Len(attempts') = cell
         /\ SuccessIsRepair' /\ AttributableIsEarned' /\ RefusalIsLast'
<1> DEFINE n == Len(attempts)
<1>1. attempts \in Seq(Attempts) /\ n \in Nat /\ cell \in Nat
  BY OrderAssumption DEF IInv, TypeOK
<1>2. n = cell - 1 /\ \A i \in 1..n : attempts[i].cell = i
  BY DEF IInv, CellsInOrder, ReceiptsFollowSchedule, TypeOK, Ended
<1>3. /\ Len(attempts') = n + 1 /\ attempts'[n + 1] = r
      /\ \A i \in 1..n : attempts'[i] = attempts[i]
  BY <1>1
<1>4. 1..(n + 1) = (1..n) \cup {n + 1}
  BY <1>1
<1>5. \A i \in 1..n : attempts[i].status # "budget_refused"
  BY DEF IInv, VerdictsEarned, RefusalIsLast, Ended
<1> HIDE DEF n
<1>6. SuccessIsRepair'
  BY <1>3, <1>4 DEF IInv, VerdictsEarned, SuccessIsRepair, ReceiptEarned, V2, n
<1>7. AttributableIsEarned'
  BY <1>3, <1>4 DEF IInv, VerdictsEarned, AttributableIsEarned, ReceiptEarned, n
<1>8. RefusalIsLast'
  BY <1>3, <1>4, <1>5 DEF RefusalIsLast
<1> QED
  BY <1>1, <1>2, <1>3, <1>4, <1>6, <1>7, <1>8 DEF n

(* A cell that ends: the receipt carries what the cell has cost.           *)
LEMMA EndCellIInv ==
  ASSUME IInv, NEW r \in Attempts, EndCell(r), r.cell = cell, ReceiptEarned(r),
         r.status # "budget_refused",
         pc \in Active, UNCHANGED <<mode, summary, worktree>>, disturbed' \in BOOLEAN,
         requests' \in 0..MaxRequests, spent' \in Nat, reserved' \in Nat,
         r.cost \in {0, cost}, spent' = Cardinality(ReceiptedUnits) + r.cost,
         evaluator' \in Evaluators, evaluator'.pc = "none"
  PROVE  IInv'
<1>0. /\ attempts' = Append(attempts, r) /\ pc' = "next" /\ cell' = cell + 1
      /\ est' = 0 /\ cost' = 0 /\ answer' = FALSE /\ workspace' = "none"
  BY DEF EndCell
<1>1. /\ TypeOK /\ cell \in 1..Len(Order) /\ Len(Order) \in Nat /\ pc \notin Ended
      /\ pc # "summing"
  BY OrderAssumption DEF IInv, CellsInOrder, TypeOK, Active, Ended
<1>2. /\ \A i \in 1..Len(attempts') : attempts'[i].cell = i
      /\ Len(attempts') = cell
      /\ SuccessIsRepair' /\ AttributableIsEarned' /\ RefusalIsLast'
  BY <1>0, <1>1, ReceiptWritten
<1>3. TypeOK'
  <2>1. attempts' \in Seq(Attempts) /\ cell + 1 \in 1..(Len(Order) + 1)
    BY <1>0, <1>1 DEF TypeOK
  <2> QED
    BY <1>0, <1>1, <2>1 DEF TypeOK
<1>4. CellsInOrder'
  BY <1>0, <1>1, <1>2 DEF CellsInOrder, ReceiptsFollowSchedule, Active
<1>5. MoneyAccounted'
  <2>1. cost <= MaxRequest + Overrun /\ cost \in Nat /\ 0 <= MaxRequest + Overrun
    BY <1>1, LimitsAssumption, OverrunAssumption DEF IInv, MoneyAccounted, TypeOK
  <2>2. Cardinality(ReceiptedUnits') = Cardinality(ReceiptedUnits) + r.cost
    BY <1>0, <1>1, <2>1, AppendReceipt
  <2>3. Cardinality(ReceiptedUnits') + 0 = spent'
    BY <1>1, <2>1, <2>2, ReceiptedFinite
  <2> QED
    BY <1>0, <2>3, LimitsAssumption, OverrunAssumption DEF MoneyAccounted, SpentIsReceipted, InHand
<1>6. EvaluatorSays' /\ CodeTells' /\ ClassifiedCleansUp' /\ CopiedClean'
  BY <1>0 DEF EvaluatorSays, CodeTells, ClassifiedCleansUp, CopiedClean, ScoredOnBase, Alive
<1> QED
  BY <1>1, <1>2, <1>3, <1>4, <1>5, <1>6, NoSummaryYet DEF IInv, VerdictsEarned

LEMMA UnevaluatedTyped ==
  ASSUME TypeOK, cell \in 1..Len(Order), NEW status \in Statuses, NEW paid \in Nat
  PROVE  /\ Unevaluated(status, paid) \in Attempts
         /\ Unevaluated(status, paid).cell = cell /\ Unevaluated(status, paid).cost = paid
         /\ Unevaluated(status, paid).status = status
         /\ ReceiptEarned(Unevaluated(status, paid))
BY DEF Unevaluated, Attempts, Outcomes, Suites, ReceiptEarned, AttributableToModel

LEMMA RejectIInv == ASSUME IInv, RejectOutput PROVE IInv'
<1>0. /\ TypeOK /\ pc \in {"asked", "charged"}
      /\ requests' \in 0..MaxRequests /\ spent' \in Nat /\ reserved' \in Nat
      /\ spent' = Cardinality(ReceiptedUnits) + cost
  BY AnsweredPays DEF RejectOutput
<1>1. cell \in 1..Len(Order) /\ cost \in Nat /\ evaluator.pc = "none"
  BY <1>0, OrderAssumption, NothingSpawned DEF IInv, CellsInOrder, TypeOK, Active
<1> DEFINE r == Unevaluated("output_rejected", cost)
<1>2. /\ r \in Attempts /\ r.cell = cell /\ r.cost = cost /\ ReceiptEarned(r)
      /\ r.status # "budget_refused"
  BY <1>0, <1>1, UnevaluatedTyped DEF Statuses
<1>3. EndCell(r) /\ UNCHANGED <<mode, summary, worktree, disturbed, evaluator>>
  BY DEF RejectOutput, treeVars
<1> HIDE DEF r
<1>4. evaluator' \in Evaluators /\ evaluator'.pc = "none" /\ disturbed' \in BOOLEAN
  BY <1>0, <1>1, <1>3 DEF TypeOK
<1> QED
  BY <1>0, <1>1, <1>2, <1>3, <1>4, EndCellIInv DEF Active

LEMMA TransportIInv == ASSUME IInv, TransportFails PROVE IInv'
<1>0. TypeOK /\ pc \in {"asked", "charged"} /\ est \in Nat
  BY DEF IInv, TypeOK, TransportFails
<1>1. cell \in 1..Len(Order) /\ evaluator.pc = "none"
  BY <1>0, OrderAssumption, NothingSpawned DEF IInv, CellsInOrder, TypeOK, Active
<1>2. /\ spent = Cardinality(ReceiptedUnits) + 0 /\ spent' = spent + 0 /\ spent \in Nat
      /\ Settle(est, 0)
  BY <1>0 DEF IInv, MoneyAccounted, SpentIsReceipted, InHand, TransportFails, Settle, TypeOK
<1>3. requests' \in 0..MaxRequests /\ spent' \in Nat /\ reserved' \in Nat
  BY <1>0, <1>2, GuardTyped
<1> DEFINE r == Unevaluated("provider_error", 0)
<1>4. /\ r \in Attempts /\ r.cell = cell /\ r.cost = 0 /\ ReceiptEarned(r)
      /\ r.status # "budget_refused"
  BY <1>0, <1>1, UnevaluatedTyped DEF Statuses
<1>5. EndCell(r) /\ UNCHANGED <<mode, summary, worktree, disturbed, evaluator>>
  BY DEF TransportFails, treeVars
<1>6. spent' = Cardinality(ReceiptedUnits) + r.cost
  BY <1>0, <1>2, <1>4, ReceiptedFinite
<1> HIDE DEF r
<1>7. evaluator' \in Evaluators /\ evaluator'.pc = "none" /\ disturbed' \in BOOLEAN
  BY <1>0, <1>1, <1>5 DEF TypeOK
<1> QED
  BY <1>0, <1>1, <1>3, <1>4, <1>5, <1>6, <1>7, EndCellIInv DEF Active

LEMMA RecordIInv == ASSUME IInv, RecordEvaluation PROVE IInv'
<1> DEFINE outcome == IF V2 THEN InterpretEvaluatorExit(evaluator.code) ELSE "none"
           suite == IF ~V2 THEN "none"
                    ELSE IF evaluator.timedOut THEN "timed_out" ELSE evaluator.suite
           r == [cell |-> cell, status |-> "evaluated", cost |-> cost,
                 task_success |-> Succeeds(evaluator.code),
                 evaluator_outcome |-> outcome, suite |-> suite]
<1>0. /\ TypeOK /\ pc = "evaluating" /\ evaluator.pc = "done" /\ evaluator \in Evaluators
      /\ evaluator' = NoEvaluator /\ EndCell(r) /\ disturbed' = FALSE
      /\ UNCHANGED <<guardVars, mode, summary, worktree>>
  BY DEF IInv, TypeOK, RecordEvaluation
<1>1. cell \in 1..Len(Order) /\ cost \in Nat
  BY <1>0, OrderAssumption DEF IInv, CellsInOrder, TypeOK, Active
<1>2. outcome \in Outcomes /\ suite \in Suites \cup {"timed_out"}
  BY <1>0 DEF InterpretEvaluatorExit, Outcomes, Suites, Evaluators
<1>3. AttributableToModel(outcome) => V2 /\ evaluator.code \in {0, 17}
  BY DEF InterpretEvaluatorExit, AttributableToModel
<1>4. /\ V2 /\ evaluator.code \in {0, 17} => suite \in {"passed", "failed", "unran"}
      /\ V2 /\ evaluator.code = 0 => suite = "passed" /\ outcome = "passed"
  BY <1>0 DEF IInv, CodeTells, InterpretEvaluatorExit
<1> HIDE DEF outcome, suite
<1>5. /\ r \in Attempts /\ r.cell = cell /\ r.cost = cost /\ r.suite = suite
      /\ r.evaluator_outcome = outcome /\ r.task_success = Succeeds(evaluator.code)
      /\ r.status = "evaluated"
  BY <1>0, <1>1, <1>2 DEF Attempts, Statuses, Succeeds, Evaluators
<1>6. ReceiptEarned(r)
  BY <1>3, <1>4, <1>5 DEF ReceiptEarned, Succeeds
<1>7. spent' = Cardinality(ReceiptedUnits) + r.cost
  BY <1>0, <1>5 DEF IInv, MoneyAccounted, SpentIsReceipted, InHand, guardVars
<1>8. requests' \in 0..MaxRequests /\ spent' \in Nat /\ reserved' \in Nat
  BY <1>0 DEF TypeOK, guardVars
<1>9. evaluator' \in Evaluators /\ evaluator'.pc = "none"
  BY <1>0, EvaluatorsTyped DEF NoEvaluator
<1> HIDE DEF r
<1> QED
  BY <1>0, <1>5, <1>6, <1>7, <1>8, <1>9, EndCellIInv DEF Active

(* A refused budget: the last receipt, which costs nothing.                *)
LEMMA RefuseIInv == ASSUME IInv, NEW e \in Reservations, RefuseBudget(e) PROVE IInv'
<1> DEFINE r == Unevaluated("budget_refused", 0)
<1>0. /\ TypeOK /\ pc = "next" /\ cell <= Len(Order) /\ pc' = "summing"
      /\ attempts' = Append(attempts, r)
      /\ UNCHANGED <<requests, spent, reserved, mode, cell, est, cost, answer, workspace, summary,
                     evaluator, worktree, disturbed>>
  BY DEF IInv, RefuseBudget, More, guardVars, treeVars
<1>1. cell \in 1..Len(Order) /\ evaluator.pc = "none"
  BY <1>0, OrderAssumption, NothingSpawned DEF IInv, TypeOK
<1>2. r \in Attempts /\ r.cell = cell /\ r.cost = 0 /\ ReceiptEarned(r)
  BY <1>0, <1>1, UnevaluatedTyped DEF Statuses
<1> HIDE DEF r
<1>4. /\ \A i \in 1..Len(attempts') : attempts'[i].cell = i
      /\ SuccessIsRepair' /\ AttributableIsEarned' /\ RefusalIsLast'
  BY <1>0, <1>1, <1>2, ReceiptWritten DEF Ended
<1>5. TypeOK'
  <2>1. attempts' \in Seq(Attempts)
    BY <1>0, <1>2 DEF TypeOK
  <2> QED
    BY <1>0, <2>1 DEF TypeOK
<1>6. CellsInOrder'
  BY <1>0, <1>4 DEF CellsInOrder, ReceiptsFollowSchedule, Active
<1>7. MoneyAccounted'
  <2>1. Cardinality(ReceiptedUnits') = Cardinality(ReceiptedUnits) + 0
    BY <1>0, <1>2, LimitsAssumption, OverrunAssumption, AppendReceipt
  <2>2. spent = Cardinality(ReceiptedUnits) + 0
    BY <1>0 DEF IInv, MoneyAccounted, SpentIsReceipted, InHand
  <2>3. Cardinality(ReceiptedUnits') + 0 = spent'
    BY <1>0, <2>1, <2>2, ReceiptedFinite
  <2> QED
    BY <1>0, <2>3 DEF IInv, MoneyAccounted, SpentIsReceipted, InHand
<1>8. EvaluatorSays' /\ CodeTells' /\ CopiedClean' /\ ClassifiedCleansUp'
  BY <1>0, <1>1, NothingSaid DEF CopiedClean, ScoredOnBase, ClassifiedCleansUp
<1> QED
  BY <1>0, <1>4, <1>5, <1>6, <1>7, <1>8, NoSummaryYet DEF IInv, VerdictsEarned, Ended

-----------------------------------------------------------------------------
(* The tasks an arm won are tasks with a receipt: finitely many.           *)
LEMMA WinsFinite == ASSUME TypeOK, NEW arm PROVE IsFiniteSet(Wins(arm))
<1> DEFINE tasks == {TaskOf(attempts[i].cell) : i \in 1..Len(attempts)}
<1>1. IsFiniteSet(1..Len(attempts))
  BY FS_Interval DEF TypeOK
<1> DEFINE taskAt == [i \in 1..Len(attempts) |-> TaskOf(attempts[i].cell)]
<1>2. IsFiniteSet(tasks)
  <2>1. taskAt \in Surjection(1..Len(attempts), tasks)
    BY DEF Surjection
  <2> HIDE DEF taskAt, tasks
  <2> QED
    BY <1>1, <2>1, FS_Surjection
<1>3. Wins(arm) \subseteq tasks
  BY DEF Wins, Won, Receipts
<1> QED
  BY <1>2, <1>3, FS_Subset

(* Of a baseline that was lost, a refused budget was the last receipt.     *)
LEMMA LostIsTried ==
  ASSUME RefusalIsLast, NEW task, Lost(task, Baseline)
  PROVE  Tried(task) \/ RefusedLast(task)
<1>1. PICK i \in Receipts(task, Baseline) : ~attempts[i].task_success
  BY DEF Lost
<1>2. i \in 1..Len(attempts)
  BY DEF Receipts
<1>3. CASE attempts[i].status = "budget_refused"
  BY <1>1, <1>2, <1>3 DEF RefusalIsLast, RefusedLast
<1>4. CASE attempts[i].status # "budget_refused"
  BY <1>1, <1>4 DEF Tried
<1> QED
  BY <1>3, <1>4

LEMMA SummarizeIInv == ASSUME IInv, Summarize PROVE IInv'
<1>0. /\ TypeOK /\ pc \in {"next", "summing"} /\ pc' = "summarized"
      /\ UNCHANGED <<requests, spent, reserved, mode, cell, est, cost, answer, workspace,
                     attempts, evaluator, worktree, disturbed>>
      /\ summary' = IF RulePassed THEN "continue_to_stage_b" ELSE "no_detectable_large_signal"
  BY DEF IInv, Summarize, guardVars, treeVars
<1>1. TypeOK'
  BY <1>0 DEF TypeOK, Ended
<1>2. CellsInOrder' /\ SummaryIsLast'
  BY <1>0 DEF IInv, CellsInOrder, ReceiptsFollowSchedule, Active, SummaryIsLast
<1>3. MoneyAccounted'
  BY <1>0 DEF IInv, MoneyAccounted, SpentIsReceipted, InHand, ReceiptedUnits
<1>4. evaluator.pc = "none"
  BY <1>0, NothingSpawned
<1>5. EvaluatorSays' /\ CodeTells' /\ CopiedClean' /\ ClassifiedCleansUp'
  BY <1>0, <1>4, NothingSaid DEF CopiedClean, ScoredOnBase, ClassifiedCleansUp
<1>6. SuccessIsRepair' /\ AttributableIsEarned' /\ RefusalIsLast'
  BY <1>0 DEF IInv, VerdictsEarned, SuccessIsRepair, AttributableIsEarned, RefusalIsLast, V2
<1>7. ContinuesOnEvidence'
  <2> SUFFICES ASSUME RulePassed
               PROVE  \E arm \in Assisted : \E task, other \in Tasks :
                        /\ task # other
                        /\ \A t \in {task, other} :
                             \E i \in Receipts(t, arm) : attempts[i].task_success
                        /\ Tried(task)
                        /\ Tried(other) \/ RefusedLast(other)
    BY <1>0 DEF ContinuesOnEvidence, Receipts, Tried, RefusedLast
  <2>1. PICK arm \in Assisted : Cardinality(Wins(arm)) >= 2
    BY DEF RulePassed
  <2>2. PICK x, y \in Wins(arm) : x # y
    BY <1>0, <2>1, WinsFinite, TwoOf
  <2>3. ASSUME NEW t \in Wins(arm)
        PROVE  /\ t \in Tasks
               /\ \E i \in Receipts(t, arm) : attempts[i].task_success
               /\ Tried(t) \/ RefusedLast(t)
    <3>1. t \in T0Failures /\ Won(t, arm) /\ RefusalIsLast
      BY DEF Wins, IInv, VerdictsEarned
    <3>2. t \in Tasks /\ Lost(t, Baseline)
      BY <3>1 DEF T0Failures
    <3> QED
      BY <3>1, <3>2, LostIsTried DEF Won
  <2>4. ~(RefusedLast(x) /\ RefusedLast(y))
    BY <2>2 DEF RefusedLast, Receipts
  <2>5. CASE Tried(x)
    BY <2>1, <2>2, <2>3, <2>5
  <2>6. CASE ~Tried(x)
    <3>1. RefusedLast(x) /\ Tried(y)
      BY <2>2, <2>3, <2>4, <2>6
    <3> QED
      BY <2>1, <2>2, <2>3, <3>1
  <2> QED
    BY <2>5, <2>6
<1> QED
  BY <1>1, <1>2, <1>3, <1>5, <1>6, <1>7 DEF IInv, VerdictsEarned

(* The operator's scripts touch nothing but a worktree.                    *)
LEMMA AsideIInv ==
  ASSUME IInv, UNCHANGED <<guardVars, evaluator, loopVars>>,
         worktree' \in [Tasks -> {"absent", "clean", "dirty"}],
         disturbed' \in BOOLEAN, disturbed => disturbed',
         pc = "copying" =>
           disturbed' \/ worktree'[TaskOf(cell)] = worktree[TaskOf(cell)]
  PROVE  IInv'
<1>1. UNCHANGED <<requests, spent, reserved, evaluator, mode, pc, cell, est, cost,
                  answer, workspace, attempts, summary>>
  BY DEF guardVars, loopVars
<1>2. TypeOK'
  BY <1>1 DEF IInv, TypeOK
<1>3. CellsInOrder' /\ SummaryIsLast' /\ MoneyAccounted'
  BY <1>1 DEF IInv, CellsInOrder, ReceiptsFollowSchedule, SummaryIsLast, MoneyAccounted,
              SpentIsReceipted, InHand, ReceiptedUnits
<1>4. EvaluatorSays' /\ CodeTells' /\ ClassifiedCleansUp'
  BY <1>1 DEF IInv, EvaluatorSays, CodeTells, ClassifiedCleansUp, Alive, V2
<1>5. VerdictsEarned'
  BY <1>1 DEF IInv, VerdictsEarned, SuccessIsRepair, AttributableIsEarned, RefusalIsLast,
              ContinuesOnEvidence, Receipts, Tried, RefusedLast, V2
<1>6. CopiedClean'
  BY <1>1 DEF IInv, CopiedClean, ScoredOnBase, TaskOf
<1> QED
  BY <1>2, <1>3, <1>4, <1>5, <1>6 DEF IInv

LEMMA OperatorIInv == ASSUME IInv, Operator PROVE IInv'
<1>1. PICK task \in Tasks, state \in {"absent", "clean", "dirty"} : WorksOn(task, state)
  BY DEF Operator, InjectTests, RemoveModified, AddWorktree
<1>2. /\ worktree' = [worktree EXCEPT ![task] = state]
      /\ disturbed' = (disturbed \/ (pc = "copying" /\ task = TaskOf(cell)))
      /\ UNCHANGED <<guardVars, evaluator, loopVars>>
      /\ worktree \in [Tasks -> {"absent", "clean", "dirty"}] /\ disturbed \in BOOLEAN
  BY <1>1 DEF WorksOn, IInv, TypeOK
<1>3. worktree' \in [Tasks -> {"absent", "clean", "dirty"}]
  BY <1>2
<1>4. disturbed' \in BOOLEAN /\ (disturbed => disturbed')
  BY <1>2
<1>5. ASSUME pc = "copying", task # TaskOf(cell)
      PROVE  worktree'[TaskOf(cell)] = worktree[TaskOf(cell)]
  BY <1>2, <1>5
<1>6. pc = "copying" => disturbed' \/ worktree'[TaskOf(cell)] = worktree[TaskOf(cell)]
  BY <1>2, <1>5
<1> QED
  BY <1>2, <1>3, <1>4, <1>6, AsideIInv

LEMMA NextIInv == IInv /\ [Next]_vars => IInv'
<1> SUFFICES ASSUME IInv, [Next]_vars PROVE IInv'
  OBVIOUS
<1>1. CASE RunLoop
  BY <1>1, BeginIInv, ExitIInv, RefuseIInv, RejectIInv, AcceptIInv, TransportIInv,
     MaterializeIInv, RecordIInv, SummarizeIInv DEF RunLoop
<1>2. CASE \E c \in 0..(est + Overrun) : Charge(c)
  BY <1>2, ChargeIInv
<1>3. CASE pc # "crashed" /\ Evaluate
  BY <1>3, EvaluateIInv
<1>4. CASE Crash
  BY <1>4, ExitIInv
<1>5. CASE Operator
  BY <1>5, OperatorIInv
<1>6. CASE UNCHANGED vars
  BY <1>6, AsideIInv DEF vars, treeVars, IInv, TypeOK
<1> QED
  BY <1>1, <1>2, <1>3, <1>4, <1>5, <1>6 DEF Next

LEMMA AlwaysIInv == Spec => []IInv
BY InitIInv, NextIInv, PTL DEF Spec

-----------------------------------------------------------------------------
(* The loop, the guard, the evaluator and the receipts are typed, for any  *)
(* schedule and any limits (run-stage-a.mjs:190-354).                      *)
THEOREM TypeCorrect == Spec => []TypeOK
<1>1. IInv => TypeOK
  BY DEF IInv
<1> QED
  BY <1>1, AlwaysIInv, PTL

(* Each executed cell has its one receipt in the order of the schedule,    *)
(* and what was spent is at every moment the sum of what the receipts say  *)
(* and the attempt in hand, up to the summary and in it, however many      *)
(* cells there are and whatever the provider charges                       *)
(* (run-stage-a.mjs:269-288, 384).  A process that throws or is killed     *)
(* drops its receipts: EveryAttemptHasReceipt is false of it.              *)
THEOREM AccountsBalance == Spec => []ReceiptsAccount
<1>1. IInv => ReceiptsAccount
  BY DEF IInv, CellsInOrder, MoneyAccounted, ReceiptsAccount
<1> QED
  BY <1>1, AlwaysIInv, PTL

(* Going on to the next stage rests on two repairs of one arm, which their *)
(* tests confirmed on copies of the base unless somebody worked on it in   *)
(* between, and on two baselines without success of which at most the last *)
(* was not tried, for any tasks, arms and schedule                         *)
(* (run-stage-a.mjs:154-167, 341-367).                                     *)
THEOREM ContinuationEarned == Spec => []ContinuationRestsOnRepairs
<1>1. IInv => ContinuationRestsOnRepairs
  BY DEF IInv, VerdictsEarned, CopiedClean, ContinuationRestsOnRepairs
<1> QED
  BY <1>1, AlwaysIInv, PTL

(* An outcome that v2 puts down to the model comes of a suite whose        *)
(* process ended by itself and in time, whichever timer or signal ended    *)
(* the others; that it ran a test is not said (outcome.ts:85-126,          *)
(* 135-153; TestsFailedRan is false).                                      *)
THEOREM AttributionEarned == Spec => []AttributableIsEarned
<1>1. IInv => AttributableIsEarned
  BY DEF IInv, VerdictsEarned
<1> QED
  BY <1>1, AlwaysIInv, PTL

(* A v2 evaluator that leaves anything behind was killed by the runner or  *)
(* could not remove its copy, and is never taken for a result, for any     *)
(* timeout (v2/evaluate.mjs:88-91, 166-168).                               *)
THEOREM LeftoversExplained == Spec => []ClassifiedCleansUp
<1>1. IInv => ClassifiedCleansUp
  BY DEF IInv
<1> QED
  BY <1>1, AlwaysIInv, PTL
-----------------------------------------------------------------------------
(***************************************************************************)
(* StudyFreeze.  What a run of Stage A holds of the disk: every file that  *)
(* nobody touched since it began is read as it is now, or still to be      *)
(* read.                                                                   *)
(***************************************************************************)
DiskTyped ==
  /\ kind \in Kinds /\ disk \in [Files -> Versions \cup {Absent}]
  /\ DOMAIN script = {"op", "pc", "consts", "todo", "reads", "existing", "bad", "exit"}

Artifact(f) == [file |-> f, as |-> "artifact"]

Running == script.op = "run" /\ script.pc \in {"hash", "verify", "open", "attempt"}

ReadsStand ==
  Running => 
    /\ kind.sealed
    /\ \A f \in Files : f \notin touched /\ disk[f] # Absent =>
         \/ script.pc = "hash" /\ Artifact(f) \in script.todo
         \/ Artifact(f) \in DOMAIN script.reads /\ script.reads[Artifact(f)] = disk[f]

(* The document in hand is the one on the disk, and what was verified of   *)
(* it.                                                                     *)
DocumentHeld ==
  Running =>
    /\ script.pc \in {"verify", "open"} => script.existing = doc \/ "document" \in touched
    /\ \/ script.pc = "open"
       \/ script.pc = "attempt" /\ "document" \notin touched
       => script.existing.aggregate = Aggregate(kind, Body(script.reads, script.consts))

UsesAreRuns == uses # {} => script.op = "run" /\ script.pc \in {"attempt", "ended"}

(* The check of a v1 freeze alone begins with the document, and only a run *)
(* makes attempts.                                                         *)
LoadsAreChecks ==
  /\ script.pc = "load" => script.op = "verify"
  /\ script.pc \in {"open", "attempt"} => script.op = "run"

FInv ==
  DiskTyped /\ ReadsStand /\ DocumentHeld /\ UsesAreRuns /\ LoadsAreChecks /\ AttemptsOnFrozen

LEMMA SealedIsHeldout ==
  ASSUME kind \in Kinds, kind.sealed
  PROVE  kind = HeldoutFreeze /\ kind.rebuilt /\ "artifacts" \in kind.covers
BY StudyAssumption DEF HeldoutFreeze, GateMV1Freeze, GateMV2Freeze, GateMV3Freeze

LEMMA AggregatedArtifacts ==
  ASSUME NEW reads, NEW consts, kind \in Kinds, kind.sealed
  PROVE  Aggregate(kind, Body(reads, consts)).artifacts =
           [f \in {r.file : r \in {q \in DOMAIN reads : q.as = "artifact"}} |-> reads[Artifact(f)]]
BY SealedIsHeldout DEF Aggregate, Body, Artifact

LEMMA InitFInv == StudyInit => FInv
<1> SUFFICES ASSUME StudyInit PROVE FInv
  OBVIOUS
<1>1. script = Idle /\ uses = {} /\ kind \in Kinds
  BY DEF StudyInit
<1>2. /\ script.op = "none" /\ script.pc = "idle"
      /\ DOMAIN script = {"op", "pc", "consts", "todo", "reads", "existing", "bad", "exit"}
  BY <1>1 DEF Idle
<1>3. disk \in [Files -> Versions \cup {Absent}]
  BY DEF StudyInit
<1> QED
  BY <1>1, <1>2, <1>3 DEF FInv, DiskTyped, ReadsStand, DocumentHeld, UsesAreRuns, AttemptsOnFrozen,
                          Running, LoadsAreChecks

LEMMA StartFInv == ASSUME FInv, NEW op \in {"freeze", "seal", "verify", "run"}, Start(op) PROVE FInv'
<1>1. uses' = {} /\ touched' = {} /\ kind' = kind /\ disk' = disk
  BY DEF Start
<1>2. /\ script'.op = op
      /\ DOMAIN script' = {"op", "pc", "consts", "todo", "reads", "existing", "bad", "exit"}
      /\ IF op = "verify" /\ ~kind.rebuilt THEN script'.pc = "load"
         ELSE script'.pc = "hash" /\ script'.todo = Reads
  <2>1. DOMAIN Idle = {"op", "pc", "consts", "todo", "reads", "existing", "bad", "exit"}
    BY DEF Idle
  <2>2. CASE op = "verify" /\ ~kind.rebuilt
    <3>1. script' = [[Idle EXCEPT !.op = op] EXCEPT !.pc = "load"]
      BY <2>2 DEF Start
    <3> QED
      BY <2>1, <2>2, <3>1
  <2>3. CASE ~(op = "verify" /\ ~kind.rebuilt)
    <3>1. script' = [[[Idle EXCEPT !.op = op] EXCEPT !.pc = "hash"] EXCEPT !.todo = Reads]
      BY <2>3 DEF Start
    <3> QED
      BY <2>1, <2>3, <3>1
  <2> QED
    BY <2>2, <2>3
<1>3. ReadsStand' /\ DocumentHeld'
  <2>1. CASE op # "run"
    BY <1>2, <2>1 DEF ReadsStand, DocumentHeld, Running
  <2>2. CASE op = "run"
    <3>1. kind.sealed /\ kind.rebuilt
      BY <2>2, SealedIsHeldout DEF Start, FInv, DiskTyped
    <3>2. script'.pc = "hash" /\ script'.todo = Reads
      BY <1>2, <2>2
    <3>3. \A f \in Files : disk[f] # Absent => Artifact(f) \in Reads
      BY DEF Reads, Present, Artifact
    <3> QED
      BY <1>1, <3>1, <3>2, <3>3 DEF ReadsStand, DocumentHeld
  <2> QED
    BY <2>1, <2>2
<1>4. DiskTyped'
  BY <1>1, <1>2 DEF FInv, DiskTyped
<1>5. UsesAreRuns' /\ LoadsAreChecks' /\ AttemptsOnFrozen'
  BY <1>1, <1>2 DEF UsesAreRuns, LoadsAreChecks, AttemptsOnFrozen
<1> QED
  BY <1>3, <1>4, <1>5 DEF FInv

(* What ends a script, or goes on with one that is not a run.              *)
LEMMA StoppedFInv ==
  ASSUME FInv, ~Running', UNCHANGED <<kind, disk, touched, uses>>,
         DOMAIN script' = DOMAIN script,
         script'.pc \in {"ended", "seal", "hash", "verify"},
         uses # {} => /\ script'.op = script.op /\ script'.pc = "ended"
                      /\ script'.existing = script.existing
  PROVE  FInv'
BY DEF FInv, DiskTyped, ReadsStand, DocumentHeld, UsesAreRuns, AttemptsOnFrozen, LoadsAreChecks

LEMMA HashFInv == ASSUME FInv, HashOne PROVE FInv'
<1> USE DEF HashOne
<1>1. PICK r \in script.todo :
        script' = IF disk[r.file] = Absent
                  THEN [script EXCEPT !.pc = "ended", !.exit = 1]
                  ELSE [script EXCEPT !.todo = @ \ {r},
                          !.reads = [q \in DOMAIN @ \cup {r} |->
                                       IF q = r THEN disk[r.file] ELSE @[q]]]
  OBVIOUS
<1>2. /\ uses = {} /\ script.pc = "hash"
      /\ DOMAIN script = {"op", "pc", "consts", "todo", "reads", "existing", "bad", "exit"}
  BY DEF FInv, UsesAreRuns, DiskTyped
<1>3. CASE disk[r.file] = Absent
  <2>1. DOMAIN script' = DOMAIN script /\ script'.pc = "ended"
    BY <1>1, <1>2, <1>3
  <2> QED
    BY <1>2, <2>1, StoppedFInv DEF Running
<1>4. CASE disk[r.file] # Absent
  <2>1. /\ script'.op = script.op /\ script'.pc = "hash" /\ script'.todo = script.todo \ {r}
        /\ DOMAIN script'.reads = DOMAIN script.reads \cup {r}
        /\ DOMAIN script' = DOMAIN script
        /\ \A q \in DOMAIN script.reads \cup {r} :
             script'.reads[q] = IF q = r THEN disk[r.file] ELSE script.reads[q]
    BY <1>1, <1>2, <1>4
  <2>2. ReadsStand'
    <3> SUFFICES ASSUME Running, NEW f \in Files, f \notin touched, disk[f] # Absent
                 PROVE  \/ Artifact(f) \in script'.todo
                        \/ Artifact(f) \in DOMAIN script'.reads /\ script'.reads[Artifact(f)] = disk[f]
      BY <1>2, <2>1 DEF ReadsStand, Running, FInv
    <3>1. CASE Artifact(f) = r
      BY <2>1, <3>1 DEF Artifact
    <3>2. CASE Artifact(f) # r
      BY <2>1, <3>2 DEF FInv, ReadsStand
    <3> QED
      BY <3>1, <3>2
  <2> QED
    BY <1>2, <2>1, <2>2 DEF FInv, DiskTyped, DocumentHeld, UsesAreRuns, AttemptsOnFrozen,
                               LoadsAreChecks
<1> QED
  BY <1>3, <1>4

LEMMA LoadFInv == ASSUME FInv, LoadDocument PROVE FInv'
<1>1. /\ uses = {} /\ script.pc \in {"hash", "load"}
      /\ DOMAIN script = {"op", "pc", "consts", "todo", "reads", "existing", "bad", "exit"}
  BY DEF FInv, UsesAreRuns, DiskTyped, LoadDocument
<1>2. /\ UNCHANGED <<kind, disk, doc, uses, touched>>
      /\ DOMAIN script' = DOMAIN script
      /\ script'.op = script.op /\ script'.reads = script.reads
      /\ script'.pc \in {"ended", "seal", "verify"}
      /\ script'.pc = "verify" => script'.existing = doc
  BY <1>1 DEF LoadDocument
<1>3. CASE ~Running'
  BY <1>1, <1>2, <1>3, StoppedFInv
<1>4. CASE Running'
  <2>1. script'.pc = "verify" /\ script.op = "run" /\ script'.op = "run"
    BY <1>2, <1>4 DEF Running
  <2>2. script.pc = "hash" /\ script.todo = {}
    <3>1. script.pc = "load" => script.op # "run"
      BY DEF FInv, LoadsAreChecks
    <3> QED
      BY <2>1, <3>1 DEF LoadDocument
  <2>3. ReadsStand'
    BY <1>2, <2>1, <2>2 DEF FInv, ReadsStand, Running
  <2>4. DocumentHeld'
    BY <1>2, <2>1 DEF DocumentHeld
  <2> QED
    BY <1>1, <1>2, <2>1, <2>3, <2>4 DEF FInv, DiskTyped, UsesAreRuns, AttemptsOnFrozen, LoadsAreChecks
<1> QED
  BY <1>3, <1>4

LEMMA CheckFInv == ASSUME FInv, CheckOne PROVE FInv'
<1>1. /\ uses = {} /\ script.pc = "verify"
      /\ DOMAIN script = {"op", "pc", "consts", "todo", "reads", "existing", "bad", "exit"}
  BY DEF FInv, UsesAreRuns, DiskTyped, CheckOne
<1>2. /\ UNCHANGED <<kind, disk, doc, uses, touched>>
      /\ DOMAIN script' = DOMAIN script
      /\ script'.op = script.op /\ script'.reads = script.reads
      /\ script'.pc \in {"ended", "verify"} /\ script'.existing = script.existing
  BY <1>1 DEF CheckOne
<1>3. CASE ~Running'
  BY <1>1, <1>2, <1>3, StoppedFInv
<1>4. CASE Running'
  <2>1. script'.pc = "verify" /\ Running
    BY <1>1, <1>2, <1>4 DEF Running
  <2>2. ReadsStand' /\ DocumentHeld'
    BY <1>1, <1>2, <2>1 DEF FInv, ReadsStand, DocumentHeld
  <2> QED
    BY <1>1, <1>2, <2>1, <2>2 DEF FInv, DiskTyped, UsesAreRuns, AttemptsOnFrozen, LoadsAreChecks
<1> QED
  BY <1>3, <1>4

LEMMA VerifyFInv == ASSUME FInv, Verify PROVE FInv'
<1>1. /\ uses = {} /\ script.pc = "verify"
      /\ DOMAIN script = {"op", "pc", "consts", "todo", "reads", "existing", "bad", "exit"}
  BY DEF FInv, UsesAreRuns, DiskTyped, Verify
<1>2. /\ UNCHANGED <<kind, disk, doc, uses, touched>>
      /\ DOMAIN script' = DOMAIN script
      /\ script'.op = script.op /\ script'.reads = script.reads /\ script'.consts = script.consts
      /\ script'.existing = script.existing
      /\ script'.pc \in {"ended", "open"}
      /\ script'.pc = "open" => FreezeVerifies(kind, script) /\ script'.op = "run"
  BY <1>1 DEF Verify
<1>3. CASE ~Running'
  <2>1. script'.pc = "ended"
    BY <1>2, <1>3 DEF Running
  <2> QED
    BY <1>1, <1>2, <1>3, <2>1, StoppedFInv
<1>4. CASE Running'
  <2>1. script'.pc = "open" /\ Running
    BY <1>1, <1>2, <1>4 DEF Running
  <2>2. ReadsStand'
    BY <1>1, <1>2, <2>1 DEF FInv, ReadsStand
  <2>3. script.existing.aggregate = Aggregate(kind, Body(script.reads, script.consts))
    BY <1>2, <2>1 DEF FInv, ReadsStand, FreezeVerifies, VerifiesHeldout, VerifiesRebuilt
  <2>4. DocumentHeld'
    BY <1>1, <1>2, <2>1, <2>3 DEF FInv, DocumentHeld
  <2> QED
    BY <1>1, <1>2, <2>1, <2>2, <2>4 DEF FInv, DiskTyped, UsesAreRuns, AttemptsOnFrozen, LoadsAreChecks,
                                        Running
<1> QED
  BY <1>3, <1>4

LEMMA OpenFInv == ASSUME FInv, OpenRun PROVE FInv'
<1>1. /\ uses = {} /\ script.pc = "open"
      /\ DOMAIN script = {"op", "pc", "consts", "todo", "reads", "existing", "bad", "exit"}
  BY DEF FInv, UsesAreRuns, DiskTyped, OpenRun
<1>2. /\ UNCHANGED <<kind, disk, doc, uses, touched>>
      /\ DOMAIN script' = DOMAIN script
      /\ script'.op = script.op /\ script'.reads = script.reads /\ script'.consts = script.consts
      /\ script'.existing = doc /\ script'.pc = "attempt"
  BY <1>1 DEF OpenRun
<1>3. script.op = "run" /\ Running
  BY <1>1 DEF FInv, LoadsAreChecks, Running
<1>4. ReadsStand'
  BY <1>1, <1>2, <1>3 DEF FInv, ReadsStand
<1>5. DocumentHeld'
  BY <1>1, <1>2, <1>3 DEF FInv, DocumentHeld
<1> QED
  BY <1>1, <1>2, <1>3, <1>4, <1>5 DEF FInv, DiskTyped, UsesAreRuns, AttemptsOnFrozen, LoadsAreChecks

LEMMA ReadFInv == ASSUME FInv, ReadInput PROVE FInv'
<1>1. /\ script.pc = "attempt" /\ UNCHANGED <<kind, disk, doc, touched>>
      /\ DOMAIN script = {"op", "pc", "consts", "todo", "reads", "existing", "bad", "exit"}
  BY DEF FInv, DiskTyped, ReadInput
<1>2. PICK f \in Tree :
        IF disk[f] = Absent
        THEN script' = [script EXCEPT !.pc = "ended", !.exit = 1] /\ UNCHANGED uses
        ELSE uses' = uses \cup {[file |-> f, version |-> disk[f]]} /\ UNCHANGED script
  BY DEF ReadInput
<1>3. CASE disk[f] = Absent
  <2>1. /\ uses' = uses /\ DOMAIN script' = DOMAIN script /\ script'.op = script.op
        /\ script'.pc = "ended" /\ script'.existing = script.existing
    BY <1>1, <1>2, <1>3
  <2> QED
    BY <1>1, <2>1, StoppedFInv DEF Running
<1>4. CASE disk[f] # Absent
  <2>1. uses' = uses \cup {[file |-> f, version |-> disk[f]]} /\ script' = script
    BY <1>2, <1>4
  <2>2. script.op = "run" /\ Running
    BY <1>1 DEF FInv, LoadsAreChecks, Running
  <2>3. ReadsStand' /\ DocumentHeld' /\ DiskTyped'
    BY <1>1, <2>1 DEF FInv, ReadsStand, DocumentHeld, DiskTyped, Running
  <2>4. ASSUME f \notin touched, "document" \notin touched
        PROVE  /\ f \in DOMAIN script.existing.aggregate.artifacts
               /\ disk[f] = script.existing.aggregate.artifacts[f]
    <3> DEFINE q == Artifact(f)
               read == {r.file : r \in {p \in DOMAIN script.reads : p.as = "artifact"}}
    <3>1. q \in DOMAIN script.reads /\ script.reads[q] = disk[f] /\ kind.sealed /\ kind \in Kinds
      BY <1>1, <1>4, <2>2, <2>4 DEF FInv, ReadsStand, DiskTyped, Files
    <3>2. script.existing.aggregate = Aggregate(kind, Body(script.reads, script.consts))
      BY <1>1, <2>2, <2>4 DEF FInv, DocumentHeld
    <3>3. script.existing.aggregate.artifacts = [g \in read |-> script.reads[Artifact(g)]]
      BY <3>1, <3>2, AggregatedArtifacts
    <3>4. f \in read
      BY <3>1 DEF Artifact
    <3> QED
      BY <3>1, <3>3, <3>4
  <2>5. AttemptsOnFrozen'
    BY <1>1, <2>1, <2>4 DEF FInv, AttemptsOnFrozen
  <2> QED
    BY <1>1, <2>1, <2>2, <2>3, <2>5 DEF FInv, UsesAreRuns, LoadsAreChecks
<1> QED
  BY <1>3, <1>4

LEMMA EndsFInv == ASSUME FInv, WriteFreeze \/ Seal \/ EndRun PROVE FInv'
<1>1. /\ UNCHANGED <<kind, disk, touched, uses>>
      /\ DOMAIN script = {"op", "pc", "consts", "todo", "reads", "existing", "bad", "exit"}
  BY DEF FInv, DiskTyped, WriteFreeze, Seal, EndRun
<1>2. /\ DOMAIN script' = DOMAIN script /\ script'.op = script.op
      /\ script'.pc = "ended" /\ script'.existing = script.existing
  BY <1>1 DEF WriteFreeze, Seal, EndRun
<1> QED
  BY <1>1, <1>2, StoppedFInv DEF Running

(* Whoever edits something is told of in touched.                          *)
LEMMA EditFInv ==
  ASSUME FInv, EditFile \/ EditScript \/ (\E redo \in BOOLEAN : EditDocument(redo)) PROVE FInv'
<1>1. /\ script' = script /\ uses' = uses /\ kind' = kind /\ touched \subseteq touched'
      /\ doc' = doc \/ "document" \in touched'
      /\ disk' \in [Files -> Versions \cup {Absent}]
      /\ \A f \in Files : f \notin touched' => disk'[f] = disk[f]
  BY DEF FInv, DiskTyped, Edit, EditFile, EditScript, EditDocument
<1>2. DiskTyped' /\ UsesAreRuns' /\ LoadsAreChecks'
  BY <1>1 DEF FInv, DiskTyped, UsesAreRuns, LoadsAreChecks
<1>3. ReadsStand'
  BY <1>1 DEF FInv, ReadsStand, Running
<1>4. DocumentHeld'
  BY <1>1 DEF FInv, DocumentHeld, Running
<1>5. AttemptsOnFrozen'
  BY <1>1 DEF FInv, AttemptsOnFrozen
<1> QED
  BY <1>2, <1>3, <1>4, <1>5 DEF FInv

(* What an attempt of Stage A reads is what the freeze it verified holds,  *)
(* for any tree, any number of runs and edits, unless the file or the      *)
(* document was edited since (run-stage-a.mjs:17).                         *)
THEOREM AttemptsFrozen == StudySpec => []AttemptsOnFrozen
<1>1. FInv /\ [StudyNext]_studyVars => FInv'
  <2> SUFFICES ASSUME FInv, [StudyNext]_studyVars PROVE FInv'
    OBVIOUS
  <2>1. CASE UNCHANGED studyVars
    BY <2>1 DEF studyVars, FInv, DiskTyped, ReadsStand, DocumentHeld, UsesAreRuns, LoadsAreChecks,
                AttemptsOnFrozen, Running
  <2> QED
    BY <2>1, StartFInv, HashFInv, LoadFInv, CheckFInv, VerifyFInv, OpenFInv, ReadFInv, EndsFInv,
       EditFInv DEF StudyNext
<1>2. FInv => AttemptsOnFrozen
  BY DEF FInv
<1> QED
  BY <1>1, <1>2, InitFInv, PTL DEF StudySpec

-----------------------------------------------------------------------------
(***************************************************************************)
(* A verdict is true of the tree.  What the running script has read is the *)
(* disk as long as nobody touches it, and the document on the disk carries *)
(* the seal of what a script, or an editor in its place, put it over.      *)
(***************************************************************************)
Now == [artifacts |-> [f \in Present |-> disk[f]], corpus |-> disk[Corpus],
        settings |-> settings, plan |-> disk[Report]]

IsBody(b) == b = [artifacts |-> b.artifacts, corpus |-> b.corpus,
                  settings |-> b.settings, plan |-> b.plan]

(* A document names every listed file, and what it copies was there.       *)
IsDocument(d) ==
  /\ d = [body |-> d.body, aggregate |-> d.aggregate, digest |-> d.digest]
  /\ IsBody(d.body)
  /\ Listed \subseteq DOMAIN d.body.artifacts
  /\ d.body.corpus # Absent /\ d.body.plan # Absent

SealStands ==
  /\ IsBody(signed)
  /\ doc # NoDoc =>
       /\ IsDocument(doc)
       /\ kind.sealed => \A x \in doc.digest : x[1] = signed
       /\ ~kind.rebuilt => doc.aggregate = Aggregate(kind, signed)

Needed == [file : Listed, as : {"artifact"}]
            \cup {[file |-> Corpus, as |-> "corpus"], [file |-> Report, as |-> "plan"]}

ReadSoFar ==
  script.pc = "hash" =>
    /\ Needed \subseteq script.todo \cup DOMAIN script.reads
    /\ \A r \in DOMAIN script.reads : script.reads[r] # Absent

Checking == script.op = "verify" /\ touched = {}

ReadAsIs ==
  Checking /\ kind.rebuilt /\ script.pc \in {"hash", "verify"} =>
    /\ script.consts = settings
    /\ DOMAIN script.reads \cup (IF script.pc = "hash" THEN script.todo ELSE {}) = Reads
    /\ \A r \in DOMAIN script.reads :
         script.reads[r] = disk[r.file] /\ disk[r.file] # Absent

CheckedSoFar ==
  Checking /\ script.pc = "verify" =>
    /\ script.existing = doc /\ doc # NoDoc
    /\ script.todo \cup script.bad \subseteq DOMAIN doc.body.artifacts
    /\ \A f \in script.bad : disk[f] # doc.body.artifacts[f]
    /\ \A f \in DOMAIN doc.body.artifacts :
         f \in script.todo \cup script.bad \/ disk[f] = doc.body.artifacts[f]

StepsInOrder ==
  /\ script.pc \in {"hash", "load", "verify", "seal"} => script.exit = 0
  /\ script.pc \in {"hash", "load"} => script.bad = {}
  /\ script.pc = "load" => script.op = "verify" /\ ~kind.rebuilt
  /\ script.pc = "hash" /\ script.op = "verify" => kind.rebuilt
  /\ script.pc = "hash" => script.op \in {"freeze", "seal", "verify", "run"}
  /\ script.pc = "verify" => script.op \in {"verify", "run"}
  /\ script.pc = "verify" /\ ~kind.rebuilt => script.bad = {}
  /\ script.op \in {"seal", "run"} => kind.sealed
  /\ script.pc = "seal" => script.op = "seal" /\ IsDocument(script.existing)
  /\ script.pc \in {"open", "attempt"} => script.op = "run"

VInv ==
  /\ DiskTyped /\ SealStands /\ ReadSoFar /\ ReadAsIs /\ CheckedSoFar /\ StepsInOrder
  /\ VerdictIsTrue

LEMMA KindsOfFreeze ==
  ASSUME kind \in Kinds
  PROVE  /\ kind.sealed => kind.rebuilt
         /\ ~kind.rebuilt => kind.covers = Fields
BY StudyAssumption DEF HeldoutFreeze, GateMV1Freeze, GateMV2Freeze, GateMV3Freeze

LEMMA DocumentHas ==
  ASSUME NEW body, NEW d, d = Document(kind, body)
  PROVE  /\ d = [body |-> d.body, aggregate |-> d.aggregate, digest |-> d.digest]
         /\ d.body = body /\ d.aggregate = Aggregate(kind, body)
         /\ d.digest = IF kind.sealed THEN {<<body, Aggregate(kind, body)>>} ELSE Unsealed
BY DEF Document, Digest

(* What a script has read of a tree nobody touched is the tree.            *)
LEMMA BodyIsNow ==
  ASSUME script.consts = settings, DOMAIN script.reads = Reads,
         \A r \in DOMAIN script.reads : script.reads[r] = disk[r.file] /\ disk[r.file] # Absent
  PROVE  Body(script.reads, script.consts) = Now
<1> DEFINE read == {r.file : r \in {q \in DOMAIN script.reads : q.as = "artifact"}}
<1>1. \A f \in Present \cup Listed : Artifact(f) \in Reads
  BY DEF Reads, Artifact
<1>2. \A r \in Reads : r.as = "artifact" => r.file \in Present \cup Listed
  BY DEF Reads
<1>3. Listed \subseteq Present
  <2> SUFFICES ASSUME NEW f \in Listed PROVE f \in Present
    OBVIOUS
  <2>1. Artifact(f) \in DOMAIN script.reads /\ Artifact(f).file = f
    BY <1>1 DEF Artifact
  <2>2. disk[f] # Absent
    BY <2>1
  <2> QED
    BY <2>2 DEF Present, Files
<1>4. read = Present
  <2>1. ASSUME NEW f \in Present PROVE f \in read
    <3>1. Artifact(f) \in DOMAIN script.reads /\ Artifact(f).file = f /\ Artifact(f).as = "artifact"
      BY <1>1 DEF Artifact
    <3> QED
      BY <3>1
  <2>2. ASSUME NEW f \in read PROVE f \in Present
    BY <1>2, <1>3
  <2> QED
    BY <2>1, <2>2
<1>5. \A f \in Present : script.reads[[file |-> f, as |-> "artifact"]] = disk[f]
  BY <1>1 DEF Artifact
<1>6. /\ script.reads[[file |-> Corpus, as |-> "corpus"]] = disk[Corpus]
      /\ script.reads[[file |-> Report, as |-> "plan"]] = disk[Report]
  BY DEF Reads
<1> QED
  BY <1>4, <1>5, <1>6 DEF Body, Now

(* A document over the tree as it is passes every check.                   *)
LEMMA NowIsComplete ==
  ASSUME kind \in Kinds, doc = Document(kind, Now), IsDocument(doc)
  PROVE  /\ \A f \in DOMAIN doc.body.artifacts : disk[f] = doc.body.artifacts[f]
         /\ doc.aggregate = Aggregate(kind, Now) /\ doc.body = Now
         /\ kind.sealed => doc.digest = Digest(doc)
         /\ \A f \in Listed : disk[f] # Absent
         /\ disk[Corpus] # Absent /\ disk[Report] # Absent
<1>1. doc.body = Now /\ doc.aggregate = Aggregate(kind, Now)
  BY DocumentHas
<1>2. doc.body.artifacts = [f \in Present |-> disk[f]]
  BY <1>1 DEF Now
<1>3. kind.sealed => doc.digest = Digest(doc)
  BY <1>1, DocumentHas DEF Digest
<1>4. \A f \in Listed : disk[f] # Absent
  BY <1>2 DEF IsDocument, Present
<1>5. disk[Corpus] # Absent /\ disk[Report] # Absent
  BY <1>1 DEF IsDocument, Now
<1> QED
  BY <1>1, <1>2, <1>3, <1>4, <1>5

LEMMA InitVInv == StudyInit => VInv
<1> SUFFICES ASSUME StudyInit PROVE VInv
  OBVIOUS
<1>1. /\ script = Idle /\ kind \in Kinds /\ disk \in [Files -> Versions \cup {Absent}]
  BY DEF StudyInit
<1>2. /\ script.op = "none" /\ script.pc = "idle"
      /\ DOMAIN script = {"op", "pc", "consts", "todo", "reads", "existing", "bad", "exit"}
  BY <1>1 DEF Idle
<1>3. SealStands
  <2>1. PICK v \in Versions, more \in SUBSET (Tree \ {Corpus, Report}) :
          /\ disk = [f \in Files |-> IF f \in Listed \cup {Corpus, Report} \cup more THEN v ELSE Absent]
          /\ signed = [artifacts |-> [f \in Present |-> v], corpus |-> v, settings |-> v, plan |-> v]
          /\ doc \in {NoDoc, [Document(kind, signed) EXCEPT !.digest = Unsealed]}
    BY DEF StudyInit
  <2>2. v # Absent
    BY StudyAssumption DEF Absent
  <2>3. Listed \subseteq Present
    BY <2>1, <2>2 DEF Present, Files
  <2>4. IsBody(signed) /\ signed.corpus = v /\ signed.plan = v /\ DOMAIN signed.artifacts = Present
    BY <2>1 DEF IsBody
  <2>5. ASSUME doc # NoDoc
        PROVE  /\ doc = [body |-> doc.body, aggregate |-> doc.aggregate, digest |-> doc.digest]
               /\ doc.body = signed /\ doc.aggregate = Aggregate(kind, signed) /\ doc.digest = {}
    <3>1. doc = [Document(kind, signed) EXCEPT !.digest = Unsealed]
      BY <2>1, <2>5
    <3> DEFINE plain == Document(kind, signed)
    <3>2. /\ plain = [body |-> plain.body, aggregate |-> plain.aggregate, digest |-> plain.digest]
          /\ plain.body = signed /\ plain.aggregate = Aggregate(kind, signed)
      BY DocumentHas
    <3>3. doc = [plain EXCEPT !.digest = {}]
      BY <3>1 DEF Unsealed
    <3> HIDE DEF plain
    <3> QED
      BY <3>2, <3>3
  <2> QED
    BY <2>2, <2>3, <2>4, <2>5 DEF SealStands, IsDocument
<1> QED
  BY <1>1, <1>2, <1>3 DEF VInv, DiskTyped, ReadSoFar, ReadAsIs, CheckedSoFar, StepsInOrder,
                          VerdictIsTrue, Checking

(* A script that ends.                                                     *)
LEMMA EndedVInv ==
  ASSUME VInv, UNCHANGED <<kind, disk>>, DOMAIN script' = DOMAIN script,
         script'.pc = "ended", script'.op = script.op, SealStands', VerdictIsTrue'
  PROVE  VInv'
BY DEF VInv, DiskTyped, ReadSoFar, ReadAsIs, CheckedSoFar, StepsInOrder

LEMMA RefusalIsTrue ==
  ASSUME script'.exit = 1, script'.op = script.op,
         UNCHANGED <<kind, disk, settings, doc, touched>>,
         Checking /\ doc # NoDoc => doc # Document(kind, Now)
  PROVE  VerdictIsTrue'
<1>1. Now' = Now /\ Checking' = Checking
  BY DEF Now, Present, Checking
<1>2. Checking' => ~ (doc' # NoDoc /\ doc' = Document(kind', Now'))
  BY <1>1
<1> QED
  BY <1>2 DEF VerdictIsTrue, Now, Checking

LEMMA StartVInv ==
  ASSUME VInv, NEW op \in {"freeze", "seal", "verify", "run"}, Start(op) PROVE VInv'
<1>1. UNCHANGED <<kind, disk, settings, doc, signed>> /\ touched' = {}
      /\ (op \in {"seal", "run"} => kind.sealed)
  BY DEF Start
<1>2. /\ script'.op = op /\ script'.consts = settings /\ script'.reads = NoReads
      /\ script'.bad = {} /\ script'.exit = 0
      /\ DOMAIN script' = {"op", "pc", "consts", "todo", "reads", "existing", "bad", "exit"}
      /\ IF op = "verify" /\ ~kind.rebuilt THEN script'.pc = "load"
         ELSE script'.pc = "hash" /\ script'.todo = Reads
  <2>1. /\ DOMAIN Idle = {"op", "pc", "consts", "todo", "reads", "existing", "bad", "exit"}
        /\ Idle.consts = settings /\ Idle.reads = NoReads /\ Idle.bad = {} /\ Idle.exit = 0
    BY DEF Idle
  <2>2. CASE op = "verify" /\ ~kind.rebuilt
    <3>1. script' = [[Idle EXCEPT !.op = op] EXCEPT !.pc = "load"]
      BY <2>2 DEF Start
    <3> QED
      BY <2>1, <2>2, <3>1
  <2>3. CASE ~(op = "verify" /\ ~kind.rebuilt)
    <3>1. script' = [[[Idle EXCEPT !.op = op] EXCEPT !.pc = "hash"] EXCEPT !.todo = Reads]
      BY <2>3 DEF Start
    <3> QED
      BY <2>1, <2>3, <3>1
  <2> QED
    BY <2>2, <2>3
<1>3. DOMAIN script'.reads = {}
  BY <1>2 DEF NoReads
<1>4. SealStands'
  BY <1>1 DEF VInv, SealStands
<1>5. ReadSoFar'
  <2>1. Needed \subseteq Reads
    BY DEF Needed, Reads
  <2> QED
    BY <1>1, <1>2, <1>3, <2>1 DEF ReadSoFar, Needed
<1>6. ReadAsIs'
  <2>1. Reads' = Reads
    BY <1>1 DEF Reads, Present
  <2> QED
    BY <1>1, <1>2, <1>3, <2>1 DEF ReadAsIs
<1>7. StepsInOrder' /\ CheckedSoFar' /\ VerdictIsTrue'
  BY <1>1, <1>2 DEF StepsInOrder, CheckedSoFar, VerdictIsTrue
<1>8. DiskTyped'
  BY <1>1, <1>2 DEF VInv, DiskTyped
<1> QED
  BY <1>4, <1>5, <1>6, <1>7, <1>8 DEF VInv

LEMMA HashVInv == ASSUME VInv, HashOne PROVE VInv'
<1>1. PICK r \in script.todo :
        script' = IF disk[r.file] = Absent
                  THEN [script EXCEPT !.pc = "ended", !.exit = 1]
                  ELSE [script EXCEPT !.todo = @ \ {r},
                          !.reads = [q \in DOMAIN @ \cup {r} |->
                                       IF q = r THEN disk[r.file] ELSE @[q]]]
  BY DEF HashOne
<1>2. /\ script.pc = "hash" /\ UNCHANGED <<kind, disk, settings, doc, signed, touched>>
      /\ DOMAIN script = {"op", "pc", "consts", "todo", "reads", "existing", "bad", "exit"}
  BY DEF VInv, DiskTyped, HashOne
<1>3. SealStands'
  BY <1>2 DEF VInv, SealStands
<1>4. Reads' = Reads
  BY <1>2 DEF Reads, Present
<1>5. CASE disk[r.file] = Absent
  <2>1. /\ DOMAIN script' = DOMAIN script /\ script'.pc = "ended" /\ script'.op = script.op
        /\ script'.exit = 1
    BY <1>1, <1>2, <1>5
  <2>2. ASSUME Checking, doc # NoDoc, doc = Document(kind, Now) PROVE FALSE
    <3>1. /\ \A f \in Listed : disk[f] # Absent
          /\ disk[Corpus] # Absent /\ disk[Report] # Absent
      BY <2>2, NowIsComplete DEF VInv, SealStands, DiskTyped
    <3>2. r \in Reads
      BY <1>2, <2>2 DEF VInv, ReadAsIs, StepsInOrder, Checking
    <3> QED
      BY <1>5, <3>1, <3>2 DEF Reads, Present
  <2>3. VerdictIsTrue'
    BY <1>2, <2>1, <2>2, RefusalIsTrue
  <2> QED
    BY <1>2, <1>3, <2>1, <2>3, EndedVInv
<1>6. CASE disk[r.file] # Absent
  <2>1. /\ script'.op = script.op /\ script'.pc = "hash" /\ script'.todo = script.todo \ {r}
        /\ DOMAIN script'.reads = DOMAIN script.reads \cup {r}
        /\ DOMAIN script' = DOMAIN script /\ script'.consts = script.consts
        /\ script'.bad = script.bad /\ script'.exit = script.exit
        /\ \A q \in DOMAIN script.reads \cup {r} :
             script'.reads[q] = IF q = r THEN disk[r.file] ELSE script.reads[q]
    BY <1>1, <1>2, <1>6
  <2>2. ReadSoFar'
    BY <1>2, <1>6, <2>1 DEF VInv, ReadSoFar, Needed
  <2>3. ReadAsIs'
    <3> SUFFICES ASSUME Checking, kind.rebuilt
                 PROVE  /\ script'.consts = settings
                        /\ DOMAIN script'.reads \cup script'.todo = Reads
                        /\ \A q \in DOMAIN script'.reads :
                             script'.reads[q] = disk[q.file] /\ disk[q.file] # Absent
      BY <1>2, <1>4, <2>1 DEF ReadAsIs, Checking
    <3>1. /\ script.consts = settings
          /\ DOMAIN script.reads \cup script.todo = Reads
          /\ \A q \in DOMAIN script.reads :
               script.reads[q] = disk[q.file] /\ disk[q.file] # Absent
      BY <1>2 DEF VInv, ReadAsIs
    <3> QED
      BY <1>6, <2>1, <3>1
  <2> QED
    BY <1>2, <1>3, <2>1, <2>2, <2>3
    DEF VInv, DiskTyped, CheckedSoFar, StepsInOrder, VerdictIsTrue
<1> QED
  BY <1>5, <1>6

LEMMA WriteVInv == ASSUME VInv, WriteFreeze PROVE VInv'
<1> DEFINE body == Body(script.reads, script.consts)
<1>1. /\ script.pc = "hash" /\ script.todo = {} /\ script.op = "freeze"
      /\ doc' = Document(kind, body) /\ signed' = body /\ UNCHANGED <<kind, disk>>
      /\ DOMAIN script = {"op", "pc", "consts", "todo", "reads", "existing", "bad", "exit"}
  BY DEF VInv, DiskTyped, WriteFreeze
<1>2. DOMAIN script' = DOMAIN script /\ script'.pc = "ended" /\ script'.op = script.op
  BY <1>1 DEF WriteFreeze
<1>3. Needed \subseteq DOMAIN script.reads /\ \A r \in DOMAIN script.reads : script.reads[r] # Absent
  BY <1>1 DEF VInv, ReadSoFar
<1>4. /\ IsBody(body) /\ body.corpus = script.reads[[file |-> Corpus, as |-> "corpus"]]
      /\ body.plan = script.reads[[file |-> Report, as |-> "plan"]]
      /\ DOMAIN body.artifacts = {r.file : r \in {q \in DOMAIN script.reads : q.as = "artifact"}}
  BY DEF Body, IsBody
<1>5. Listed \subseteq DOMAIN body.artifacts
  <2> SUFFICES ASSUME NEW f \in Listed PROVE f \in DOMAIN body.artifacts
    OBVIOUS
  <2>1. Artifact(f) \in Needed /\ Artifact(f).file = f /\ Artifact(f).as = "artifact"
    BY DEF Needed, Artifact
  <2> QED
    BY <1>3, <1>4, <2>1
<1>6. body.corpus # Absent /\ body.plan # Absent
  BY <1>3, <1>4 DEF Needed
<1> HIDE DEF body
<1>7. /\ doc' = [body |-> doc'.body, aggregate |-> doc'.aggregate, digest |-> doc'.digest]
      /\ doc'.body = body /\ doc'.aggregate = Aggregate(kind, body)
      /\ kind.sealed => doc'.digest = {<<body, Aggregate(kind, body)>>}
  BY <1>1, DocumentHas
<1>8. SealStands'
  <2>1. IsDocument(doc')
    BY <1>4, <1>5, <1>6, <1>7 DEF IsDocument
  <2>2. kind'.sealed => \A x \in doc'.digest : x[1] = signed'
    BY <1>1, <1>7
  <2>3. doc'.aggregate = Aggregate(kind', signed')
    BY <1>1, <1>7
  <2> QED
    BY <1>1, <1>4, <2>1, <2>2, <2>3 DEF SealStands, IsBody, IsDocument
<1>9. VerdictIsTrue'
  BY <1>1, <1>2 DEF VerdictIsTrue
<1> QED
  BY <1>1, <1>2, <1>8, <1>9, EndedVInv

LEMMA LoadVInv == ASSUME VInv, LoadDocument PROVE VInv'
<1>1. /\ UNCHANGED <<kind, disk, settings, doc, signed, touched>>
      /\ DOMAIN script = {"op", "pc", "consts", "todo", "reads", "existing", "bad", "exit"}
      /\ script.pc = "load" \/ (script.pc = "hash" /\ script.todo = {} /\ script.op # "freeze")
  BY DEF VInv, DiskTyped, LoadDocument
<1>2. SealStands' /\ Reads' = Reads
  BY <1>1 DEF VInv, SealStands, Reads, Present
<1>3. CASE doc = NoDoc
  <2>1. /\ DOMAIN script' = DOMAIN script /\ script'.pc = "ended" /\ script'.op = script.op
        /\ script'.exit = 1
    BY <1>1, <1>3 DEF LoadDocument
  <2>2. VerdictIsTrue'
    BY <1>1, <1>3, <2>1, RefusalIsTrue
  <2> QED
    BY <1>1, <1>2, <2>1, <2>2, EndedVInv
<1>4. CASE doc # NoDoc
  <2>1. script' = [script EXCEPT !.pc = IF script.op = "seal" THEN "seal" ELSE "verify",
                     !.existing = doc,
                     !.todo = IF script.op = "seal" THEN {} ELSE DOMAIN doc.body.artifacts]
    BY <1>4 DEF LoadDocument
  <2>2. /\ DOMAIN script' = DOMAIN script /\ script'.op = script.op /\ script'.existing = doc
        /\ script'.pc = (IF script.op = "seal" THEN "seal" ELSE "verify")
        /\ script'.todo = (IF script.op = "seal" THEN {} ELSE DOMAIN doc.body.artifacts)
        /\ script'.bad = script.bad /\ script'.exit = script.exit
        /\ script'.reads = script.reads /\ script'.consts = script.consts
    BY <1>1, <2>1
  <2>3. script.bad = {} /\ script.exit = 0
    BY <1>1 DEF VInv, StepsInOrder
  <2>4. CheckedSoFar'
    BY <1>1, <1>4, <2>2, <2>3 DEF CheckedSoFar, Checking
  <2>5. ReadAsIs'
    <3> SUFFICES ASSUME Checking, kind.rebuilt, script'.pc = "verify"
                 PROVE  /\ script'.consts = settings /\ DOMAIN script'.reads = Reads
                        /\ \A q \in DOMAIN script'.reads :
                             script'.reads[q] = disk[q.file] /\ disk[q.file] # Absent
      BY <1>1, <1>2, <2>2 DEF ReadAsIs, Checking
    <3>1. script.pc = "hash" /\ script.todo = {}
      BY <1>1 DEF VInv, StepsInOrder
    <3> QED
      BY <2>2, <3>1 DEF VInv, ReadAsIs
  <2>6. StepsInOrder'
    <3>1. script.op = "seal" => IsDocument(script'.existing)
      BY <1>4, <2>2 DEF VInv, SealStands
    <3>2. script.op \in {"seal", "verify", "run"}
      BY <1>1 DEF VInv, StepsInOrder
    <3> QED
      BY <1>1, <2>2, <2>3, <3>1, <3>2 DEF VInv, StepsInOrder, IsDocument
  <2> QED
    BY <1>1, <1>2, <2>2, <2>4, <2>5, <2>6 DEF VInv, DiskTyped, ReadSoFar, VerdictIsTrue
<1> QED
  BY <1>3, <1>4

LEMMA SealVInv == ASSUME VInv, Seal PROVE VInv'
<1> DEFINE old == script.existing
<1>1. /\ script.pc = "seal" /\ UNCHANGED <<kind, disk>>
      /\ DOMAIN script = {"op", "pc", "consts", "todo", "reads", "existing", "bad", "exit"}
      /\ kind \in Kinds
  BY DEF VInv, DiskTyped, Seal
<1>2. script.op = "seal" /\ kind.sealed /\ kind.rebuilt /\ IsDocument(old)
  BY <1>1, KindsOfFreeze DEF VInv, StepsInOrder
<1>3. DOMAIN script' = DOMAIN script /\ script'.pc = "ended" /\ script'.op = script.op
  BY <1>1 DEF Seal
<1>4. SealStands'
  <2>1. CASE old.digest = Unsealed
    <3>1. doc' = [old EXCEPT !.digest = Digest(old)] /\ signed' = old.body
      BY <2>1 DEF Seal, MayBeSealed
    <3>2. /\ doc' = [body |-> doc'.body, aggregate |-> doc'.aggregate, digest |-> doc'.digest]
          /\ doc'.body = old.body /\ doc'.digest = {<<old.body, old.aggregate>>}
      BY <1>2, <3>1 DEF IsDocument, Digest
    <3>3. IsDocument(doc')
      BY <1>2, <3>2 DEF IsDocument
    <3>4. IsBody(signed')
      BY <1>2, <3>1 DEF IsDocument
    <3>5. \A x \in doc'.digest : x[1] = signed'
      BY <3>1, <3>2
    <3> QED
      BY <1>1, <1>2, <3>3, <3>4, <3>5 DEF SealStands, IsDocument, IsBody
  <2>2. CASE old.digest # Unsealed
    <3>1. UNCHANGED <<doc, signed>>
      BY <2>2 DEF Seal, MayBeSealed
    <3> QED
      BY <1>1, <3>1 DEF VInv, SealStands
  <2> QED
    BY <2>1, <2>2
<1>5. VerdictIsTrue'
  BY <1>2, <1>3 DEF VerdictIsTrue
<1> QED
  BY <1>1, <1>3, <1>4, <1>5, EndedVInv

LEMMA CheckVInv == ASSUME VInv, CheckOne PROVE VInv'
<1> DEFINE f == CHOOSE g \in script.todo : TRUE
           frozen == script.existing.body.artifacts
<1>1. /\ script.pc = "verify" /\ f \in script.todo
      /\ UNCHANGED <<kind, disk, settings, doc, signed, touched>>
      /\ DOMAIN script = {"op", "pc", "consts", "todo", "reads", "existing", "bad", "exit"}
      /\ kind \in Kinds
  BY DEF VInv, DiskTyped, CheckOne
<1>2. script' = IF disk[f] = frozen[f]
                THEN [script EXCEPT !.todo = @ \ {f}]
                ELSE IF ~kind.rebuilt THEN [script EXCEPT !.pc = "ended", !.exit = 1]
                ELSE [script EXCEPT !.todo = @ \ {f}, !.bad = @ \cup {f}]
  BY DEF CheckOne
<1>3. SealStands' /\ Reads' = Reads
  BY <1>1 DEF VInv, SealStands, Reads, Present
<1> HIDE DEF f
<1>4. CASE disk[f] # frozen[f] /\ ~kind.rebuilt
  <2>1. /\ DOMAIN script' = DOMAIN script /\ script'.pc = "ended" /\ script'.op = script.op
        /\ script'.exit = 1
    BY <1>1, <1>2, <1>4
  <2>2. ASSUME Checking, doc # NoDoc, doc = Document(kind, Now) PROVE FALSE
    <3>1. script.existing = doc /\ f \in DOMAIN doc.body.artifacts
      BY <1>1, <2>2 DEF VInv, CheckedSoFar
    <3>2. IsDocument(doc)
      BY <2>2 DEF VInv, SealStands
    <3>3. disk[f] = doc.body.artifacts[f]
      BY <1>1, <2>2, <3>1, <3>2, NowIsComplete
    <3> QED
      BY <1>4, <3>1, <3>3
  <2>3. VerdictIsTrue'
    BY <1>1, <2>1, <2>2, RefusalIsTrue
  <2> QED
    BY <1>1, <1>3, <2>1, <2>3, EndedVInv
<1>5. CASE ~(disk[f] # frozen[f] /\ ~kind.rebuilt)
  <2>1. /\ DOMAIN script' = DOMAIN script /\ script'.pc = "verify" /\ script'.op = script.op
        /\ script'.exit = script.exit /\ script'.existing = script.existing
        /\ script'.reads = script.reads /\ script'.consts = script.consts
        /\ script'.todo = script.todo \ {f}
        /\ script'.bad = IF disk[f] = frozen[f] THEN script.bad ELSE script.bad \cup {f}
    BY <1>1, <1>2, <1>5
  <2>2. CheckedSoFar'
    BY <1>1, <2>1 DEF VInv, CheckedSoFar, Checking
  <2>3. ReadAsIs'
    BY <1>1, <1>3, <2>1 DEF VInv, ReadAsIs, Checking
  <2>4. StepsInOrder'
    BY <1>1, <1>5, <2>1 DEF VInv, StepsInOrder
  <2> QED
    BY <1>1, <1>3, <2>1, <2>2, <2>3, <2>4 DEF VInv, DiskTyped, ReadSoFar, VerdictIsTrue
<1> QED
  BY <1>4, <1>5

(* Exit 0: what the verification has compared is equal.                    *)
LEMMA AcceptanceIsTrue ==
  ASSUME VInv, Checking, script.pc = "verify", script.todo = {}, FreezeVerifies(kind, script)
  PROVE  /\ doc # NoDoc
         /\ \A f \in DOMAIN doc.body.artifacts : disk[f] = doc.body.artifacts[f]
         /\ kind.rebuilt => doc.aggregate = Aggregate(kind, Now)
         /\ kind.sealed \/ ~kind.rebuilt => doc.body = signed
<1>1. /\ script.existing = doc /\ doc # NoDoc /\ kind \in Kinds
      /\ \A f \in DOMAIN doc.body.artifacts :
           f \in script.bad \/ disk[f] = doc.body.artifacts[f]
  BY DEF VInv, DiskTyped, CheckedSoFar
<1>2. script.bad = {}
  BY DEF FreezeVerifies, VerifiesHeldout, VerifiesRebuilt, VerifiesV1
<1>3. IsBody(signed) /\ IsDocument(doc)
  BY <1>1 DEF VInv, SealStands
<1>4. ASSUME kind.rebuilt PROVE doc.aggregate = Aggregate(kind, Now)
  <2>1. /\ script.consts = settings /\ DOMAIN script.reads = Reads
        /\ \A r \in DOMAIN script.reads : script.reads[r] = disk[r.file] /\ disk[r.file] # Absent
    BY <1>4 DEF VInv, ReadAsIs
  <2>2. Body(script.reads, script.consts) = Now
    BY <2>1, BodyIsNow
  <2> QED
    BY <1>1, <1>4, <2>2 DEF FreezeVerifies, VerifiesHeldout, VerifiesRebuilt
<1>5. ASSUME kind.sealed PROVE doc.body = signed
  <2>1. doc.digest = {<<doc.body, doc.aggregate>>}
    BY <1>1, <1>5 DEF FreezeVerifies, VerifiesHeldout, Digest
  <2>2. \A x \in doc.digest : x[1] = signed
    BY <1>1, <1>5 DEF VInv, SealStands
  <2> QED
    BY <2>1, <2>2
<1>6. ASSUME ~kind.rebuilt PROVE doc.body = signed
  <2>1. ~kind.sealed /\ kind.covers = Fields
    BY <1>1, <1>6, KindsOfFreeze
  <2>2. Aggregate(kind, doc.body) = Aggregate(kind, signed)
    BY <1>1, <1>6, <2>1 DEF VInv, SealStands, FreezeVerifies, VerifiesV1
  <2>3. \A g \in Fields : doc.body[g] = signed[g]
    BY <2>1, <2>2 DEF Aggregate
  <2> QED
    BY <1>3, <2>3 DEF IsDocument, IsBody, Fields
<1> QED
  BY <1>1, <1>2, <1>4, <1>5, <1>6

LEMMA VerifyVInv == ASSUME VInv, Verify PROVE VInv'
<1>1. /\ script.pc = "verify" /\ script.todo = {}
      /\ UNCHANGED <<kind, disk, settings, doc, signed, marred, touched>>
      /\ DOMAIN script = {"op", "pc", "consts", "todo", "reads", "existing", "bad", "exit"}
      /\ kind \in Kinds
  BY DEF VInv, DiskTyped, Verify
<1>2. SealStands' /\ Now' = Now
  BY <1>1 DEF VInv, SealStands, Now, Present
<1>3. CASE ~FreezeVerifies(kind, script)
  <2>1. /\ DOMAIN script' = DOMAIN script /\ script'.pc = "ended" /\ script'.op = script.op
        /\ script'.exit = 1
    BY <1>1, <1>3 DEF Verify
  <2>2. ASSUME Checking, doc # NoDoc, doc = Document(kind, Now) PROVE FALSE
    <3>1. script.existing = doc /\ \A f \in script.bad : f \in DOMAIN doc.body.artifacts
                                                       /\ disk[f] # doc.body.artifacts[f]
      BY <1>1, <2>2 DEF VInv, CheckedSoFar
    <3>2. /\ \A f \in DOMAIN doc.body.artifacts : disk[f] = doc.body.artifacts[f]
          /\ doc.aggregate = Aggregate(kind, Now) /\ doc.body = Now
          /\ kind.sealed => doc.digest = Digest(doc)
      <4>1. IsDocument(doc)
        BY <2>2 DEF VInv, SealStands
      <4> QED
        BY <1>1, <2>2, <4>1, NowIsComplete
    <3>3. script.bad = {}
      BY <3>1, <3>2
    <3>4. kind.rebuilt => Body(script.reads, script.consts) = Now
      BY <1>1, <2>2, BodyIsNow DEF VInv, ReadAsIs
    <3>5. kind.sealed => kind.rebuilt
      BY <1>1, KindsOfFreeze
    <3> QED
      BY <1>3, <3>1, <3>2, <3>3, <3>4, <3>5
      DEF FreezeVerifies, VerifiesHeldout, VerifiesRebuilt, VerifiesV1
  <2>3. VerdictIsTrue'
    BY <1>1, <2>1, <2>2, RefusalIsTrue
  <2> QED
    BY <1>1, <1>2, <2>1, <2>3, EndedVInv
<1>4. CASE FreezeVerifies(kind, script)
  <2>1. /\ DOMAIN script' = DOMAIN script /\ script'.op = script.op /\ script'.exit = script.exit
        /\ script'.pc = IF script.op = "run" THEN "open" ELSE "ended"
    BY <1>1, <1>4 DEF Verify
  <2>2. script.exit = 0
    BY <1>1 DEF VInv, StepsInOrder
  <2>3. VerdictIsTrue'
    <3>1. Checking' = Checking
      BY <1>1, <2>1 DEF Checking
    <3>2. Checking =>
            /\ doc # NoDoc
            /\ \A f \in DOMAIN doc.body.artifacts : disk[f] = doc.body.artifacts[f]
            /\ kind.rebuilt => doc.aggregate = Aggregate(kind, Now)
            /\ kind.sealed \/ ~kind.rebuilt => doc.body = signed
      BY <1>1, <1>4, AcceptanceIsTrue
    <3>3. Checking' =>
            /\ doc' # NoDoc
            /\ \A f \in DOMAIN doc'.body.artifacts : disk'[f] = doc'.body.artifacts[f]
            /\ kind'.rebuilt => doc'.aggregate = Aggregate(kind', Now')
            /\ kind'.sealed \/ ~kind'.rebuilt => doc'.body = signed'
      BY <1>1, <1>2, <3>1, <3>2
    <3> QED
      BY <2>1, <2>2, <3>3 DEF VerdictIsTrue, Now, Checking
  <2>4. CASE script.op = "run"
    BY <1>1, <1>2, <2>1, <2>2, <2>3, <2>4
    DEF VInv, DiskTyped, ReadSoFar, ReadAsIs, CheckedSoFar, StepsInOrder
  <2>5. CASE script.op # "run"
    BY <1>1, <1>2, <2>1, <2>3, <2>5, EndedVInv
  <2> QED
    BY <2>4, <2>5
<1> QED
  BY <1>3, <1>4

LEMMA RunVInv == ASSUME VInv, OpenRun \/ ReadInput \/ EndRun PROVE VInv'
<1>1. /\ UNCHANGED <<kind, disk, doc, signed>> /\ script.pc \in {"open", "attempt"}
      /\ DOMAIN script = {"op", "pc", "consts", "todo", "reads", "existing", "bad", "exit"}
  BY DEF VInv, DiskTyped, OpenRun, ReadInput, EndRun
<1>2. script.op = "run"
  BY <1>1 DEF VInv, StepsInOrder
<1>3. /\ DOMAIN script' = DOMAIN script /\ script'.op = script.op
      /\ script'.pc \in {"attempt", "ended"}
  BY <1>1 DEF OpenRun, ReadInput, EndRun
<1>4. SealStands'
  BY <1>1 DEF VInv, SealStands
<1> QED
  BY <1>1, <1>2, <1>3, <1>4 DEF VInv, DiskTyped, ReadSoFar, ReadAsIs, CheckedSoFar, StepsInOrder,
                                Checking, VerdictIsTrue

(* An edit ends what a verdict says, and keeps the seal or redoes it.      *)
LEMMA EditVInv ==
  ASSUME VInv, EditFile \/ EditScript \/ (\E redo \in BOOLEAN : EditDocument(redo)) PROVE VInv'
<1>1. /\ script' = script /\ kind' = kind /\ touched' # {}
      /\ disk' \in [Files -> Versions \cup {Absent}]
  BY DEF VInv, DiskTyped, Edit, EditFile, EditScript, EditDocument
<1>2. SealStands'
  <2>1. CASE EditFile \/ EditScript
    BY <1>1, <2>1 DEF VInv, SealStands, EditFile, EditScript
  <2>2. CASE \E redo \in BOOLEAN : EditDocument(redo)
    <3>1. PICK redo \in BOOLEAN, field \in {"settings", "plan"}, v \in Versions :
            /\ doc # NoDoc
            /\ doc' = [body |-> [doc.body EXCEPT ![field] = v],
                       aggregate |-> IF redo /\ ~kind.rebuilt
                                     THEN Aggregate(kind, [doc.body EXCEPT ![field] = v])
                                     ELSE doc.aggregate,
                       digest |-> IF redo THEN Unsealed ELSE doc.digest]
            /\ signed' = IF redo THEN doc'.body ELSE signed
      BY <2>2 DEF EditDocument
    <3>2. IsDocument(doc) /\ IsBody(signed) /\ v # Absent
      BY <3>1, StudyAssumption DEF VInv, SealStands, Absent
    <3> DEFINE body == [doc.body EXCEPT ![field] = v]
    <3>3. /\ IsBody(body) /\ body.artifacts = doc.body.artifacts
          /\ body.corpus # Absent /\ body.plan # Absent
      <4>1. CASE field = "settings"
        BY <3>2, <4>1 DEF IsDocument, IsBody
      <4>2. CASE field = "plan"
        BY <3>2, <4>2 DEF IsDocument, IsBody
      <4> QED
        BY <4>1, <4>2
    <3> HIDE DEF body
    <3>4. /\ doc' = [body |-> doc'.body, aggregate |-> doc'.aggregate, digest |-> doc'.digest]
          /\ doc'.body = body
          /\ doc'.digest = IF redo THEN {} ELSE doc.digest
          /\ doc'.aggregate = IF redo /\ ~kind.rebuilt THEN Aggregate(kind, body) ELSE doc.aggregate
          /\ signed' = IF redo THEN body ELSE signed
      BY <3>1 DEF body, Unsealed
    <3>5. IsDocument(doc')
      BY <3>2, <3>3, <3>4 DEF IsDocument
    <3>6. IsBody(signed')
      BY <3>2, <3>3, <3>4
    <3>7. kind.sealed => \A x \in doc'.digest : x[1] = signed'
      BY <3>1, <3>4 DEF VInv, SealStands
    <3>8. ~kind.rebuilt => doc'.aggregate = Aggregate(kind, signed')
      BY <3>1, <3>4 DEF VInv, SealStands
    <3> QED
      BY <1>1, <3>5, <3>6, <3>7, <3>8 DEF SealStands, IsDocument, IsBody
  <2> QED
    BY <2>1, <2>2
<1>3. DiskTyped' /\ ReadSoFar' /\ StepsInOrder'
  BY <1>1 DEF VInv, DiskTyped, ReadSoFar, StepsInOrder, Needed, IsDocument, IsBody
<1> QED
  BY <1>1, <1>2, <1>3 DEF VInv, ReadAsIs, CheckedSoFar, VerdictIsTrue, Checking

(* Whichever freeze it is, whatever was edited before, in whatever order   *)
(* its files are read: a verdict over a tree left alone meanwhile is true  *)
(* (freeze.mjs:292-344, verifyGateMStudyFreeze).                           *)
THEOREM VerdictsAreTrue == StudySpec => []VerdictIsTrue
<1>1. VInv /\ [StudyNext]_studyVars => VInv'
  <2> SUFFICES ASSUME VInv, [StudyNext]_studyVars PROVE VInv'
    OBVIOUS
  <2>1. CASE UNCHANGED studyVars
    <3>1. UNCHANGED <<kind, disk, settings, doc, script, signed, marred, touched>>
      BY <2>1 DEF studyVars
    <3>2. SealStands' /\ Reads' = Reads /\ Now' = Now
      BY <3>1 DEF VInv, SealStands, Reads, Now, Present
    <3>3. VerdictIsTrue'
      BY <3>1 DEF VInv, VerdictIsTrue, Present
    <3> QED
      BY <3>1, <3>2, <3>3 DEF VInv, DiskTyped, ReadSoFar, ReadAsIs, CheckedSoFar, StepsInOrder,
                              Checking, Needed, IsDocument, IsBody
  <2> QED
    BY <2>1, StartVInv, HashVInv, WriteVInv, LoadVInv, SealVInv, CheckVInv, VerifyVInv, RunVInv,
       EditVInv DEF StudyNext
<1>2. VInv => VerdictIsTrue
  BY DEF VInv
<1> QED
  BY <1>1, <1>2, InitVInv, PTL DEF StudySpec

-----------------------------------------------------------------------------
(* realpath, with the tree t and the links l it looks at as parameters.    *)
Into(t, l, found, name) ==
  LET here == {Append(p, name) : p \in found}
  IN  DOMAIN t \cap ({l[p] : p \in here \cap DOMAIN l} \cup (here \ DOMAIN l))

Real(t, l, path) ==
  LET found[k \in 0..Len(path)] == IF k = 0 THEN {<<>>} ELSE Into(t, l, found[k - 1], path[k])
  IN  found[Len(path)]

LEMMA RealPathIs ==
  ASSUME NEW path
  PROVE  RealPath(path) = Real(tree, links, path)
BY DEF RealPath, Real, Follow, Into

-----------------------------------------------------------------------------
(* What TreesAssumption and LinksAssumption say of one tree and its links. *)
WellFormed(t, l) ==
  /\ \A p \in DOMAIN t : HasParent(t, p)
  /\ \A p \in DOMAIN l : /\ p \notin DOMAIN t /\ HasParent(t, p)
                        /\ l[p] \in Seq(Names) \ {<<>>} /\ l[p] \notin DOMAIN l

Paths == Seq(Names)

LEMMA IntoTyped ==
  ASSUME NEW t, NEW l, WellFormed(t, l), NEW found \in SUBSET Paths, NEW name
  PROVE  Into(t, l, found, name) \in SUBSET Paths
<1>1. ASSUME NEW p \in DOMAIN t PROVE p \in Paths
  BY DEF WellFormed, HasParent, Paths
<1>2. ASSUME NEW q \in Into(t, l, found, name) PROVE q \in Paths
  BY <1>1, <1>2 DEF Into
<1> QED BY <1>2

(* The function that RealPath and Real define by recursion over a path: it *)
(* exists, and the one of a longer path agrees with it.                    *)
IsFound(f, t, l, path) ==
  f = [k \in 0..Len(path) |-> IF k = 0 THEN {<<>>} ELSE Into(t, l, f[k - 1], path[k])]

LEMMA FoundExists ==
  ASSUME NEW t, NEW l, WellFormed(t, l), NEW path \in Paths
  PROVE  \E f : IsFound(f, t, l, path)
<1> DEFINE n == Len(path)
           D == SUBSET Paths
           g == [a \in Nat \X D |->
                   IF a[1] + 1 \in 1..n THEN Into(t, l, a[2], path[a[1] + 1]) ELSE {}]
<1>0. n \in Nat
  BY DEF Paths
<1>1. {<<>>} \in D
  BY DEF Paths
<1>2. \A i \in Nat, s \in D : Into(t, l, s, path[i + 1]) \in D
  BY IntoTyped
<1>3. g \in [Nat \X D -> D]
  <2> HIDE DEF D, n
  <2>1. {} \in D BY DEF D
  <2>2. ASSUME NEW a \in Nat \X D
        PROVE (IF a[1] + 1 \in 1..n THEN Into(t, l, a[2], path[a[1] + 1]) ELSE {}) \in D
    BY <1>2, <2>1
  <2> QED BY <2>2
<1>4. PICK h \in [0..n -> D] : Iterates(h, {<<>>}, g, n)
  <2> HIDE DEF D, g, n
  <2> QED BY <1>0, <1>1, <1>3, IterationUpTo
<1>5. ASSUME NEW k \in 0..n, k # 0 PROVE h[k] = Into(t, l, h[k - 1], path[k])
  <2>1. k - 1 \in 0..(n - 1) /\ k - 1 \in 0..n /\ k - 1 \in Nat /\ (k - 1) + 1 = k /\ k \in 1..n
    BY <1>0, <1>5
  <2>2. h[(k - 1) + 1] = g[<<k - 1, h[k - 1]>>]
    BY <1>4, <2>1 DEF Iterates
  <2>3. <<k - 1, h[k - 1]>> \in Nat \X D
    BY <2>1, <1>4
  <2>4. g[<<k - 1, h[k - 1]>>] = Into(t, l, h[k - 1], path[(k - 1) + 1])
    <3> HIDE DEF D
    <3> QED BY <2>1, <2>3
  <2> QED BY <2>1, <2>2, <2>4
<1>6. h[0] = {<<>>}
  BY <1>4 DEF Iterates
<1>7. h = [k \in 0..n |-> IF k = 0 THEN {<<>>} ELSE Into(t, l, h[k - 1], path[k])]
  <2> HIDE DEF n, D, g
  <2> QED BY <1>4, <1>5, <1>6
<1> QED BY <1>7 DEF IsFound

LEMMA RealIsFound ==
  ASSUME NEW t, NEW l, WellFormed(t, l), NEW path \in Paths
  PROVE  \E f : IsFound(f, t, l, path) /\ Real(t, l, path) = f[Len(path)]
<1> DEFINE f == CHOOSE f : IsFound(f, t, l, path)
<1>1. IsFound(f, t, l, path)
  BY FoundExists
<1>2. Real(t, l, path) = f[Len(path)]
  BY DEF Real, IsFound
<1> QED BY <1>1, <1>2

LEMMA RealEmpty ==
  ASSUME NEW t, NEW l, WellFormed(t, l)
  PROVE  Real(t, l, <<>>) = {<<>>}
<1>1. <<>> \in Paths /\ Len(<<>>) = 0
  BY DEF Paths
<1>2. PICK f : IsFound(f, t, l, <<>>) /\ Real(t, l, <<>>) = f[0]
  BY <1>1, RealIsFound
<1> QED BY <1>1, <1>2 DEF IsFound

LEMMA RealAppend ==
  ASSUME NEW t, NEW l, WellFormed(t, l), NEW p \in Paths, NEW x \in Names
  PROVE  Real(t, l, Append(p, x)) = Into(t, l, Real(t, l, p), x)
<1> DEFINE q == Append(p, x)
           n == Len(p)
<1>1. /\ q \in Paths /\ n \in Nat /\ Len(q) = n + 1 /\ q[n + 1] = x
      /\ \A k \in 1..n : q[k] = p[k]
  BY DEF Paths
<1> HIDE DEF q
<1>2. PICK f : IsFound(f, t, l, p) /\ Real(t, l, p) = f[n]
  BY RealIsFound
<1>3. PICK h : IsFound(h, t, l, q) /\ Real(t, l, q) = h[n + 1]
  BY <1>1, RealIsFound
<1> DEFINE S == {k \in Nat : k \in 0..n => f[k] = h[k]}
<1>4. 0 \in S
  BY <1>1, <1>2, <1>3 DEF IsFound
<1>5. ASSUME NEW k \in Nat, k \in S PROVE k + 1 \in S
  <2> SUFFICES ASSUME k + 1 \in 0..n PROVE f[k + 1] = h[k + 1]
    OBVIOUS
  <2>1. k \in 0..n /\ k + 1 \in 1..n /\ k + 1 # 0 /\ (k + 1) - 1 = k /\ k + 1 \in 0..(n + 1)
    BY <1>1
  <2>2. f[k] = h[k]
    BY <1>5, <2>1
  <2>3. f[k + 1] = Into(t, l, f[k], p[k + 1])
    BY <1>2, <2>1 DEF IsFound
  <2>4. h[k + 1] = Into(t, l, h[k], q[k + 1])
    BY <1>1, <1>3, <2>1 DEF IsFound
  <2> QED BY <1>1, <2>1, <2>2, <2>3, <2>4
<1>6. f[n] = h[n]
  <2> HIDE DEF S
  <2>1. n \in S
    BY <1>1, <1>4, <1>5, NaturalInduction
  <2> QED BY <1>1, <2>1 DEF S
<1>7. h[n + 1] = Into(t, l, h[n], x)
  <2>1. n + 1 \in 0..(n + 1) /\ n + 1 # 0 /\ (n + 1) - 1 = n
    BY <1>1
  <2> QED BY <1>1, <1>3, <2>1 DEF IsFound
<1> QED BY <1>2, <1>3, <1>6, <1>7 DEF q

-----------------------------------------------------------------------------
(* A path that is its own real path.                                       *)
Place(t, p) == p = <<>> \/ p \in DOMAIN t

(* The parent of an entry or of a link is a place.                         *)
LEMMA PlaceParent ==
  ASSUME NEW t, NEW l, WellFormed(t, l), NEW p \in Paths, NEW x \in Names,
         Append(p, x) \in DOMAIN t \/ Append(p, x) \in DOMAIN l
  PROVE  Place(t, p)
<1>1. HasParent(t, Append(p, x))
  BY DEF WellFormed
<1>2. Front(Append(p, x)) = p /\ Len(Append(p, x)) = Len(p) + 1 /\ Len(p) \in Nat
  BY DEF Front, Paths
<1>3. CASE Len(p) = 0
  BY <1>3 DEF Place, Paths
<1>4. CASE Len(p) # 0
  BY <1>1, <1>2, <1>4 DEF Place, HasParent
<1> QED BY <1>3, <1>4

(* A place leads to itself.                                                *)
LEMMA RealPlace ==
  ASSUME NEW t, NEW l, WellFormed(t, l)
  PROVE  \A p \in Paths : Place(t, p) => Real(t, l, p) = {p}
<1> DEFINE S == {p \in Paths : Place(t, p) => Real(t, l, p) = {p}}
<1>1. <<>> \in S
  BY RealEmpty DEF Paths
<1>2. ASSUME NEW p \in Paths, NEW x \in Names, p \in S PROVE Append(p, x) \in S
  <2>0. Append(p, x) \in Paths /\ Append(p, x) # <<>>
    <3>1. Append(p, x) \in Seq(Names) /\ Len(Append(p, x)) = Len(p) + 1 /\ Len(p) \in Nat
      BY DEF Paths
    <3>2. Len(<<>>) = 0
      OBVIOUS
    <3> QED BY <3>1, <3>2 DEF Paths
  <2> SUFFICES ASSUME Append(p, x) \in DOMAIN t PROVE Real(t, l, Append(p, x)) = {Append(p, x)}
    BY <2>0 DEF Place
  <2>1. Place(t, p)
    BY PlaceParent
  <2>2. Real(t, l, Append(p, x)) = Into(t, l, {p}, x)
    BY <1>2, <2>1, RealAppend
  <2>3. Append(p, x) \notin DOMAIN l
    BY DEF WellFormed
  <2> QED BY <2>2, <2>3 DEF Into
<1> HIDE DEF S
<1>3. \A p \in Seq(Names) : p \in S
  BY <1>1, <1>2, SequenceInduction DEF Paths
<1> QED BY <1>3 DEF S, Paths

(* A path leads to nothing, or to one place.                               *)
LEMMA RealSingle ==
  ASSUME NEW t, NEW l, WellFormed(t, l)
  PROVE  \A p \in Paths : Real(t, l, p) = {}
                            \/ \E r \in Paths : Place(t, r) /\ Real(t, l, p) = {r}
<1> DEFINE S == {p \in Paths : Real(t, l, p) = {}
                                 \/ \E r \in Paths : Place(t, r) /\ Real(t, l, p) = {r}}
<1>0. \A r \in DOMAIN t : r \in Paths
  BY DEF WellFormed, HasParent, Paths
<1>1. <<>> \in S
  <2>1. <<>> \in Paths /\ Place(t, <<>>)
    BY DEF Paths, Place
  <2>2. Real(t, l, <<>>) = {<<>>}
    BY RealEmpty
  <2> QED BY <2>1, <2>2
<1>2. ASSUME NEW p \in Paths, NEW x \in Names, p \in S PROVE Append(p, x) \in S
  <2>0. Append(p, x) \in Paths
    BY DEF Paths
  <2>1. Real(t, l, Append(p, x)) = Into(t, l, Real(t, l, p), x)
    BY RealAppend
  <2>2. CASE Real(t, l, p) = {}
    BY <2>0, <2>1, <2>2 DEF Into
  <2>3. CASE \E r \in Paths : Place(t, r) /\ Real(t, l, p) = {r}
    <3>1. PICK r \in Paths : Real(t, l, p) = {r}
      BY <2>3
    <3> DEFINE q == Append(r, x)
    <3>2. Real(t, l, Append(p, x))
            = DOMAIN t \cap ({l[u] : u \in {q} \cap DOMAIN l} \cup ({q} \ DOMAIN l))
      BY <2>1, <3>1 DEF Into
    <3> HIDE DEF q
    <3>3. CASE q \in DOMAIN l
      <4>1. Real(t, l, Append(p, x)) = DOMAIN t \cap {l[q]}
        BY <3>2, <3>3
      <4>2. CASE l[q] \in DOMAIN t
        BY <1>0, <2>0, <4>1, <4>2 DEF Place
      <4>3. CASE l[q] \notin DOMAIN t
        BY <2>0, <4>1, <4>3
      <4> QED BY <4>2, <4>3
    <3>4. CASE q \notin DOMAIN l /\ q \in DOMAIN t
      <4>1. Real(t, l, Append(p, x)) = {q}
        BY <3>2, <3>4
      <4> QED BY <1>0, <2>0, <4>1, <3>4 DEF Place
    <3>5. CASE q \notin DOMAIN l /\ q \notin DOMAIN t
      BY <2>0, <3>2, <3>5
    <3> QED BY <3>3, <3>4, <3>5
  <2> QED BY <1>2, <2>2, <2>3
<1> HIDE DEF S
<1>3. \A p \in Seq(Names) : p \in S
  BY <1>1, <1>2, SequenceInduction DEF Paths
<1> QED BY <1>3 DEF S, Paths

(* What a path leads to is all that matters to a longer path.              *)
LEMMA RealBeyond ==
  ASSUME NEW t, NEW l, WellFormed(t, l), NEW p \in Paths, NEW q \in Paths,
         Real(t, l, p) = Real(t, l, q)
  PROVE  \A s \in Paths : Real(t, l, p \o s) = Real(t, l, q \o s)
<1> DEFINE S == {s \in Paths : Real(t, l, p \o s) = Real(t, l, q \o s)}
<1>1. <<>> \in S
  BY DEF Paths
<1>2. ASSUME NEW s \in Paths, NEW x \in Names, s \in S PROVE Append(s, x) \in S
  <2>1. /\ Append(s, x) \in Paths /\ p \o s \in Paths /\ q \o s \in Paths
        /\ p \o Append(s, x) = Append(p \o s, x) /\ q \o Append(s, x) = Append(q \o s, x)
    BY DEF Paths
  <2>2. Real(t, l, Append(p \o s, x)) = Real(t, l, Append(q \o s, x))
    <3> DEFINE a == p \o s
               b == q \o s
    <3>1. a \in Paths /\ b \in Paths /\ Real(t, l, a) = Real(t, l, b)
      BY <1>2, <2>1
    <3> HIDE DEF a, b
    <3>2. Real(t, l, Append(a, x)) = Real(t, l, Append(b, x))
      BY <3>1, RealAppend
    <3> QED BY <3>2 DEF a, b
  <2> QED BY <2>1, <2>2
<1> HIDE DEF S
<1>3. \A s \in Seq(Names) : s \in S
  BY <1>1, <1>2, SequenceInduction DEF Paths
<1> QED BY <1>3 DEF S, Paths

(* What is beyond a path that leads to nothing leads to nothing.           *)
LEMMA RealNowhere ==
  ASSUME NEW t, NEW l, WellFormed(t, l), NEW p \in Paths, Real(t, l, p) = {}
  PROVE  \A s \in Paths : Real(t, l, p \o s) = {}
<1> DEFINE S == {s \in Paths : Real(t, l, p \o s) = {}}
<1>1. <<>> \in S
  <2>1. <<>> \in Paths /\ p \o <<>> = p
    BY DEF Paths
  <2> QED BY <2>1
<1>2. ASSUME NEW s \in Paths, NEW x \in Names, s \in S PROVE Append(s, x) \in S
  <2>1. Append(s, x) \in Paths /\ p \o s \in Paths /\ p \o Append(s, x) = Append(p \o s, x)
    BY DEF Paths
  <2>2. Real(t, l, Append(p \o s, x)) = Into(t, l, {}, x)
    <3> DEFINE a == p \o s
    <3>1. a \in Paths /\ Real(t, l, a) = {}
      BY <1>2, <2>1
    <3> HIDE DEF a
    <3>2. Real(t, l, Append(a, x)) = Into(t, l, {}, x)
      BY <3>1, RealAppend
    <3> QED BY <3>2 DEF a
  <2>3. Into(t, l, {}, x) = {}
    BY DEF Into
  <2> QED BY <2>1, <2>2, <2>3
<1> HIDE DEF S
<1>3. \A s \in Seq(Names) : s \in S
  BY <1>1, <1>2, SequenceInduction DEF Paths
<1> QED BY <1>3 DEF S, Paths

(* What is there stays where it is while the tree grows.                   *)
LEMMA RealGrows ==
  ASSUME NEW t, NEW l, NEW u, WellFormed(t, l), WellFormed(u, l), DOMAIN t \subseteq DOMAIN u
  PROVE  \A p \in Paths : Real(t, l, p) # {} => Real(u, l, p) = Real(t, l, p)
<1> DEFINE S == {p \in Paths : Real(t, l, p) # {} => Real(u, l, p) = Real(t, l, p)}
<1>1. <<>> \in S
  <2>1. Real(t, l, <<>>) = {<<>>} /\ Real(u, l, <<>>) = {<<>>}
    BY RealEmpty
  <2> QED BY <2>1 DEF Paths
<1>2. ASSUME NEW p \in Paths, NEW x \in Names, p \in S PROVE Append(p, x) \in S
  <2>0. Append(p, x) \in Paths
    BY DEF Paths
  <2> SUFFICES ASSUME Real(t, l, Append(p, x)) # {}
               PROVE  Real(u, l, Append(p, x)) = Real(t, l, Append(p, x))
    BY <2>0
  <2>1. /\ Real(t, l, Append(p, x)) = Into(t, l, Real(t, l, p), x)
        /\ Real(u, l, Append(p, x)) = Into(u, l, Real(u, l, p), x)
    BY RealAppend
  <2>2. Real(t, l, p) # {}
    <3> SUFFICES ASSUME Real(t, l, p) = {} PROVE FALSE
      OBVIOUS
    <3> QED BY <2>1 DEF Into
  <2>3. PICK r \in Paths : Real(t, l, p) = {r} /\ Real(u, l, p) = {r}
    BY <1>2, <2>2, RealSingle
  <2> DEFINE q == Append(r, x)
  <2>4. /\ Real(t, l, Append(p, x)) = DOMAIN t \cap ({l[v] : v \in {q} \cap DOMAIN l} \cup ({q} \ DOMAIN l))
        /\ Real(u, l, Append(p, x)) = DOMAIN u \cap ({l[v] : v \in {q} \cap DOMAIN l} \cup ({q} \ DOMAIN l))
    BY <2>1, <2>3 DEF Into
  <2> HIDE DEF q
  <2>5. CASE q \in DOMAIN l
    <3>1. Real(t, l, Append(p, x)) = DOMAIN t \cap {l[q]} /\ Real(u, l, Append(p, x)) = DOMAIN u \cap {l[q]}
      BY <2>4, <2>5
    <3> QED BY <3>1
  <2>6. CASE q \notin DOMAIN l
    <3>1. q \in DOMAIN t /\ q \in DOMAIN u
      BY <2>4, <2>6
    <3> QED BY <2>4, <2>6, <3>1
  <2> QED BY <2>5, <2>6
<1> HIDE DEF S
<1>3. \A p \in Seq(Names) : p \in S
  BY <1>1, <1>2, SequenceInduction DEF Paths
<1> QED BY <1>3 DEF S, Paths

(* The first j names of a path.                                            *)
Upto(p, j) == SubSeq(p, 1, j)

LEMMA UptoFacts ==
  ASSUME NEW p \in Paths
  PROVE  /\ \A j \in 0..Len(p) : Upto(p, j) \in Paths /\ Len(Upto(p, j)) = j
         /\ \A j \in 0..(Len(p) - 1) : Upto(p, j + 1) = Append(Upto(p, j), p[j + 1]) /\ p[j + 1] \in Names
         /\ Upto(p, Len(p)) = p
         /\ Upto(p, 0) = <<>>
         /\ Len(p) \in Nat
BY DEF Upto, Paths

(* The first n names of the target are there, and no more.                 *)
Deepest(t, l, target, n) ==
  /\ n \in 0..Len(target)
  /\ Place(t, Upto(target, n))
  /\ n < Len(target) => Real(t, l, Upto(target, n + 1)) = {}

(* Above a place there are places.                                         *)
LEMMA PlacesAbove ==
  ASSUME NEW t, NEW l, WellFormed(t, l), NEW target \in Paths, NEW n, Deepest(t, l, target, n)
  PROVE  \A j \in 0..n : Place(t, Upto(target, j))
<1>0. n \in Nat /\ n <= Len(target) /\ Len(target) \in Nat
  BY UptoFacts DEF Deepest
<1> DEFINE S == {i \in Nat : i <= n => Place(t, Upto(target, n - i))}
<1>1. 0 \in S
  BY <1>0 DEF Deepest
<1>2. ASSUME NEW i \in Nat, i \in S PROVE i + 1 \in S
  <2> SUFFICES ASSUME i + 1 <= n PROVE Place(t, Upto(target, n - (i + 1)))
    OBVIOUS
  <2> DEFINE j == n - (i + 1)
  <2>1. j \in 0..(Len(target) - 1) /\ j + 1 = n - i /\ j \in 0..Len(target) /\ j + 1 \in 0..Len(target)
        /\ i <= n /\ j + 1 # 0
    BY <1>0
  <2> HIDE DEF j
  <2>2. Upto(target, j + 1) = Append(Upto(target, j), target[j + 1]) /\ target[j + 1] \in Names
        /\ Upto(target, j) \in Paths /\ Len(Upto(target, j + 1)) = j + 1
    BY <2>1, UptoFacts
  <2>3. Place(t, Upto(target, j + 1))
    BY <1>2, <2>1
  <2>4. Upto(target, j + 1) \in DOMAIN t
    <3>1. Len(<<>>) = 0
      OBVIOUS
    <3> QED BY <3>1, <2>1, <2>2, <2>3 DEF Place
  <2>5. Place(t, Upto(target, j))
    BY <2>2, <2>4, PlaceParent
  <2> QED BY <2>5 DEF j
<1>3. \A i \in Nat : i \in S
  <2> HIDE DEF S
  <2> QED BY <1>1, <1>2, NaturalInduction
<1>4. ASSUME NEW j \in 0..n PROVE Place(t, Upto(target, j))
  <2>1. n - j \in Nat /\ n - j <= n /\ n - (n - j) = j
    BY <1>0
  <2> QED BY <1>3, <2>1
<1> QED BY <1>4

(* Below the deepest name that is there, there is no entry and no link to  *)
(* one.                                                                    *)
LEMMA NothingBelow ==
  ASSUME NEW t, NEW l, WellFormed(t, l), NEW target \in Paths, NEW n, Deepest(t, l, target, n),
         NEW j \in (n + 1)..Len(target)
  PROVE  /\ Real(t, l, Upto(target, j)) = {}
         /\ Upto(target, j) \notin DOMAIN t
         /\ Upto(target, j) \in DOMAIN l => l[Upto(target, j)] \notin DOMAIN t
<1>0. /\ n \in Nat /\ n < Len(target) /\ Len(target) \in Nat /\ j \in Nat /\ n + 1 \in 0..Len(target)
      /\ j \in 0..Len(target) /\ j - 1 \in 0..(Len(target) - 1) /\ j - 1 \in 0..Len(target) /\ (j - 1) + 1 = j
  BY UptoFacts DEF Deepest
<1>1. Real(t, l, Upto(target, j)) = {}
  <2> DEFINE s == SubSeq(target, n + 2, j)
  <2>1. s \in Paths /\ Upto(target, j) = Upto(target, n + 1) \o s
    BY <1>0 DEF Upto, Paths
  <2>2. Upto(target, n + 1) \in Paths /\ Real(t, l, Upto(target, n + 1)) = {}
    BY <1>0, UptoFacts DEF Deepest
  <2> HIDE DEF s
  <2> QED BY <2>1, <2>2, RealNowhere
<1> DEFINE u == Upto(target, j)
           v == Upto(target, j - 1)
           x == target[(j - 1) + 1]
<1>2. u \in Paths /\ v \in Paths /\ x \in Names /\ u = Append(v, x)
  BY <1>0, UptoFacts
<1> HIDE DEF u, v, x
<1>3. Real(t, l, u) = {}
  BY <1>1 DEF u
<1>4. u \notin DOMAIN t
  BY <1>2, <1>3, RealPlace DEF Place
<1>5. u \in DOMAIN l => l[u] \notin DOMAIN t
  <2> SUFFICES ASSUME u \in DOMAIN l, l[u] \in DOMAIN t PROVE FALSE
    OBVIOUS
  <2>1. Place(t, v)
    BY <1>2, PlaceParent
  <2>2. Real(t, l, v) = {v}
    BY <1>2, <2>1, RealPlace
  <2>3. Real(t, l, u) = Into(t, l, {v}, x)
    <3>1. Real(t, l, Append(v, x)) = Into(t, l, Real(t, l, v), x)
      BY <1>2, RealAppend
    <3> QED BY <1>2, <2>2, <3>1
  <2>4. l[u] \in Into(t, l, {v}, x)
    BY <1>2 DEF Into
  <2> QED BY <1>3, <2>3, <2>4
<1> QED BY <1>3, <1>4, <1>5 DEF u

-----------------------------------------------------------------------------
(* The tree after a write: the target, and the directories it lacked.      *)
Grown(t, l, target, contents) ==
  [p \in DOMAIN t
         \cup {q \in {SubSeq(target, 1, k) : k \in 1..(Len(target) - 1)} : Real(t, l, q) = {}}
         \cup {target} |->
     IF p = target THEN contents ELSE IF p \in DOMAIN t THEN t[p] ELSE "dir"]

LEMMA GrownDomain ==
  ASSUME NEW t, NEW l, WellFormed(t, l), NEW target \in Paths, target # <<>>, NEW contents,
         NEW n, Deepest(t, l, target, n)
  PROVE  /\ DOMAIN t \subseteq DOMAIN Grown(t, l, target, contents)
         /\ target \in DOMAIN Grown(t, l, target, contents)
         /\ \A j \in (n + 1)..Len(target) : Upto(target, j) \in DOMAIN Grown(t, l, target, contents)
         /\ \A p \in DOMAIN Grown(t, l, target, contents) :
              p \in DOMAIN t \/ \E j \in (n + 1)..Len(target) : p = Upto(target, j)
<1> DEFINE g == Grown(t, l, target, contents)
           made == {q \in {SubSeq(target, 1, k) : k \in 1..(Len(target) - 1)} : Real(t, l, q) = {}}
<1>0. n \in Nat /\ n <= Len(target) /\ Len(target) \in Nat
  BY UptoFacts DEF Deepest
<1>1. DOMAIN g = DOMAIN t \cup made \cup {target}
  BY DEF Grown
<1>2. ASSUME NEW j \in (n + 1)..Len(target) PROVE Upto(target, j) \in made \cup {target}
  <2>1. CASE j = Len(target)
    BY <2>1, UptoFacts
  <2>2. CASE j # Len(target)
    <3>1. j \in 1..(Len(target) - 1)
      BY <1>0, <2>2
    <3>2. Real(t, l, SubSeq(target, 1, j)) = {}
      BY NothingBelow DEF Upto
    <3> QED BY <3>1, <3>2 DEF Upto
  <2> QED BY <2>1, <2>2
<1>3. ASSUME NEW p \in made PROVE \E j \in (n + 1)..Len(target) : p = Upto(target, j)
  <2>1. PICK k \in 1..(Len(target) - 1) : p = Upto(target, k) /\ Real(t, l, p) = {}
    BY DEF Upto
  <2>2. k \in 0..n => Real(t, l, p) = {p}
    <3> SUFFICES ASSUME k \in 0..n PROVE Real(t, l, p) = {p}
      OBVIOUS
    <3>1. p \in Paths
      BY <1>0, <2>1, UptoFacts
    <3>2. Place(t, p)
      BY <2>1, PlacesAbove
    <3> QED BY <3>1, <3>2, RealPlace
  <2>3. k \in (n + 1)..Len(target)
    BY <1>0, <2>1, <2>2
  <2> QED BY <2>1, <2>3
<1>4. target \in DOMAIN t \/ \E j \in (n + 1)..Len(target) : target = Upto(target, j)
  <2>1. target = Upto(target, Len(target))
    BY UptoFacts
  <2>2. CASE n = Len(target)
    BY <2>1, <2>2 DEF Deepest, Place
  <2>3. CASE n # Len(target)
    <3>1. Len(target) \in (n + 1)..Len(target)
      BY <1>0, <2>3
    <3> QED BY <2>1, <3>1
  <2> QED BY <2>2, <2>3
<1> HIDE DEF g, made
<1> QED BY <1>1, <1>2, <1>3, <1>4 DEF g

(* None of the names that a write adds is a link's.                        *)
Free(l, target, n) == \A j \in (n + 1)..Len(target) : Upto(target, j) \notin DOMAIN l

(* A write leaves a well-formed tree: no link is shadowed, no entry is     *)
(* without its parent.                                                     *)
LEMMA GrownWellFormed ==
  ASSUME NEW t, NEW l, WellFormed(t, l), NEW target \in Paths, target # <<>>, NEW contents,
         NEW n, Deepest(t, l, target, n), Free(l, target, n)
  PROVE  WellFormed(Grown(t, l, target, contents), l)
<1> DEFINE g == Grown(t, l, target, contents)
<1>0. /\ DOMAIN t \subseteq DOMAIN g
      /\ \A j \in (n + 1)..Len(target) : Upto(target, j) \in DOMAIN g
      /\ \A p \in DOMAIN g : p \in DOMAIN t \/ \E j \in (n + 1)..Len(target) : p = Upto(target, j)
  BY GrownDomain
<1>a. n \in Nat /\ n <= Len(target) /\ Len(target) \in Nat
  BY UptoFacts DEF Deepest
<1> HIDE DEF g
<1>1. ASSUME NEW p, HasParent(t, p) PROVE HasParent(g, p)
  BY <1>0, <1>1 DEF HasParent
<1>2. ASSUME NEW j \in (n + 1)..Len(target) PROVE HasParent(g, Upto(target, j))
  <2> DEFINE p == Upto(target, j)
  <2>1. /\ j \in 0..Len(target) /\ j - 1 \in 0..(Len(target) - 1) /\ j - 1 \in 0..Len(target)
        /\ (j - 1) + 1 = j /\ j # 0 /\ j \in Nat
    BY <1>a
  <2>2. p \in Seq(Names) /\ Len(p) = j /\ p # <<>>
    <3>1. Len(<<>>) = 0
      OBVIOUS
    <3> QED BY <2>1, <3>1, UptoFacts DEF Paths
  <2>3. Front(p) = Upto(target, j - 1)
    <3>1. p = Append(Upto(target, j - 1), target[(j - 1) + 1]) /\ Upto(target, j - 1) \in Seq(Names)
      BY <2>1, UptoFacts DEF Paths
    <3> HIDE DEF p
    <3> QED BY <3>1 DEF Front
  <2>4. CASE j = 1
    BY <2>2, <2>4 DEF HasParent
  <2>5. CASE j # 1 /\ j - 1 <= n
    <3>1. Place(t, Upto(target, j - 1)) /\ Len(Upto(target, j - 1)) = j - 1
      BY <1>a, <2>1, <2>5, PlacesAbove, UptoFacts
    <3>2. Upto(target, j - 1) \in DOMAIN t
      <4>1. Len(<<>>) = 0
        OBVIOUS
      <4> QED BY <3>1, <4>1, <2>5, <2>1 DEF Place
    <3> QED BY <1>0, <2>2, <2>3, <3>2 DEF HasParent
  <2>6. CASE j - 1 > n
    <3>1. j - 1 \in (n + 1)..Len(target)
      BY <1>a, <2>1, <2>6
    <3> QED BY <1>0, <2>2, <2>3, <3>1 DEF HasParent
  <2> QED BY <1>a, <2>1, <2>4, <2>5, <2>6
<1>3. ASSUME NEW p \in DOMAIN g PROVE HasParent(g, p)
  <2>1. p \in DOMAIN t => HasParent(t, p)
    BY DEF WellFormed
  <2> QED BY <1>0, <1>1, <1>2, <2>1
<1>4. ASSUME NEW p \in DOMAIN l
      PROVE  /\ p \notin DOMAIN g /\ HasParent(g, p)
             /\ l[p] \in Seq(Names) \ {<<>>} /\ l[p] \notin DOMAIN l
  <2>1. /\ p \notin DOMAIN t /\ HasParent(t, p)
        /\ l[p] \in Seq(Names) \ {<<>>} /\ l[p] \notin DOMAIN l
    BY DEF WellFormed
  <2>2. \A j \in (n + 1)..Len(target) : Upto(target, j) \notin DOMAIN l
    BY DEF Free
  <2> QED BY <1>0, <1>1, <2>1, <2>2
<1> QED BY <1>3, <1>4 DEF WellFormed, g

-----------------------------------------------------------------------------
(* NamedNowhere and ContainedWrites, with their variables as parameters.   *)
Dangling(t0, l) == {l[q] : q \in {q \in DOMAIN l : ~Outside(q) /\ l[q] \notin DOMAIN t0}}

Allowed(t0, l, p) == Outside(p) => p \in Dangling(t0, l)

Accounted(t, l, perm, entries, p, contents) ==
  \E q \in perm, i \in DOMAIN entries :
     /\ Real(t, l, Workspace \o q) = {p}
     /\ entries[i].form = "relative" /\ Normalize(entries[i].names) = q
     /\ contents \in {entries[i].contents, "torn"}

Explained(t, t0, l, perm, entries, p) ==
  Allowed(t0, l, p) /\ (t[p] # "dir" => Accounted(t, l, perm, entries, p, t[p]))

Contained(t, t0, l, perm, entries, ok) ==
  /\ \A p \in DOMAIN t :
       p \notin DOMAIN t0 \/ t[p] # t0[p] => Explained(t, t0, l, perm, entries, p)
  /\ ~ok => t = t0

LEMMA ContainedIs ==
  ContainedWrites <=> Contained(tree, tree0, links, permitted, reply.entries, verdict.ok)
<1>1. \A q : RealPath(q) = Real(tree, links, q)
  BY RealPathIs
<1> QED BY <1>1 DEF ContainedWrites, Contained, Changed, NamedNowhere, Dangling, Allowed, Explained, Accounted

(* The files of an accepted reply are its entries, each permitted.         *)
VerdictHolds(perm, entries, v) ==
  v.ok => /\ Len(v.files) = Len(entries)
          /\ \A i \in 1..Len(entries) :
               /\ entries[i].form = "relative"
               /\ Normalize(entries[i].names) \in perm
               /\ v.files[i].path = Normalize(entries[i].names)
               /\ v.files[i].contents = entries[i].contents

(* The inductive invariant: the tree stays one that paths lead through as  *)
(* before, and each file to write is a permitted entry of the reply.       *)
CSInv ==
  /\ reply \in Replies /\ permitted \in Permissions /\ links \in LinkSets /\ tree0 \in Trees
  /\ WellFormed(tree, links) /\ DOMAIN tree0 \subseteq DOMAIN tree
  /\ VerdictHolds(permitted, reply.entries, verdict)
  /\ writing \in Nat
  /\ writing > 0 => verdict.ok /\ writing <= Len(verdict.files)
  /\ Contained(tree, tree0, links, permitted, reply.entries, verdict.ok)

LEMMA CSInvInit == CSInit => CSInv
<1> SUFFICES ASSUME CSInit PROVE CSInv
  OBVIOUS
<1>1. /\ reply \in Replies /\ permitted \in Permissions /\ links \in LinkSets /\ tree0 \in Trees
      /\ tree = tree0 /\ verdict.ok = FALSE /\ writing = 0
  BY DEF CSInit, Unread
<1>2. WellFormed(tree, links)
  BY <1>1, TreesAssumption, LinksAssumption DEF WellFormed
<1> QED BY <1>1, <1>2 DEF CSInv, VerdictHolds, Contained

(* An accepted reply has no entry that a rule of validateChangeSet         *)
(* refuses.                                                                *)
LEMMA ValidateKeeps ==
  ASSUME CSInv, Validate
  PROVE  CSInv'
<1> DEFINE v == ValidateChangeSet(reply)
           entries == reply.entries
<1>1. UNCHANGED <<reply, permitted, links, tree0, tree>> /\ verdict' = v /\ tree = tree0
      /\ writing' = IF v.ok THEN 1 ELSE 0
  BY DEF Validate, CSInv, Contained, Unread
<1>2. ASSUME NEW reason PROVE Rejected(reason).ok = FALSE
  BY DEF Rejected
<1>3. v.ok => v = EntriesVerdict(entries) /\ entries # <<>>
  BY <1>2 DEF ValidateChangeSet
<1>4. entries \in Seq(ToSet(entries)) /\ \A e \in ToSet(entries) :
            e.form \in {"relative", "absolute", "foreign", "malformed", "empty"}
  BY RepliesAssumption DEF CSInv
<1>5. Len(entries) \in Nat /\ DOMAIN entries = 1..Len(entries) /\ \A i \in 1..Len(entries) :
            entries[i].form \in {"relative", "absolute", "foreign", "malformed", "empty"}
  <2> HIDE DEF entries
  <2> QED BY <1>4
<1>6. ASSUME v.ok
      PROVE  /\ VerdictHolds(permitted, entries, v)
             /\ 1 <= Len(v.files)
  <2> DEFINE faulty == {i \in DOMAIN entries : EntryFault(entries, i) # ""}
             files == [i \in DOMAIN entries |->
                         [path |-> Normalize(entries[i].names), contents |-> entries[i].contents]]
  <2>1. faulty = {} /\ v.files = files
    <3>1. EntriesVerdict(entries).ok
      BY <1>3, <1>6
    <3>2. faulty = {}
      BY <1>2, <3>1 DEF EntriesVerdict
    <3>3. EntriesVerdict(entries) = [ok |-> TRUE, reason |-> "", files |-> files]
      BY <3>2 DEF EntriesVerdict
    <3>4. v = EntriesVerdict(entries)
      BY <1>3, <1>6
    <3>5. ASSUME NEW w, NEW f, w = [ok |-> TRUE, reason |-> "", files |-> f] PROVE w.files = f
      BY <3>5
    <3>6. EntriesVerdict(entries).files = files
      BY <3>3, <3>5, Zenon
    <3>7. v.files = files
      BY <3>4, <3>6, Zenon
    <3> QED BY <3>2, <3>7
  <2>2. ASSUME NEW i \in 1..Len(entries)
        PROVE  entries[i].form = "relative" /\ Normalize(entries[i].names) \in permitted
    <3>1. EntryFault(entries, i) = ""
      BY <1>5, <2>1
    <3> QED BY <1>5, <3>1 DEF EntryFault
  <2>3. Len(files) = Len(entries)
    BY <1>5
  <2>4. Len(entries) # 0
    BY <1>3, <1>4, <1>6
  <2>5. \A i \in 1..Len(entries) :
          v.files[i].path = Normalize(entries[i].names) /\ v.files[i].contents = entries[i].contents
    <3>1. \A i \in 1..Len(entries) :
            files[i].path = Normalize(entries[i].names) /\ files[i].contents = entries[i].contents
      BY <1>5
    <3> HIDE DEF v, files, faulty
    <3> QED BY <2>1, <3>1
  <2> HIDE DEF v, entries, files, faulty
  <2>6. VerdictHolds(permitted, entries, v)
    BY <2>1, <2>2, <2>3, <2>5 DEF VerdictHolds
  <2> QED BY <1>5, <2>1, <2>3, <2>4, <2>6
<1>7. VerdictHolds(permitted, entries, v)
  <2> HIDE DEF v, entries
  <2> QED BY <1>6 DEF VerdictHolds
<1>8. Contained(tree, tree0, links, permitted, entries, v.ok)
  BY <1>1 DEF Contained
<1>9. \/ v.ok /\ writing' = 1 /\ 1 <= Len(v.files)
      \/ ~v.ok /\ writing' = 0
  BY <1>1, <1>6
<1> HIDE DEF v
<1> QED BY <1>1, <1>7, <1>8, <1>9 DEF CSInv

-----------------------------------------------------------------------------
(* The first names of path lead to a place, and the others follow it in    *)
(* the target, which has nothing there beyond its first n names.           *)
Leads(t, l, path, target) ==
  \E n \in Nat, r \in Paths, k \in 0..Len(path) :
    /\ Deepest(t, l, target, n)
    /\ Place(t, r) /\ Real(t, l, Upto(path, k)) = {r}
    /\ target = r \o SubSeq(path, k + 1, Len(path))

(* What assertContainedTarget answers: its first names are a real path,    *)
(* nothing is there beyond them, and the path of the reply leads to it.    *)
LEMMA ContainedTarget ==
  ASSUME NEW CONSTANT relPath \in Paths, NEW CONSTANT target, WellFormed(tree, links), Workspace \in Paths,
         target \in AssertContainedTarget(relPath)
  PROVE  /\ target \in Paths
         /\ IsStrictPrefix(Workspace, target)
         /\ Leads(tree, links, Workspace \o relPath, target)
<1> DEFINE full == Workspace \o relPath
           exists == {k \in 0..Len(full) : RealPath(SubSeq(full, 1, k)) # {}}
           k == CHOOSE k \in exists : \A j \in exists : j <= k
           rest == SubSeq(full, k + 1, Len(full))
<1>0. full \in Paths /\ Len(full) \in Nat
  BY DEF Paths
<1>1. target \in {p \o rest : p \in RealPath(SubSeq(full, 1, k))} /\ IsStrictPrefix(Workspace, target)
  BY DEF AssertContainedTarget, Outside
<1>2. k \in exists /\ \A j \in exists : j <= k
  <2>1. RealPath(SubSeq(full, 1, 0)) = {<<>>}
    <3>1. SubSeq(full, 1, 0) = <<>>
      BY <1>0, UptoFacts DEF Upto
    <3> QED BY <3>1, RealPathIs, RealEmpty
  <2>2. exists \in SUBSET (0..Len(full)) /\ exists # {}
    BY <1>0, <2>1
  <2>3. \E i \in exists : \A j \in exists : j <= i
    <3> HIDE DEF exists, full
    <3> QED BY <1>0, <2>2, Greatest
  <2> HIDE DEF exists
  <2> QED BY <2>3
<1>3. k \in 0..Len(full) /\ RealPath(SubSeq(full, 1, k)) # {}
  BY <1>2
<1> HIDE DEF k
<1>4. \A j \in 0..Len(full) : RealPath(SubSeq(full, 1, j)) = Real(tree, links, Upto(full, j))
  BY RealPathIs DEF Upto
<1>5. k + 1 \in 0..Len(full) => Real(tree, links, Upto(full, k + 1)) = {}
  BY <1>2, <1>3, <1>4
<1> HIDE DEF exists, full, rest
<1>6. PICK r \in Paths : Place(tree, r) /\ Real(tree, links, Upto(full, k)) = {r}
  <2>1. Upto(full, k) \in Paths
    BY <1>0, <1>3, UptoFacts
  <2> QED BY <1>3, <1>4, <2>1, RealSingle DEF Upto
<1>7. target = r \o rest
  BY <1>1, <1>3, <1>4, <1>6
<1>8. rest \in Paths /\ Len(rest) = Len(full) - k
  BY <1>0, <1>3 DEF rest, Paths
<1>9. target \in Paths /\ Len(target) = Len(r) + Len(rest) /\ Len(r) \in Nat /\ Upto(target, Len(r)) = r
      /\ Len(r) \in 0..Len(target)
  <2>1. r \in Seq(Names) /\ rest \in Seq(Names)
    BY <1>8 DEF Paths
  <2>2. r \o rest \in Seq(Names) /\ Len(r \o rest) = Len(r) + Len(rest) /\ Len(r) \in Nat
        /\ Len(rest) \in Nat
    BY <2>1
  <2>3. SubSeq(r \o rest, 1, Len(r)) = r
    BY <2>1
  <2> QED BY <1>7, <2>2, <2>3 DEF Paths, Upto
<1>10. ASSUME Len(r) < Len(target) PROVE Real(tree, links, Upto(target, Len(r) + 1)) = {}
  <2>1. k + 1 \in 0..Len(full) /\ k \in 0..(Len(full) - 1)
    BY <1>0, <1>3, <1>8, <1>9, <1>10
  <2>2. Upto(full, k + 1) = Append(Upto(full, k), full[k + 1]) /\ full[k + 1] \in Names /\ Upto(full, k) \in Paths
    BY <1>0, <1>3, <2>1, UptoFacts
  <2>3. Upto(target, Len(r) + 1) = Append(r, full[k + 1])
    <3>1. rest[1] = full[k + 1] /\ Len(rest) >= 1
      BY <1>0, <1>3, <1>8, <2>1 DEF rest, Paths
    <3>2. Upto(target, Len(r) + 1) = Append(Upto(target, Len(r)), target[Len(r) + 1])
      BY <1>9, <1>10, UptoFacts
    <3>3. target[Len(r) + 1] = rest[1]
      BY <1>7, <1>8, <3>1 DEF Paths
    <3> QED BY <1>9, <3>1, <3>2, <3>3
  <2>4. Real(tree, links, r) = {r}
    BY <1>6, RealPlace
  <2>5. /\ Real(tree, links, Append(r, full[k + 1])) = Into(tree, links, {r}, full[k + 1])
        /\ Real(tree, links, Append(Upto(full, k), full[k + 1])) = Into(tree, links, {r}, full[k + 1])
    <3>1. /\ Real(tree, links, Append(r, full[k + 1])) = Into(tree, links, Real(tree, links, r), full[k + 1])
          /\ Real(tree, links, Append(Upto(full, k), full[k + 1]))
               = Into(tree, links, Real(tree, links, Upto(full, k)), full[k + 1])
      BY <2>2, RealAppend
    <3> QED BY <3>1, <1>6, <2>4
  <2> QED BY <1>5, <2>1, <2>2, <2>3, <2>5
<1>11. Deepest(tree, links, target, Len(r))
  BY <1>6, <1>9, <1>10 DEF Deepest
<1>12. target = r \o SubSeq(full, k + 1, Len(full))
  BY <1>7 DEF rest
<1>13. Leads(tree, links, full, target)
  BY <1>3, <1>6, <1>9, <1>11, <1>12 DEF Leads
<1> QED BY <1>1, <1>9, <1>13 DEF full

(* Writing through a resolved target that meets no link lands at the       *)
(* target.                                                                 *)
LEMMA WrittenThrough ==
  ASSUME NEW CONSTANT target \in Paths, NEW CONSTANT contents, NEW CONSTANT n, target # <<>>,
         WellFormed(tree, links), Deepest(tree, links, target, n), Free(links, target, n)
  PROVE  WriteThrough(target, contents) = Grown(tree, links, target, contents)
<1> DEFINE m == Len(target) - 1
           above == Upto(target, m)
<1>0. n \in Nat /\ n <= Len(target) /\ Len(target) \in Nat /\ Len(target) # 0 /\ m \in 0..Len(target)
      /\ m \in 0..(Len(target) - 1) /\ m + 1 = Len(target)
  <2>1. Len(target) \in Nat /\ Len(target) # 0
    BY DEF Paths
  <2> QED BY <2>1 DEF Deepest
<1>1. Front(target) = above
  BY DEF Front, Upto
<1>2. /\ above \in Paths /\ Last(target) \in Names /\ target = Append(above, Last(target))
      /\ Upto(target, Len(target)) = target
  <2>1. Upto(target, m + 1) = Append(Upto(target, m), target[m + 1]) /\ target[m + 1] \in Names
    BY <1>0, UptoFacts
  <2> QED BY <1>0, <2>1, UptoFacts DEF Last
<1>3. target \notin DOMAIN links
  <2>1. CASE n = Len(target)
    <3>1. target \in DOMAIN tree
      BY <1>2, <2>1 DEF Deepest, Place
    <3> QED BY <3>1 DEF WellFormed
  <2>2. CASE n # Len(target)
    <3>1. Len(target) \in (n + 1)..Len(target)
      <4>1. n \in Nat /\ n <= Len(target) /\ Len(target) \in Nat
        BY <1>0
      <4> QED BY <4>1, <2>2
    <3> QED BY <1>2, <3>1 DEF Free
  <2> QED BY <2>1, <2>2
<1>4. Real(tree, links, above) = {} \/ Real(tree, links, above) = {above}
  <2>1. CASE m <= n
    <3>1. Place(tree, above)
      BY <1>0, <2>1, PlacesAbove
    <3> QED BY <1>2, <3>1, RealPlace
  <2>2. CASE ~(m <= n)
    <3>1. m \in (n + 1)..Len(target)
      BY <1>0, <2>2
    <3> QED BY <3>1, NothingBelow
  <2> QED BY <2>1, <2>2
<1>5. Lands(target) = {target}
  <2> HIDE DEF above
  <2>1. RealPath(Front(target)) = Real(tree, links, above)
    BY <1>1, RealPathIs
  <2>2. CASE Real(tree, links, above) = {}
    BY <2>1, <2>2 DEF Lands
  <2>3. CASE Real(tree, links, above) = {above}
    BY <1>2, <1>3, <2>1, <2>3 DEF Lands
  <2> QED BY <1>4, <2>2, <2>3
<1>6. (CHOOSE p \in Lands(target) : TRUE) = target
  BY <1>5
<1>7. \A q : RealPath(q) = Real(tree, links, q)
  BY RealPathIs
<1> DEFINE at == CHOOSE p \in Lands(target) : TRUE
           made == {SubSeq(target, 1, k) : k \in 1..(Len(target) - 1)}
<1>8. {q \in made : RealPath(q) = {}} = {q \in made : Real(tree, links, q) = {}}
  <2> HIDE DEF made
  <2> QED BY <1>7
<1>9. WriteThrough(target, contents) =
        [p \in DOMAIN tree \cup {q \in made : RealPath(q) = {}} \cup {at} |->
           IF p = at THEN contents ELSE IF p \in DOMAIN tree THEN tree[p] ELSE "dir"]
  BY DEF WriteThrough
<1>10. Grown(tree, links, target, contents) =
        [p \in DOMAIN tree \cup {q \in made : Real(tree, links, q) = {}} \cup {target} |->
           IF p = target THEN contents ELSE IF p \in DOMAIN tree THEN tree[p] ELSE "dir"]
  BY DEF Grown
<1> HIDE DEF at, made
<1>11. at = target
  BY <1>6 DEF at
<1> QED BY <1>8, <1>9, <1>10, <1>11

LEMMA PathsOfState ==
  ASSUME CSInv
  PROVE  /\ Workspace \in Paths /\ Workspace \in DOMAIN tree
         /\ \A q \in permitted : q \in Paths
         /\ reply.entries \in Seq(ToSet(reply.entries))
<1>1. Workspace \in DOMAIN tree0 /\ DOMAIN tree0 \subseteq DOMAIN tree /\ WellFormed(tree, links)
  BY TreesAssumption DEF CSInv
<1>2. Workspace \in DOMAIN tree /\ Workspace \in Paths
  BY <1>1 DEF WellFormed, HasParent, Paths
<1> QED BY <1>2, RepliesAssumption DEF CSInv, Paths

(* The path of the reply leads where the target it was resolved to leads.  *)
LEMMA TargetReached ==
  ASSUME NEW t, NEW u, NEW l, WellFormed(t, l), WellFormed(u, l), DOMAIN t \subseteq DOMAIN u,
         NEW full \in Paths, NEW target \in Paths, Leads(t, l, full, target)
  PROVE  Real(u, l, full) = Real(u, l, target)
<1>0. PICK k \in 0..Len(full), r \in Paths :
        /\ Place(t, r) /\ Real(t, l, Upto(full, k)) = {r}
        /\ target = r \o SubSeq(full, k + 1, Len(full))
  BY DEF Leads
<1> DEFINE head == Upto(full, k)
           rest == SubSeq(full, k + 1, Len(full))
<1>1. head \in Paths /\ rest \in Paths /\ full = head \o rest
  <2>1. Len(full) \in Nat /\ full \in Seq(Names) /\ k \in Nat /\ k <= Len(full)
    BY DEF Paths
  <2>2. head \in Seq(Names) /\ rest \in Seq(Names)
    BY <2>1 DEF Upto
  <2>3. SubSeq(full, 1, k) \o SubSeq(full, k + 1, Len(full)) = SubSeq(full, 1, Len(full))
    <3>1. 1 \in 1..(Len(full) + 1) /\ k \in (1 - 1)..Len(full) /\ Len(full) \in k..Len(full)
      BY <2>1
    <3>2. full \in Seq(Names)
      BY <2>1
    <3> QED BY <3>1, <3>2, ConcatAdjacentSubSeq, Zenon
  <2>4. SubSeq(full, 1, Len(full)) = full
    BY <2>1
  <2> QED BY <2>2, <2>3, <2>4 DEF Paths, Upto
<1>2. Real(t, l, head) = {r} /\ target = r \o rest
  BY <1>0
<1> HIDE DEF head, rest
<1>3. Real(u, l, head) = {r}
  <2>1. Real(t, l, head) # {}
    BY <1>2
  <2>2. \A p \in Paths : Real(t, l, p) # {} => Real(u, l, p) = Real(t, l, p)
    BY RealGrows
  <2> QED BY <1>1, <1>2, <2>1, <2>2
<1>4. Real(u, l, r) = {r}
  BY <1>0, RealPlace DEF Place
<1>5. Real(u, l, head \o rest) = Real(u, l, r \o rest)
  <2>1. Real(u, l, head) = Real(u, l, r)
    BY <1>3, <1>4
  <2>2. \A s \in Paths : Real(u, l, head \o s) = Real(u, l, r \o s)
    BY <1>1, <2>1, RealBeyond
  <2> QED BY <1>1, <2>2
<1> QED BY <1>1, <1>2, <1>5

(* What is new below a place is inside the workspace.                      *)
LEMMA NewInside ==
  ASSUME NEW t, NEW l, WellFormed(t, l), NEW target \in Paths, NEW n, Deepest(t, l, target, n),
         Workspace \in Paths, Workspace \in DOMAIN t, IsStrictPrefix(Workspace, target),
         NEW j \in (n + 1)..Len(target)
  PROVE  IsStrictPrefix(Workspace, Upto(target, j))
<1> DEFINE p == Upto(target, j)
           w == Len(Workspace)
<1>1. Len(target) \in Nat /\ n \in Nat /\ j \in Nat /\ j <= Len(target) /\ n < j /\ w \in Nat
  BY DEF Paths, Deepest
<1>2. w <= Len(target) /\ SubSeq(Workspace, 1, w) = SubSeq(target, 1, w)
  BY DEF IsStrictPrefix, IsPrefix
<1>3. Workspace = Upto(target, w)
  BY <1>2 DEF Paths, Upto
<1>4. w <= n
  <2> SUFFICES ASSUME w \in (n + 1)..Len(target) PROVE FALSE
    <3> HIDE DEF w
    <3> QED BY <1>1, <1>2
  <2>1. Upto(target, w) \notin DOMAIN t
    <3> HIDE DEF w
    <3> QED BY NothingBelow
  <2> QED BY <1>3, <2>1
<1>5. p \in Paths /\ Len(p) = j
  BY <1>1, UptoFacts
<1>6. SubSeq(p, 1, w) = SubSeq(target, 1, w)
  <2> HIDE DEF w
  <2> QED BY <1>1, <1>4 DEF Upto, Paths
<1>7. p # Workspace
  BY <1>1, <1>4, <1>5
<1> HIDE DEF p
<1>8. IsStrictPrefix(Workspace, p)
  BY <1>1, <1>2, <1>4, <1>5, <1>6, <1>7 DEF IsStrictPrefix, IsPrefix
<1> QED BY <1>8 DEF p

(* A later write takes no earlier one its account away.                    *)
LEMMA StillAccounted ==
  ASSUME NEW t, NEW u, NEW l, WellFormed(t, l), WellFormed(u, l), DOMAIN t \subseteq DOMAIN u,
         NEW perm, NEW entries, NEW p, NEW contents, Workspace \in Paths, \A q \in perm : q \in Paths,
         Accounted(t, l, perm, entries, p, contents)
  PROVE  Accounted(u, l, perm, entries, p, contents)
<1>1. PICK q \in perm, i \in DOMAIN entries :
         /\ Real(t, l, Workspace \o q) = {p}
         /\ entries[i].form = "relative" /\ Normalize(entries[i].names) = q
         /\ contents \in {entries[i].contents, "torn"}
  BY DEF Accounted
<1>2. Workspace \o q \in Paths
  BY DEF Paths
<1>3. Real(u, l, Workspace \o q) = {p}
  BY <1>1, <1>2, RealGrows
<1> QED BY <1>1, <1>3 DEF Accounted

(* A write that goes through, or fails half way, leaves what was there but *)
(* where the reply or its directories explain it.                          *)
LEMMA WriteContained ==
  ASSUME NEW t, NEW u, NEW t0, NEW l, NEW perm, NEW entries,
         WellFormed(t, l), WellFormed(u, l), DOMAIN t \subseteq DOMAIN u,
         Workspace \in Paths, \A q \in perm : q \in Paths,
         \A p \in DOMAIN u :
           (p \in DOMAIN t /\ u[p] = t[p]) \/ Explained(u, t0, l, perm, entries, p),
         Contained(t, t0, l, perm, entries, TRUE)
  PROVE  Contained(u, t0, l, perm, entries, TRUE)
<1>1. ASSUME NEW p \in DOMAIN u, p \notin DOMAIN t0 \/ u[p] # t0[p]
      PROVE  Explained(u, t0, l, perm, entries, p)
  <2>1. CASE p \in DOMAIN t /\ u[p] = t[p]
    <3>1. Explained(t, t0, l, perm, entries, p)
      BY <1>1, <2>1 DEF Contained
    <3>2. t[p] # "dir" => Accounted(u, l, perm, entries, p, t[p])
      BY <3>1, StillAccounted DEF Explained
    <3> QED BY <2>1, <3>1, <3>2 DEF Explained
  <2> QED BY <2>1
<1> QED BY <1>1 DEF Contained

(* The tree a target that is a link to nowhere leaves: its file, where the *)
(* link names it.                                                          *)
Put(t, p, contents) == [q \in DOMAIN t \cup {p} |-> IF q = p THEN contents ELSE t[q]]

LEMMA LinkIsLast ==
  ASSUME NEW t, NEW l, WellFormed(t, l), NEW target \in Paths, target # <<>>, NEW n,
         Deepest(t, l, target, n), target \in DOMAIN l
  PROVE  /\ l[target] \notin DOMAIN t
         /\ \E x \in Names : target = Append(Front(target), x) /\ x = Last(target)
         /\ Front(target) \in Paths /\ Place(t, Front(target))
         /\ \A k \in 1..(Len(target) - 1) : Real(t, l, SubSeq(target, 1, k)) # {}
<1>0. /\ n \in Nat /\ n <= Len(target) /\ Len(target) \in Nat /\ Len(target) # 0
      /\ Len(target) - 1 \in 0..(Len(target) - 1) /\ Len(target) - 1 \in 0..Len(target)
      /\ (Len(target) - 1) + 1 = Len(target)
  <2>1. Len(target) \in Nat /\ Len(target) # 0
    BY DEF Paths
  <2> QED BY <2>1 DEF Deepest
<1>1. Upto(target, Len(target)) = target /\ target \notin DOMAIN t
  BY UptoFacts DEF WellFormed
<1>2. n # Len(target)
  BY <1>1 DEF Deepest, Place
<1>3. Len(target) \in (n + 1)..Len(target)
  <2>1. n \in Nat /\ n <= Len(target) /\ Len(target) \in Nat
    BY <1>0
  <2> QED BY <2>1, <1>2
<1>4. l[target] \notin DOMAIN t
  BY <1>1, <1>3, NothingBelow
<1>5. Front(target) = Upto(target, Len(target) - 1)
  BY DEF Front, Upto
<1>6. /\ Front(target) \in Paths /\ Last(target) \in Names
      /\ target = Append(Front(target), Last(target))
  <2>1. /\ Upto(target, (Len(target) - 1) + 1)
             = Append(Upto(target, Len(target) - 1), target[(Len(target) - 1) + 1])
        /\ target[(Len(target) - 1) + 1] \in Names /\ Upto(target, Len(target) - 1) \in Paths
    BY <1>0, UptoFacts
  <2> QED BY <1>0, <1>1, <1>5, <2>1 DEF Last
<1>7. Place(t, Front(target))
  <2> DEFINE v == Front(target)
             x == Last(target)
  <2>1. v \in Paths /\ x \in Names /\ target = Append(v, x)
    BY <1>6
  <2> HIDE DEF v, x
  <2>2. Place(t, v)
    BY <2>1, PlaceParent
  <2> QED BY <2>2 DEF v
<1>8. n = Len(target) - 1
  <2> SUFFICES ASSUME n # Len(target) - 1 PROVE FALSE
    OBVIOUS
  <2>1. Len(target) - 1 \in (n + 1)..Len(target)
    <3>1. n \in Nat /\ n <= Len(target) /\ Len(target) \in Nat
      BY <1>0
    <3> QED BY <3>1, <1>2
  <2>2. Real(t, l, Front(target)) = {}
    BY <1>5, <2>1, NothingBelow
  <2>3. Real(t, l, Front(target)) = {Front(target)}
    BY <1>6, <1>7, RealPlace
  <2> QED BY <2>2, <2>3
<1>9. ASSUME NEW k \in 1..(Len(target) - 1) PROVE Real(t, l, SubSeq(target, 1, k)) # {}
  <2>1. k \in 0..n /\ k \in 0..Len(target)
    BY <1>0, <1>8
  <2>2. Upto(target, k) \in Paths /\ Place(t, Upto(target, k))
    BY <2>1, UptoFacts, PlacesAbove
  <2>3. Real(t, l, Upto(target, k)) = {Upto(target, k)}
    BY <2>2, RealPlace
  <2> QED BY <2>3 DEF Upto
<1> QED BY <1>4, <1>6, <1>7, <1>9

LEMMA WrittenToLink ==
  ASSUME NEW CONSTANT target \in Paths, NEW CONSTANT contents, NEW CONSTANT n, target # <<>>,
         WellFormed(tree, links), Deepest(tree, links, target, n), target \in DOMAIN links
  PROVE  /\ WriteThrough(target, contents) = Put(tree, links[target], contents)
         /\ Lands(target) = {links[target]}
<1>0. /\ target = Append(Front(target), Last(target))
      /\ Front(target) \in Paths /\ Place(tree, Front(target))
      /\ \A k \in 1..(Len(target) - 1) : Real(tree, links, SubSeq(target, 1, k)) # {}
  BY LinkIsLast
<1>1. RealPath(Front(target)) = {Front(target)}
  BY <1>0, RealPathIs, RealPlace
<1>2. Lands(target) = {links[target]}
  BY <1>0, <1>1 DEF Lands
<1> DEFINE at == CHOOSE p \in Lands(target) : TRUE
           made == {SubSeq(target, 1, k) : k \in 1..(Len(target) - 1)}
<1>3. at = links[target]
  BY <1>2
<1>4. {q \in made : RealPath(q) = {}} = {}
  BY <1>0, RealPathIs
<1>5. WriteThrough(target, contents) =
        [p \in DOMAIN tree \cup {q \in made : RealPath(q) = {}} \cup {at} |->
           IF p = at THEN contents ELSE IF p \in DOMAIN tree THEN tree[p] ELSE "dir"]
  BY DEF WriteThrough
<1> HIDE DEF at, made
<1>6. WriteThrough(target, contents) =
        [p \in DOMAIN tree \cup {at} |->
           IF p = at THEN contents ELSE IF p \in DOMAIN tree THEN tree[p] ELSE "dir"]
  BY <1>4, <1>5
<1>7. WriteThrough(target, contents) = [p \in DOMAIN tree \cup {at} |-> IF p = at THEN contents ELSE tree[p]]
  BY <1>6
<1> QED BY <1>2, <1>3, <1>7 DEF Put

LEMMA PutWellFormed ==
  ASSUME NEW t, NEW l, WellFormed(t, l), NEW q \in DOMAIN l, NEW contents, HasParent(t, l[q])
  PROVE  WellFormed(Put(t, l[q], contents), l)
<1> DEFINE u == Put(t, l[q], contents)
<1>1. DOMAIN u = DOMAIN t \cup {l[q]}
  BY DEF Put
<1>2. l[q] \notin DOMAIN l
  BY DEF WellFormed
<1> HIDE DEF u
<1>3. ASSUME NEW p, HasParent(t, p) PROVE HasParent(u, p)
  BY <1>1, <1>3 DEF HasParent
<1>4. ASSUME NEW p \in DOMAIN u PROVE HasParent(u, p)
  BY <1>1, <1>3 DEF WellFormed
<1>5. ASSUME NEW p \in DOMAIN l
      PROVE  /\ p \notin DOMAIN u /\ HasParent(u, p)
             /\ l[p] \in Seq(Names) \ {<<>>} /\ l[p] \notin DOMAIN l
  BY <1>1, <1>2, <1>3 DEF WellFormed
<1> QED BY <1>4, <1>5 DEF WellFormed, u

-----------------------------------------------------------------------------
(* The next file.  The path full of the reply leads to target, which is    *)
(* written, or one of its directories is, with contents the reply          *)
(* accounts for: the tree stays well formed and what it says holds.        *)
TargetOf(target, full) ==
  /\ target \in Paths /\ target # <<>> /\ full \in Paths
  /\ IsStrictPrefix(Workspace, target)
  /\ Leads(tree, links, full, target)

Fits(u) ==
  /\ WellFormed(u, links) /\ DOMAIN tree \subseteq DOMAIN u
  /\ Contained(u, tree0, links, permitted, reply.entries, TRUE)

ByReply(q, contents) ==
  \E i \in DOMAIN reply.entries :
    /\ reply.entries[i].form = "relative" /\ Normalize(reply.entries[i].names) = q
    /\ contents \in {reply.entries[i].contents, "torn"}

(* The file goes to the target itself, by directories and no link.         *)
LEMMA PlainWriteFits ==
  ASSUME CSInv, verdict.ok, NEW CONSTANT target, NEW CONSTANT full, NEW CONSTANT contents,
         NEW CONSTANT n, TargetOf(target, full), Deepest(tree, links, target, n), Free(links, target, n),
         contents = "dir" \/ \E q \in permitted : full = Workspace \o q /\ ByReply(q, contents)
  PROVE  Fits(WriteThrough(target, contents))
<1> DEFINE u == Grown(tree, links, target, contents)
<1>0. /\ target \in Paths /\ target # <<>> /\ full \in Paths /\ IsStrictPrefix(Workspace, target)
      /\ Leads(tree, links, full, target)
      /\ WellFormed(tree, links) /\ DOMAIN tree0 \subseteq DOMAIN tree
      /\ Contained(tree, tree0, links, permitted, reply.entries, TRUE)
      /\ Workspace \in Paths /\ Workspace \in DOMAIN tree /\ \A q \in permitted : q \in Paths
  BY PathsOfState DEF TargetOf, CSInv, Contained
<1>1. WriteThrough(target, contents) = u
  BY <1>0, WrittenThrough
<1>2. /\ DOMAIN tree \subseteq DOMAIN u /\ target \in DOMAIN u
      /\ \A p \in DOMAIN u : p \in DOMAIN tree \/ \E j \in (n + 1)..Len(target) : p = Upto(target, j)
  <2>1. /\ WellFormed(tree, links) /\ target \in Paths /\ target # <<>>
        /\ Deepest(tree, links, target, n)
    BY <1>0
  <2> DEFINE t == tree
             l == links
  <2>2. WellFormed(t, l) /\ Deepest(t, l, target, n) /\ u = Grown(t, l, target, contents)
    BY <2>1
  <2> HIDE DEF t, l, u
  <2>3. /\ DOMAIN t \subseteq DOMAIN u /\ target \in DOMAIN u
        /\ \A p \in DOMAIN u : p \in DOMAIN t \/ \E j \in (n + 1)..Len(target) : p = Upto(target, j)
    <3>1. WellFormed(t, l)
      BY <2>2
    <3>2. Deepest(t, l, target, n)
      BY <2>2
    <3>3. target \in Paths
      BY <2>1
    <3>4. target # <<>>
      BY <2>1
    <3>5. u = Grown(t, l, target, contents)
      BY <2>2
    <3> QED BY ONLY <3>1, <3>2, <3>3, <3>4, <3>5, GrownDomain
  <2> QED BY <2>3 DEF t
<1>3. WellFormed(u, links)
  BY <1>0, GrownWellFormed
<1>4. \A p \in DOMAIN u :
        u[p] = IF p = target THEN contents ELSE IF p \in DOMAIN tree THEN tree[p] ELSE "dir"
  BY DEF Grown
<1> HIDE DEF u
<1>5. Real(u, links, full) = {target}
  <2>1. Real(u, links, full) = Real(u, links, target)
    BY <1>0, <1>2, <1>3, TargetReached
  <2>2. Real(u, links, target) = {target}
    BY <1>0, <1>2, <1>3, RealPlace DEF Place
  <2> QED BY <2>1, <2>2
<1>6. contents # "dir" => Accounted(u, links, permitted, reply.entries, target, contents)
  BY <1>5 DEF Accounted, ByReply
<1>7. ASSUME NEW p \in DOMAIN u
      PROVE  (p \in DOMAIN tree /\ u[p] = tree[p])
               \/ Explained(u, tree0, links, permitted, reply.entries, p)
  <2>1. CASE p = target
    <3>1. Allowed(tree0, links, p)
      BY <1>0, <2>1 DEF Allowed, Outside
    <3> QED BY <1>4, <1>6, <2>1, <3>1 DEF Explained
  <2>2. CASE p # target /\ p \in DOMAIN tree
    BY <1>4, <2>2
  <2>3. CASE p # target /\ p \notin DOMAIN tree
    <3>1. u[p] = "dir"
      BY <1>4, <2>3
    <3>2. IsStrictPrefix(Workspace, p)
      BY <1>0, <1>2, <2>3, NewInside
    <3> QED BY <3>1, <3>2 DEF Explained, Allowed, Outside
  <2> QED BY <2>1, <2>2, <2>3
<1>8. Contained(u, tree0, links, permitted, reply.entries, TRUE)
  BY <1>0, <1>2, <1>3, <1>7, WriteContained
<1> QED BY <1>1, <1>2, <1>3, <1>8 DEF Fits

(* The target is a link to what is not there: the file goes where it       *)
(* leads.                                                                  *)
LEMMA LinkWriteFits ==
  ASSUME CSInv, verdict.ok, NEW CONSTANT target, NEW CONSTANT full, NEW CONSTANT contents,
         NEW CONSTANT n, TargetOf(target, full), Deepest(tree, links, target, n),
         target \in DOMAIN links, CanWrite(target),
         \E q \in permitted : full = Workspace \o q /\ ByReply(q, contents)
  PROVE  Fits(WriteThrough(target, contents))
<1> DEFINE at == links[target]
           u == Put(tree, at, contents)
<1>0. /\ target \in Paths /\ target # <<>> /\ full \in Paths /\ IsStrictPrefix(Workspace, target)
      /\ Leads(tree, links, full, target)
      /\ WellFormed(tree, links) /\ DOMAIN tree0 \subseteq DOMAIN tree
      /\ Contained(tree, tree0, links, permitted, reply.entries, TRUE)
      /\ Workspace \in Paths /\ Workspace \in DOMAIN tree /\ \A q \in permitted : q \in Paths
  BY PathsOfState DEF TargetOf, CSInv, Contained
<1>1. WriteThrough(target, contents) = u /\ Lands(target) = {at}
  BY <1>0, WrittenToLink
<1>2. HasParent(tree, at)
  BY <1>1 DEF CanWrite
<1>3. WellFormed(u, links) /\ DOMAIN u = DOMAIN tree \cup {at}
  BY <1>0, <1>2, PutWellFormed DEF Put
<1>4. \A p \in DOMAIN u : u[p] = IF p = at THEN contents ELSE tree[p]
  BY DEF Put
<1>5. /\ at \notin DOMAIN tree
      /\ target = Append(Front(target), Last(target)) /\ Last(target) \in Names
      /\ Front(target) \in Paths /\ Place(tree, Front(target))
  BY <1>0, LinkIsLast
<1> HIDE DEF u, at
<1>6. Real(u, links, full) = {at}
  <2>1. Real(u, links, full) = Real(u, links, target)
    BY <1>0, <1>3, TargetReached
  <2>2. Real(u, links, Front(target)) = {Front(target)}
    <3>1. Place(u, Front(target))
      BY <1>3, <1>5 DEF Place
    <3> QED BY <1>3, <1>5, <3>1, RealPlace
  <2>3. Real(u, links, target) = Into(u, links, {Front(target)}, Last(target))
    <3> DEFINE v == Front(target)
               x == Last(target)
    <3>1. v \in Paths /\ x \in Names /\ target = Append(v, x) /\ Real(u, links, v) = {v}
      BY <1>5, <2>2
    <3> HIDE DEF v, x
    <3>2. Real(u, links, Append(v, x)) = Into(u, links, Real(u, links, v), x)
      <4>1. WellFormed(u, links)
        BY <1>3
      <4>2. v \in Paths
        BY <3>1
      <4>3. x \in Names
        BY <3>1
      <4> QED BY ONLY <4>1, <4>2, <4>3, RealAppend
    <3>3. Real(u, links, target) = Into(u, links, {v}, x)
      BY <3>1, <3>2
    <3> QED BY <3>3 DEF v, x
  <2>4. Into(u, links, {Front(target)}, Last(target)) = DOMAIN u \cap {at}
    BY <1>5 DEF Into, at
  <2> QED BY <1>3, <2>1, <2>3, <2>4
<1>7. Accounted(u, links, permitted, reply.entries, at, contents)
  BY <1>6 DEF Accounted, ByReply
<1>8. Allowed(tree0, links, at)
  BY <1>0, <1>5 DEF Allowed, Dangling, Outside, at
<1>9. ASSUME NEW p \in DOMAIN u
      PROVE  (p \in DOMAIN tree /\ u[p] = tree[p])
               \/ Explained(u, tree0, links, permitted, reply.entries, p)
  BY <1>3, <1>4, <1>7, <1>8 DEF Explained
<1>10. Contained(u, tree0, links, permitted, reply.entries, TRUE)
  BY <1>0, <1>3, <1>9, WriteContained
<1> QED BY <1>1, <1>3, <1>10 DEF Fits

(* The names that a write adds are no links, unless the last is.           *)
LEMMA NoLinkAbove ==
  ASSUME CSInv, NEW CONSTANT target \in Paths, NEW CONSTANT n, Deepest(tree, links, target, n),
         CanWrite(target)
  PROVE  \A j \in (n + 1)..(Len(target) - 1) : Upto(target, j) \notin DOMAIN links
<1>1. n \in Nat /\ Len(target) \in Nat
  BY UptoFacts DEF Deepest
<1>2. ASSUME NEW j \in (n + 1)..(Len(target) - 1) PROVE Upto(target, j) \notin DOMAIN links
  <2>1. j \in (n + 1)..Len(target) /\ j \in 1..(Len(target) - 1)
    BY <1>1
  <2>2. Upto(target, j) \in DOMAIN links => links[Upto(target, j)] \notin DOMAIN tree
    BY <2>1, NothingBelow DEF CSInv
  <2>3. ~LeadsNowhere(Upto(target, j))
    BY <2>1 DEF CanWrite, Upto
  <2> QED BY <2>2, <2>3 DEF LeadsNowhere
<1> QED BY <1>2

(* Either way, the whole file or a part of it.                             *)
LEMMA TargetWriteFits ==
  ASSUME CSInv, verdict.ok, NEW CONSTANT target, NEW CONSTANT full, NEW CONSTANT contents,
         TargetOf(target, full), CanWrite(target),
         \E q \in permitted : full = Workspace \o q /\ ByReply(q, contents)
  PROVE  Fits(WriteThrough(target, contents))
<1>1. PICK n \in Nat : Deepest(tree, links, target, n)
  BY DEF TargetOf, Leads
<1>2. CASE target \in DOMAIN links
  BY <1>1, <1>2, LinkWriteFits
<1>3. CASE target \notin DOMAIN links
  <2>1. Free(links, target, n)
    <3>1. target \in Paths /\ Len(target) \in Nat /\ Upto(target, Len(target)) = target
      BY UptoFacts DEF TargetOf
    <3>2. \A j \in (n + 1)..(Len(target) - 1) : Upto(target, j) \notin DOMAIN links
      BY <1>1, <3>1, NoLinkAbove
    <3>3. ASSUME NEW j \in (n + 1)..Len(target) PROVE Upto(target, j) \notin DOMAIN links
      <4>1. CASE j = Len(target)
        BY <1>3, <3>1, <4>1
      <4>2. CASE j # Len(target)
        <5>1. j \in (n + 1)..(Len(target) - 1)
          BY <3>1, <4>2
        <5> QED BY <3>2, <5>1
      <4> QED BY <4>1, <4>2
    <3> QED BY <3>3 DEF Free
  <2> QED BY <1>1, <2>1, PlainWriteFits
<1> QED BY <1>2, <1>3

(* A directory of the target, and those above it.                          *)
LEMMA DirectoryFits ==
  ASSUME CSInv, verdict.ok, NEW CONSTANT target, NEW CONSTANT full, NEW CONSTANT k,
         k \in 1..(Len(target) - 1), TargetOf(target, full), CanWrite(target),
         RealPath(SubSeq(target, 1, k)) = {}
  PROVE  Fits(WriteThrough(SubSeq(target, 1, k), "dir"))
<1> DEFINE p == SubSeq(target, 1, k)
<1>1. PICK n \in Nat : Deepest(tree, links, target, n)
  BY DEF TargetOf, Leads
<1>2. /\ target \in Paths /\ WellFormed(tree, links) /\ Len(target) \in Nat
      /\ Workspace \in Paths /\ Workspace \in DOMAIN tree /\ IsStrictPrefix(Workspace, target)
      /\ n <= Len(target)
  BY <1>1, UptoFacts, PathsOfState DEF TargetOf, CSInv, Deepest
<1>3. p = Upto(target, k) /\ p \in Paths /\ Len(p) = k /\ k \in 0..Len(target) /\ k \in Nat
  <2>1. k \in 0..Len(target) /\ k \in Nat
    BY <1>2
  <2> QED BY <1>2, <2>1, UptoFacts DEF Upto
<1>4. Real(tree, links, p) = {}
  BY RealPathIs
<1> HIDE DEF p
<1>5. n < k
  <2> SUFFICES ASSUME k \in 0..n PROVE FALSE
    BY <1>3
  <2>1. Place(tree, p)
    BY <1>1, <1>2, <1>3, PlacesAbove
  <2>2. Real(tree, links, p) = {p}
    BY <1>2, <1>3, <2>1, RealPlace
  <2> QED BY <1>4, <2>2
<1>6. \A j \in 0..k : Upto(p, j) = Upto(target, j)
  <2>1. target \in Seq(Names) /\ p = SubSeq(target, 1, k) /\ Len(target) \in Nat
    BY <1>2, <1>3 DEF Paths, Upto
  <2>2. ASSUME NEW j \in 0..k PROVE SubSeq(p, 1, j) = SubSeq(target, 1, j)
    BY <1>3, <2>1
  <2> QED BY <2>2 DEF Upto
<1>7. Deepest(tree, links, p, n)
  <2>1. n \in 0..k /\ n + 1 \in 0..k /\ n < Len(target)
    BY <1>2, <1>3, <1>5
  <2> QED BY <1>1, <1>3, <1>6, <2>1 DEF Deepest
<1>8. Free(links, p, n)
  <2>1. ASSUME NEW j \in (n + 1)..k PROVE Upto(p, j) \notin DOMAIN links
    <3>1. j \in (n + 1)..(Len(target) - 1) /\ j \in 0..k
      BY <1>2, <1>3
    <3>2. Upto(target, j) \notin DOMAIN links
      BY <1>1, <1>2, <3>1, NoLinkAbove
    <3> QED BY <1>6, <3>1, <3>2
  <2> QED BY <1>3, <2>1 DEF Free
<1>9. p # <<>> /\ IsStrictPrefix(Workspace, p)
  <2>1. k \in (n + 1)..Len(target)
    BY <1>2, <1>3, <1>5
  <2>2. IsStrictPrefix(Workspace, Upto(target, k))
    BY <1>1, <1>2, <2>1, NewInside
  <2>3. Len(<<>>) = 0 /\ k # 0
    BY <1>3
  <2> QED BY <1>3, <2>2, <2>3
<1>10. Leads(tree, links, p, p)
  <2>1. Place(tree, <<>>) /\ <<>> \in Paths /\ Real(tree, links, Upto(p, 0)) = {<<>>}
    BY <1>2, <1>3, UptoFacts, RealEmpty DEF Place, Paths
  <2>2. p = <<>> \o SubSeq(p, 0 + 1, Len(p)) /\ 0 \in 0..Len(p)
    BY <1>3 DEF Paths
  <2> QED BY <1>7, <2>1, <2>2 DEF Leads
<1>11. TargetOf(p, p)
  BY <1>3, <1>9, <1>10 DEF TargetOf
<1>12. Fits(WriteThrough(p, "dir"))
  BY <1>7, <1>8, <1>11, PlainWriteFits
<1> QED BY <1>12 DEF p

(* The file that is next is a permitted entry of the reply's.              *)
LEMMA NextFile ==
  ASSUME CSInv, writing > 0
  PROVE  /\ verdict.ok
         /\ \E q \in permitted :
              /\ verdict.files[writing].path = q
              /\ ByReply(q, verdict.files[writing].contents) /\ ByReply(q, "torn")
              /\ \A p \in AssertContainedTarget(q) : TargetOf(p, Workspace \o q)
<1> DEFINE file == verdict.files[writing]
           entries == reply.entries
<1>1. writing \in Nat /\ verdict.ok /\ writing <= Len(verdict.files)
  BY DEF CSInv
<1>2. entries \in Seq(ToSet(entries)) /\ Len(entries) \in Nat /\ DOMAIN entries = 1..Len(entries)
  <2>1. entries \in Seq(ToSet(entries))
    BY PathsOfState
  <2> HIDE DEF entries
  <2> QED BY <2>1
<1>3. PICK q \in permitted :
         /\ writing \in DOMAIN entries
         /\ entries[writing].form = "relative" /\ Normalize(entries[writing].names) = q
         /\ file.path = q /\ file.contents = entries[writing].contents
  <2>1. Len(verdict.files) = Len(entries)
    BY <1>1 DEF CSInv, VerdictHolds
  <2>2. writing \in 1..Len(entries)
    BY <1>1, <1>2, <2>1
  <2> QED BY <1>1, <1>2, <2>2 DEF CSInv, VerdictHolds
<1>4. ByReply(q, file.contents) /\ ByReply(q, "torn")
  BY <1>3 DEF ByReply
<1>5. ASSUME NEW p \in AssertContainedTarget(q) PROVE TargetOf(p, Workspace \o q)
  <2>0. /\ WellFormed(tree, links) /\ Workspace \in Paths /\ Workspace \in DOMAIN tree /\ q \in Paths
        /\ Workspace \o q \in Paths
    <3>1. Workspace \in Paths /\ Workspace \in DOMAIN tree /\ q \in Paths
      BY PathsOfState
    <3> QED BY <3>1 DEF Paths, CSInv
  <2>1. p \in Paths /\ IsStrictPrefix(Workspace, p) /\ Leads(tree, links, Workspace \o q, p)
    BY <2>0, ContainedTarget
  <2>2. p # <<>>
    <3>1. Len(Workspace) \in Nat /\ Len(Workspace) # 0
      BY <2>0 DEF WellFormed, HasParent, Paths
    <3>2. Len(Workspace) <= Len(p) /\ Len(<<>>) = 0
      BY <2>1 DEF IsStrictPrefix, IsPrefix
    <3> QED BY <3>1, <3>2
  <2> QED BY <2>0, <2>1, <2>2 DEF TargetOf
<1> QED BY <1>1, <1>3, <1>4, <1>5

LEMMA FitsKeeps ==
  ASSUME CSInv, verdict.ok, UNCHANGED <<reply, permitted, links, tree0, verdict>>, Fits(tree'),
         writing' \in Nat, writing' > 0 => writing' <= Len(verdict.files)
  PROVE  CSInv'
<1>1. /\ reply' = reply /\ permitted' = permitted /\ links' = links /\ tree0' = tree0
      /\ verdict' = verdict
  OBVIOUS
<1>2. /\ WellFormed(tree', links) /\ DOMAIN tree0 \subseteq DOMAIN tree'
      /\ Contained(tree', tree0, links, permitted, reply.entries, verdict.ok)
  BY DEF Fits, CSInv, Contained
<1> QED BY <1>1, <1>2 DEF CSInv

LEMMA StandsKeeps ==
  ASSUME CSInv, UNCHANGED <<reply, permitted, links, tree0, verdict, tree>>, writing' = 0
  PROVE  CSInv'
<1>1. /\ reply' = reply /\ permitted' = permitted /\ links' = links /\ tree0' = tree0
      /\ verdict' = verdict /\ tree' = tree /\ writing' = 0
  OBVIOUS
<1> QED BY <1>1 DEF CSInv

(* The invariant holds whether the file is written, refused, or fails.     *)
LEMMA WriteFileKeeps ==
  ASSUME CSInv, WriteFile
  PROVE  CSInv'
<1>1. UNCHANGED <<reply, permitted, links, tree0, verdict>> /\ writing > 0
  BY DEF WriteFile
<1>2. PICK q \in permitted :
        /\ verdict.ok /\ verdict.files[writing].path = q
        /\ ByReply(q, verdict.files[writing].contents)
        /\ \A p \in AssertContainedTarget(q) : TargetOf(p, Workspace \o q)
  BY <1>1, NextFile
<1>3. CASE writing' = 0 /\ UNCHANGED tree
  BY <1>1, <1>3, StandsKeeps
<1>4. CASE /\ \E p \in AssertContainedTarget(q) :
                CanWrite(p) /\ tree' = WriteThrough(p, verdict.files[writing].contents)
           /\ writing' = IF writing < Len(verdict.files) THEN writing + 1 ELSE 0
  <2>1. PICK p \in AssertContainedTarget(q) :
          CanWrite(p) /\ tree' = WriteThrough(p, verdict.files[writing].contents)
    BY <1>4
  <2>2. Fits(WriteThrough(p, verdict.files[writing].contents))
    BY <1>2, <2>1, TargetWriteFits
  <2>3. writing' \in Nat /\ (writing' > 0 => writing' <= Len(verdict.files))
    <3>1. writing \in Nat /\ Len(verdict.files) \in Nat
      <4>1. Len(verdict.files) = Len(reply.entries) /\ reply.entries \in Seq(ToSet(reply.entries))
        BY <1>2, PathsOfState DEF CSInv, VerdictHolds
      <4> QED BY <4>1 DEF CSInv
    <3> QED BY <1>4, <3>1
  <2> QED BY <1>1, <1>2, <2>1, <2>2, <2>3, FitsKeeps
<1> QED BY <1>2, <1>3, <1>4 DEF WriteFile

LEMMA WriteFailsKeeps ==
  ASSUME CSInv, WriteFails
  PROVE  CSInv'
<1>1. UNCHANGED <<reply, permitted, links, tree0, verdict>> /\ writing > 0 /\ writing' = 0
  BY DEF WriteFails
<1>2. PICK q \in permitted :
        /\ verdict.ok /\ verdict.files[writing].path = q /\ ByReply(q, "torn")
        /\ \A p \in AssertContainedTarget(q) : TargetOf(p, Workspace \o q)
  BY <1>1, NextFile
<1>3. PICK p \in AssertContainedTarget(q) :
        /\ CanWrite(p)
        /\ \/ UNCHANGED tree
           \/ \E k \in 1..(Len(p) - 1) : /\ RealPath(SubSeq(p, 1, k)) = {}
                                         /\ tree' = WriteThrough(SubSeq(p, 1, k), "dir")
           \/ tree' = WriteThrough(p, "torn")
  BY <1>2 DEF WriteFails
<1>4. CASE UNCHANGED tree
  BY <1>1, <1>4, StandsKeeps
<1>5. ASSUME NEW k \in 1..(Len(p) - 1), RealPath(SubSeq(p, 1, k)) = {},
             tree' = WriteThrough(SubSeq(p, 1, k), "dir")
      PROVE  CSInv'
  <2>1. Fits(WriteThrough(SubSeq(p, 1, k), "dir"))
    BY <1>2, <1>3, <1>5, DirectoryFits
  <2> QED BY <1>1, <1>2, <1>5, <2>1, FitsKeeps
<1>6. CASE tree' = WriteThrough(p, "torn")
  <2>1. Fits(WriteThrough(p, "torn"))
    BY <1>2, <1>3, TargetWriteFits
  <2> QED BY <1>1, <1>2, <1>6, <2>1, FitsKeeps
<1> QED BY <1>3, <1>4, <1>5, <1>6

-----------------------------------------------------------------------------
LEMMA CSInvStep == CSInv /\ [CSNext]_csVars => CSInv'
<1> SUFFICES ASSUME CSInv, [CSNext]_csVars PROVE CSInv'
  OBVIOUS
<1>1. CASE Validate
  BY <1>1, ValidateKeeps
<1>2. CASE WriteFile
  BY <1>2, WriteFileKeeps
<1>3. CASE WriteFails
  BY <1>3, WriteFailsKeeps
<1>4. CASE UNCHANGED csVars
  <2>1. /\ reply' = reply /\ permitted' = permitted /\ links' = links /\ tree0' = tree0
        /\ verdict' = verdict /\ tree' = tree /\ writing' = writing
    BY <1>4 DEF csVars
  <2> QED BY <2>1 DEF CSInv
<1> QED BY <1>1, <1>2, <1>3, <1>4 DEF CSNext

(* Nothing there outside the workspace changes, nothing is added outside   *)
(* but what a dangling link of the workspace names, and no file changes    *)
(* but the permitted ones, each to what the reply says of it or, when its  *)
(* write fails, to a part of it, for any names, replies, permissions,      *)
(* trees and links (changeset.ts:170-205).                                 *)
THEOREM WritesAreContained == CSSpec => []ContainedWrites
<1>1. CSInv => ContainedWrites
  BY ContainedIs DEF CSInv
<1> QED BY <1>1, CSInvInit, CSInvStep, PTL DEF CSSpec
=============================================================================
