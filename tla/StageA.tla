------------------------------- MODULE StageA -------------------------------
(***************************************************************************)
(* The Stage A runner of the held-out corpus, in its three forms: v1 live, *)
(* v1 with a stub (src/scripts/gate-h-heldout/run-stage-a.mjs) and v2,     *)
(* which only runs with a stub (v2/run-stage-a.mjs).  One process walks    *)
(* the frozen schedule and, for each cell, reserves money, asks the model, *)
(* validates its change set, copies a base worktree, writes the change set *)
(* into the copy and spawns the evaluator.                                 *)
(*                                                                         *)
(* Meanwhile an operator may run validate-candidates.mjs, which injects    *)
(* tests into the worktrees, and provision.mjs, which recreates them.      *)
(***************************************************************************)
EXTENDS BudgetGuard, HeldoutEvaluator, FiniteSets, Sequences

CONSTANTS
  Tasks, Baseline, Assisted,   \* freeze.corpus, the arm T0, and the other arms
  Order,                       \* freeze.schedule.order
  Modes,                       \* which of the three forms are run
  Limit,                       \* --limit, in each of them
  Estimates, Overrun           \* as for the adapter

Arms == Assisted \cup {Baseline}

ASSUME OrderAssumption == Order \in Seq([task : Tasks, arm : Arms])
ASSUME ModesAssumption == Modes \subseteq {"v1_live", "v1_stub", "v2_stub"}
ASSUME LimitAssumption == Modes \subseteq DOMAIN Limit /\ \A m \in Modes : Limit[m] \in Nat
ASSUME EstimatesAssumption == Estimates \subseteq Nat
ASSUME OverrunAssumption == Overrun \in Nat

VARIABLES
  mode,        \* which script, and --dry-run
  pc, cell,    \* where the loop is, and the cell it is at
  est,         \* the estimate reserved for this cell
  cost,        \* what the provider charged and then reported for it
  answer,      \* whether the change set in hand repairs the defect
  workspace,   \* the copy under the runner's scratch directory
  attempts,    \* the receipts, in memory until the summary is written
  summary,     \* summary.json
  worktree,    \* the base worktree of each task, as git status sees it
  disturbed    \* history: it was worked on after its status was asked

loopVars == <<mode, pc, cell, est, cost, answer, workspace, attempts, summary>>
treeVars == <<worktree, disturbed>>
vars == <<guardVars, evaluator, loopVars, treeVars>>

V2 == mode = "v2_stub"
Live == mode = "v1_live"

Statuses == {"budget_refused", "provider_error", "output_rejected", "evaluated"}

(* Only v2 records an evaluator_outcome.                                   *)
Outcomes == {"none", "passed", "tests_failed", "timed_out", "killed", "runner_unavailable"}

(* suite is history, kept of v2's attempts: what became of the tests.  No  *)
(* code reads it.                                                          *)
Attempts ==
  [cell : 1..Len(Order), status : Statuses, cost : Nat, task_success : BOOLEAN,
   evaluator_outcome : Outcomes, suite : Suites \cup {"timed_out"}]

Unevaluated(status, paid) ==
  [cell |-> cell, status |-> status, cost |-> paid, task_success |-> FALSE,
   evaluator_outcome |-> "none", suite |-> "none"]

Ended == {"summarized", "thrown", "crashed"}

Init ==
  /\ GuardInit
  /\ evaluator = NoEvaluator
  /\ mode \in Modes
  /\ pc = "next" /\ cell = 1
  /\ est = 0 /\ cost = 0
  /\ answer = FALSE
  /\ workspace = "none"
  /\ attempts = <<>>
  /\ summary = "none"
  /\ worktree \in [Tasks -> {"absent", "clean", "dirty"}]
  /\ disturbed = FALSE

TaskOf(c) == Order[c].task
ArmOf(c) == Order[c].arm

More == cell <= Len(Order) /\ cell <= Limit[mode]

(* The process ends without a summary, and with it what was in memory.     *)
Exit(how) ==
  /\ pc' = how
  /\ attempts' = <<>>
  /\ est' = 0 /\ cost' = 0 /\ answer' = FALSE
  /\ UNCHANGED <<mode, cell, summary, evaluator, treeVars>>

(* What this cell reserves: a stub costs nothing.                          *)
Reservations == IF Live THEN Estimates ELSE {0}

(* The next cell: its estimate is reserved, a scratch directory made, and  *)
(* the request sent.                                                       *)
BeginCell(e) ==
  /\ pc = "next" /\ More
  /\ Reserve(e)
  /\ pc' = "asked"
  /\ est' = e
  /\ workspace' = "empty"
  /\ UNCHANGED <<mode, cell, cost, answer, attempts, summary, evaluator, treeVars>>

(* Reading the files of the cell fails, before anything is reserved, or    *)
(* mkdtemp, after it, both outside the try; so is v2's reservation, and a  *)
(* refusal of it ends the process.                                         *)
BeginFails(e) ==
  /\ pc = "next" /\ More
  /\ Reserve(e) \/ UNCHANGED guardVars
  /\ Exit("thrown")
  /\ UNCHANGED workspace

(* v1's guard refuses: the cell gets a receipt, and the loop is left.      *)
RefuseBudget(e) ==
  /\ pc = "next" /\ More
  /\ ~V2 /\ ~Admits(e)
  /\ attempts' = Append(attempts, Unevaluated("budget_refused", 0))
  /\ pc' = "summing"
  /\ UNCHANGED <<guardVars, mode, cell, est, cost, answer, workspace, summary,
                 evaluator, treeVars>>

(* continue, or the end of the body: the finally removes the scratch       *)
(* directory, and the locals of the body go out of scope.                  *)
EndCell(receipt) ==
  /\ attempts' = Append(attempts, receipt)
  /\ workspace' = "none"
  /\ est' = 0 /\ cost' = 0 /\ answer' = FALSE
  /\ pc' = "next"
  /\ cell' = cell + 1

(* The provider runs the request and charges for it.                       *)
Charge(c) ==
  /\ pc = "asked" /\ Live
  /\ pc' = "charged"
  /\ cost' = c
  /\ UNCHANGED <<guardVars, mode, cell, est, answer, workspace, attempts, summary,
                 evaluator, treeVars>>

(* An answer is there: the provider's, which is settled first, or a        *)
(* stub's.                                                                 *)
Answered ==
  \/ pc = "charged" /\ Settle(est, cost)
  \/ pc = "asked" /\ ~Live /\ UNCHANGED guardVars

(* Seeded fault: the cost of an answer that is refused is not recorded.    *)
RejectOutputUnpriced ==
  /\ Answered
  /\ EndCell(Unevaluated("output_rejected", 0))
  /\ UNCHANGED <<mode, summary, evaluator, treeVars>>

(* The validation refuses it: prose, nothing, too much, or a path that is  *)
(* not permitted.                                                          *)
RejectOutput ==
  /\ Answered
  /\ EndCell(Unevaluated("output_rejected", cost))
  /\ UNCHANGED <<mode, summary, evaluator, treeVars>>

AcceptOutput(repairs) ==
  /\ Answered
  /\ answer' = repairs
  /\ pc' = "materialize"
  /\ UNCHANGED <<mode, cell, est, cost, workspace, attempts, summary,
                 evaluator, treeVars>>

(* Seeded fault: the attempt is continued without a receipt.               *)
TransportFailsUnrecorded ==
  /\ pc \in {"asked", "charged"} /\ Live
  /\ Settle(est, 0)
  /\ workspace' = "none"
  /\ est' = 0 /\ cost' = 0 /\ answer' = FALSE
  /\ pc' = "next"
  /\ cell' = cell + 1
  /\ UNCHANGED <<mode, attempts, summary, evaluator, treeVars>>

(* callResponses rejects, whatever became of the request at the provider:  *)
(* the reservation is settled at 0 and the attempt is not retried.         *)
TransportFails ==
  /\ pc \in {"asked", "charged"} /\ Live
  /\ Settle(est, 0)
  /\ EndCell(Unevaluated("provider_error", 0))
  /\ UNCHANGED <<mode, summary, evaluator, treeVars>>

(* Seeded fault: the worktree need only be there.                          *)
CheckWorktreeExists ==
  /\ pc = "materialize"
  /\ worktree[TaskOf(cell)] # "absent"
  /\ pc' = "copying"
  /\ UNCHANGED <<guardVars, mode, cell, est, cost, answer, workspace, attempts,
                 summary, evaluator, treeVars>>

(* materialize: the worktree must exist, be at the base commit and be      *)
(* clean.                                                                  *)
CheckWorktree ==
  /\ pc = "materialize"
  /\ worktree[TaskOf(cell)] = "clean"
  /\ pc' = "copying"
  /\ UNCHANGED <<guardVars, mode, cell, est, cost, answer, workspace, attempts,
                 summary, evaluator, treeVars>>

RefuseWorktree ==
  /\ pc = "materialize"
  /\ worktree[TaskOf(cell)] # "clean"
  /\ Exit("thrown")
  /\ workspace' = "none"
  /\ UNCHANGED guardVars

(* The copy, made of whatever the worktree is by now, the change set       *)
(* written into it, and the evaluator spawned.                             *)
CopyAndSpawn ==
  /\ pc = "copying"
  /\ workspace' = [clean |-> "base", dirty |-> "tainted", absent |-> "torn"]
                    [worktree[TaskOf(cell)]]
  /\ evaluator' = Spawned
  /\ pc' = "evaluating"
  /\ UNCHANGED <<guardVars, mode, cell, est, cost, answer, attempts, summary,
                 treeVars>>

(* What the try block awaits rejects (git, the price of the answer, the    *)
(* copy, a write), or the rm of its finally does: the process ends.        *)
BodyFails ==
  /\ \/ pc \in {"asked", "charged", "materialize", "copying"}
     \/ pc = "evaluating" /\ evaluator.pc = "done"
  /\ \/ UNCHANGED guardVars
     \/ pc \in {"asked", "charged"} /\ \E paid \in {0, cost} : Settle(est, paid)
  /\ Exit("thrown")
  /\ workspace' \in {"none", workspace}

(* What the tests can do: they pass only on a repair in a whole copy.      *)
SuiteMayEnd(suite) ==
  suite = "passed" => answer /\ workspace # "torn"

Evaluate ==
  /\ \/ NeverSetUp \/ SetupFails(V2)
     \/ StartSuite \/ SuiteUnspawnable
     \/ \E suite \in SuiteEndings : SuiteMayEnd(suite) /\ SuiteEnds(suite)
     \/ SuiteTimesOut(V2)
     \/ Closes(V2)
     \/ Removes \/ RemovalFails
     \/ EvaluatorTimesOut
     \/ Tick
  /\ UNCHANGED <<guardVars, loopVars, treeVars>>

(* Seeded fault: anything but a test failure counts as a success.          *)
SucceedsUnlessFailed(code) == code # 17

Succeeds(code) == code = 0

(* The evaluator has exited: the attempt is judged by its exit code.       *)
RecordEvaluation ==
  /\ pc = "evaluating" /\ evaluator.pc = "done"
  /\ EndCell([cell |-> cell, status |-> "evaluated", cost |-> cost,
              task_success |-> Succeeds(evaluator.code),
              evaluator_outcome |->
                IF V2 THEN InterpretEvaluatorExit(evaluator.code) ELSE "none",
              suite |-> IF ~V2 THEN "none"
                        ELSE IF evaluator.timedOut THEN "timed_out"
                        ELSE evaluator.suite])
  /\ evaluator' = NoEvaluator
  /\ disturbed' = FALSE
  /\ UNCHANGED <<guardVars, mode, summary, worktree>>

-----------------------------------------------------------------------------
(* byTask[task][arm]: absent when the cell has no receipt, and a receipt   *)
(* without task_success, as for a refused budget, reads as a failure.      *)
Receipts(task, arm) ==
  {i \in 1..Len(attempts) :
     /\ TaskOf(attempts[i].cell) = task
     /\ ArmOf(attempts[i].cell) = arm}

Lost(task, arm) == \E i \in Receipts(task, arm) : ~attempts[i].task_success
Won(task, arm) == \E i \in Receipts(task, arm) : attempts[i].task_success

(* Seeded fault: a task whose baseline has no receipt counts as failed.    *)
AnyT0NotWon == {task \in Tasks : ~Won(task, Baseline)}

T0Failures == {task \in Tasks : Lost(task, Baseline)}

Wins(arm) == {task \in T0Failures : Won(task, arm)}

RulePassed == \E arm \in Assisted : Cardinality(Wins(arm)) >= 2

Summarize ==
  /\ pc = "summing" \/ (pc = "next" /\ ~More)
  /\ summary' = IF RulePassed THEN "continue_to_stage_b"
                 ELSE "no_detectable_large_signal"
  /\ pc' = "summarized"
  /\ UNCHANGED <<guardVars, mode, cell, est, cost, answer, workspace, attempts,
                 evaluator, treeVars>>

SummaryFails ==
  /\ pc = "summing" \/ (pc = "next" /\ ~More)
  /\ Exit("thrown")
  /\ UNCHANGED <<guardVars, workspace>>

(* The process is killed: nothing is cleaned up, and a running evaluator   *)
(* is nobody's child.                                                      *)
Crash ==
  /\ pc \notin Ended
  /\ Exit("crashed")
  /\ UNCHANGED <<guardVars, workspace>>

(* The operator's scripts know nothing of the runner.                      *)
WorksOn(task, state) ==
  /\ worktree' = [worktree EXCEPT ![task] = state]
  /\ disturbed' = (disturbed \/ (pc = "copying" /\ task = TaskOf(cell)))
  /\ UNCHANGED <<guardVars, evaluator, loopVars>>

(* validate-candidates.mjs: the worktree is made if it is not there, and   *)
(* the tests injected into it stay.                                        *)
InjectTests(task) == WorksOn(task, "dirty")

(* provision.mjs removes a modified worktree, then makes a missing one.    *)
RemoveModified(task) ==
  /\ worktree[task] = "dirty"
  /\ WorksOn(task, "absent")

AddWorktree(task) ==
  /\ worktree[task] = "absent"
  /\ WorksOn(task, "clean")

RunLoop ==
  \/ \E e \in Reservations : BeginCell(e) \/ BeginFails(e) \/ RefuseBudget(e)
  \/ RejectOutput
  \/ \E repairs \in BOOLEAN : AcceptOutput(repairs)
  \/ TransportFails
  \/ CheckWorktree \/ RefuseWorktree \/ CopyAndSpawn \/ BodyFails
  \/ RecordEvaluation
  \/ Summarize \/ SummaryFails

(* What the operator does once the run is over changes nothing of it.      *)
Operator ==
  /\ pc \notin Ended
  /\ \E task \in Tasks : InjectTests(task) \/ RemoveModified(task) \/ AddWorktree(task)

Next ==
  \/ RunLoop
  \/ \E c \in 0..(est + Overrun) : Charge(c)
  \/ pc # "crashed" /\ Evaluate
  \/ Crash
  \/ Operator

(* Every await of the loop settles (the request has a timeout, and git and *)
(* the file system answer), and both timers fire.  Nobody is obliged to    *)
(* run the operator's scripts, and a suite need not end.                   *)
Fairness ==
  /\ WF_vars(RunLoop)
  /\ WF_vars(Tick /\ UNCHANGED <<guardVars, loopVars, treeVars>>)
  /\ WF_vars(EvaluatorTimesOut /\ UNCHANGED <<guardVars, loopVars, treeVars>>)

Spec == Init /\ [][Next]_vars /\ Fairness

-----------------------------------------------------------------------------
TypeOK ==
  /\ requests \in 0..MaxRequests /\ spent \in Nat /\ reserved \in Nat
  /\ evaluator \in Evaluators
  /\ mode \in Modes
  /\ pc \in {"next", "asked", "charged", "materialize", "copying", "evaluating",
             "summing"} \cup Ended
  /\ cell \in 1..(Len(Order) + 1)
  /\ est \in Nat /\ cost \in Nat
  /\ answer \in BOOLEAN
  /\ workspace \in {"none", "empty", "base", "tainted", "torn"}
  /\ attempts \in Seq(Attempts)
  /\ summary \in {"none", "continue_to_stage_b", "no_detectable_large_signal"}
  /\ worktree \in [Tasks -> {"absent", "clean", "dirty"}]
  /\ disturbed \in BOOLEAN

(* Every executed cell of the frozen order has one receipt, in that order: *)
(* no continue, break or failure of a cell leaves it out or writes it      *)
(* twice (run-stage-a.mjs:190-354).                                        *)
ReceiptsFollowSchedule ==
  /\ \A i \in 1..Len(attempts) : attempts[i].cell = i
  /\ pc \in {"next", "asked", "charged", "materialize", "copying", "evaluating"}
       => Len(attempts) = cell - 1

(* One pair <<i, d>> per dollar of the cost in receipt i.                  *)
ReceiptedUnits ==
  {u \in (1..Len(attempts)) \X (1..(MaxRequest + Overrun)) :
     u[2] <= attempts[u[1]].cost}

(* What was paid for the cell in hand, whose receipt is not written yet.   *)
InHand == IF pc \in {"materialize", "copying", "evaluating"} THEN cost ELSE 0

(* spent_usd is at every moment the sum of cost_usd over the receipts and  *)
(* the attempt in hand: whatever is made of an answer after it was paid,   *)
(* it is on record as long as the process lives and in the summary it      *)
(* ends with (run-stage-a.mjs:269-288, 312-326, 384).                      *)
SpentIsReceipted ==
  pc \notin {"thrown", "crashed"} => spent = Cardinality(ReceiptedUnits) + InHand

(* The receipts account for the run: no cell and no dollar is missing from *)
(* them or in them twice, up to the summary.  A process that throws or is  *)
(* killed after a payment has no summary, and of that the claim of         *)
(* run-stage-a.mjs:5 is false: see EveryAttemptHasReceipt.                 *)
ReceiptsAccount == ReceiptsFollowSchedule /\ SpentIsReceipted

(* "Every attempt produces a receipt whether it succeeds or fails"         *)
(* (run-stage-a.mjs:5): a run that ends by itself, and has paid for an     *)
(* attempt, leaves the summary in which the receipts are.                  *)
EveryAttemptHasReceipt ==
  pc \in {"summarized", "thrown"} /\ spent > 0 => summary # "none"

(* A success is a repair that its tests confirmed, whatever the operator   *)
(* did to the worktrees, the timers to the processes and the file system   *)
(* to the copies (run-stage-a.mjs:341).                                    *)
SuccessIsRepair ==
  /\ pc = "evaluating" /\ evaluator.pc = "done" /\ Succeeds(evaluator.code)
       => answer /\ workspace # "torn" /\ evaluator.suite = "passed"
  /\ \A i \in 1..Len(attempts) :
       attempts[i].task_success =>
         IF V2 THEN attempts[i].suite = "passed" /\ attempts[i].evaluator_outcome = "passed"
         ELSE attempts[i].status = "evaluated"

(* What is scored is a copy of the clean base commit, unless somebody      *)
(* worked on the worktree between the question for its status and the      *)
(* copy: otherwise no answer meets the tests that judge it                 *)
(* (run-stage-a.mjs:154-167).                                              *)
ScoredOnBase == pc = "evaluating" => workspace = "base" \/ disturbed

(* v2 blames or credits the model only for a suite whose process ended by  *)
(* itself and in time: not for one that could not be spawned, was killed   *)
(* by whomever, or kept the evaluator waiting (outcome.ts:85-126,          *)
(* 135-153).  It does blame it for a test runner that ran no test:         *)
(* TestsFailedRan says what outcome.ts:32 says of that.                    *)
AttributableIsEarned ==
  \A i \in 1..Len(attempts) :
    AttributableToModel(attempts[i].evaluator_outcome)
      => attempts[i].suite \in {"passed", "failed", "unran"}

(* "The injected regression test ran to completion and failed"             *)
(* (outcome.ts:32).                                                        *)
TestsFailedRan ==
  \A i \in 1..Len(attempts) :
    attempts[i].evaluator_outcome = "tests_failed" => attempts[i].suite = "failed"

(* Two tasks which one assisted arm repaired and whose baseline has a      *)
(* receipt without success.  A baseline that the budget refused is such a  *)
(* receipt too, but as the loop ends with it there is at most one: the     *)
(* other baseline was tried (run-stage-a.mjs:211-217, 356-367).            *)
Tried(task) ==
  \E i \in Receipts(task, Baseline) :
    ~attempts[i].task_success /\ attempts[i].status # "budget_refused"

RefusedLast(task) ==
  Len(attempts) \in Receipts(task, Baseline)
    /\ attempts[Len(attempts)].status = "budget_refused"

ContinuesOnEvidence ==
  summary = "continue_to_stage_b" =>
    \E arm \in Assisted : \E task, other \in Tasks :
      /\ task # other
      /\ \A t \in {task, other} : \E i \in Receipts(t, arm) : attempts[i].task_success
      /\ Tried(task)
      /\ Tried(other) \/ RefusedLast(other)

(* What counts for going on is a repair of one arm that its tests          *)
(* confirmed on a copy of the base, against baselines without success of   *)
(* which at most the last was not tried (run-stage-a.mjs:341-367).         *)
ContinuationRestsOnRepairs == SuccessIsRepair /\ ScoredOnBase /\ ContinuesOnEvidence

(* A v2 evaluator that leaves anything behind was killed by the runner or  *)
(* could not remove its copy: whatever the suite did, one that exits with  *)
(* a classification has waited for everybody on the suite's pipes and      *)
(* cleaned up, and what is left is never taken for a result                *)
(* (v2/evaluate.mjs:88-91, 166-168).                                       *)
ClassifiedCleansUp ==
  V2 /\ evaluator.pc = "done" /\ evaluator.leaves # {} =>
    /\ evaluator.code \in {NullCode, 1}
    /\ ~AttributableToModel(InterpretEvaluatorExit(evaluator.code))

(* The run comes to an end, also when a suite does not: the runner's timer *)
(* needs no cooperation of the evaluator (run-stage-a.mjs:54).             *)
StageAEnds == <>(pc \in Ended)
=============================================================================
