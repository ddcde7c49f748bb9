-------------------------- MODULE HeldoutEvaluator --------------------------
(***************************************************************************)
(* The held-out evaluator: a child process of the Stage A runner that      *)
(* copies the workspace, injects the corrected commit's tests and runs     *)
(* them in a child of its own (src/scripts/gate-h-heldout/evaluate.mjs and *)
(* its v2).  Two timers of the same length race: the runner's over the     *)
(* evaluator, and the evaluator's over the test suite, set later.          *)
(*                                                                         *)
(* Time is counted in ticks.  A timer fires no earlier than its time; how  *)
(* much later is up to the scheduler of either process.                    *)
(***************************************************************************)
EXTENDS Integers

CONSTANT Timeout   \* the 300_000 ms of both timers, in ticks

ASSUME TimeoutAssumption == Timeout \in Nat \ {0}

VARIABLE evaluator   \* the process, both timers, and its suite

NullCode == 256   \* the exit code null of a child that a signal ended

(* EVALUATOR_EXIT, and 1 for a process that ends in an uncaught error.     *)
(* -1 is what the runner reads when it could not spawn the evaluator.      *)
ExitCodes == {-1, 0, 1, 17, 18, 19, 72, 73, NullCode}

(* What became of the test runner's own process.  "unran" is an exit with  *)
(* a code that is not 0 before any test has run: npx --no-install without  *)
(* the runner, a python without pytest, dependencies half installed.       *)
SuiteEndings == {"passed", "failed", "unran", "signalled"}
Suites == {"none", "unspawnable", "running"} \cup SuiteEndings

(* timedOut is v2's flag.  leaves is history: what is still there once the *)
(* evaluator is gone, its scratch copy and processes of the suite that     *)
(* hold its pipes.                                                         *)
Evaluators ==
  [pc : {"none", "setup", "testing", "closing", "removing", "done"},
   left : 0..Timeout, suiteLeft : 0..Timeout, suite : Suites,
   timedOut : BOOLEAN, code : ExitCodes, leaves : SUBSET {"scratch", "suite"}]

NoEvaluator ==
  [pc |-> "none", left |-> 0, suiteLeft |-> 0, suite |-> "none",
   timedOut |-> FALSE, code |-> NullCode, leaves |-> {}]

(* The runner spawns the evaluator and sets its own timer.                 *)
Spawned == [NoEvaluator EXCEPT !.pc = "setup", !.left = Timeout]

Alive == evaluator.pc \in {"setup", "testing", "closing", "removing"}

(* The process is gone: what it was told of its suite, its exit code, and  *)
(* what it did not take with it.                                           *)
Exits(code, leaves) ==
  evaluator' = [NoEvaluator EXCEPT
    !.pc = "done", !.suite = evaluator.suite, !.timedOut = evaluator.timedOut,
    !.code = code, !.leaves = leaves]

(* v1's last line: what is not 0 and could be spawned is a test failure.   *)
ExitOfV1(suite) ==
  IF suite = "unspawnable" THEN 73 ELSE IF suite = "passed" THEN 0 ELSE 17

(* Seeded fault: the exit code is looked at before how the suite ended.    *)
ClassifyByCode(suite, timedOut) ==
  CASE suite = "unspawnable" -> 73
    [] suite = "passed" -> 0
    [] OTHER -> 17

(* classifyChildResult: the spawn, the timer and the signal are looked at  *)
(* before the exit code.                                                   *)
ClassifyChildResult(suite, timedOut) ==
  CASE suite = "unspawnable" -> 73
    [] suite # "unspawnable" /\ timedOut -> 18
    [] suite = "signalled" /\ ~timedOut -> 19
    [] suite = "passed" /\ ~timedOut -> 0
    [] OTHER -> 17

(* The evaluator cannot be spawned, or reading its control file or making  *)
(* the scratch directory fails, which no version catches.                  *)
NeverSetUp ==
  /\ evaluator.pc = "setup"
  /\ \E code \in {-1, 1} : Exits(code, {})

(* The copy or the injection fails: every version goes on to remove the    *)
(* copy.  v1 does not catch an error of the copy.                          *)
SetupFails(v2) ==
  /\ evaluator.pc = "setup"
  /\ \E code \in IF v2 THEN {72} ELSE {1, 72} :
       evaluator' = [evaluator EXCEPT !.pc = "removing", !.code = code]

(* The copy and the injection, which take time, then the spawn of the      *)
(* suite and the second timer.                                             *)
StartSuite ==
  /\ evaluator.pc = "setup"
  /\ evaluator.left < Timeout
  /\ evaluator' = [evaluator EXCEPT !.pc = "testing", !.suite = "running",
                                    !.suiteLeft = Timeout]

SuiteUnspawnable ==
  /\ evaluator.pc = "setup"
  /\ evaluator' = [evaluator EXCEPT !.pc = "closing", !.suite = "unspawnable"]

(* The test runner's process ends by itself or by a signal from elsewhere. *)
SuiteEnds(suite) ==
  /\ evaluator.pc = "testing"
  /\ evaluator' = [evaluator EXCEPT !.pc = "closing", !.suite = suite]

(* The evaluator's timer kills the suite's process, if it is still there,  *)
(* and in v2 sets a flag.                                                  *)
SuiteTimesOut(v2) ==
  /\ evaluator.pc \in {"testing", "closing"}
  /\ evaluator.suite # "unspawnable" /\ ~evaluator.timedOut
  /\ evaluator.suiteLeft = 0
  /\ evaluator' = [evaluator EXCEPT
       !.pc = "closing", !.timedOut = v2,
       !.suite = IF evaluator.pc = "testing" THEN "signalled" ELSE @]

(* Seeded fault: v2 leaves as v1 does, by process.exit inside its try.     *)
ClosesLeaking(v2) ==
  /\ evaluator.pc = "closing"
  /\ Exits(IF v2 THEN ClassifyChildResult(evaluator.suite, evaluator.timedOut)
                 ELSE ExitOfV1(evaluator.suite),
           {"scratch"})

(* Nobody holds the pipes of the suite any more, which may be never.  v1   *)
(* leaves by process.exit inside its try, so the finally that removes the  *)
(* scratch copy does not run.                                              *)
Closes(v2) ==
  /\ evaluator.pc = "closing"
  /\ IF v2
     THEN evaluator' = [evaluator EXCEPT
            !.pc = "removing",
            !.code = ClassifyChildResult(evaluator.suite, evaluator.timedOut)]
     ELSE Exits(ExitOfV1(evaluator.suite), {"scratch"})

Removes ==
  /\ evaluator.pc = "removing"
  /\ Exits(evaluator.code, {})

(* rm rejects out of the finally.                                          *)
RemovalFails ==
  /\ evaluator.pc = "removing"
  /\ Exits(1, {"scratch"})

(* What the runner's kill leaves: no finally runs, and the suite is a      *)
(* grandchild, which runs on.                                              *)
Orphans ==
  CASE evaluator.pc = "testing" -> {{"scratch", "suite"}}
    [] evaluator.pc = "closing" -> {{"scratch", "suite"}, {"scratch"}}
    [] OTHER -> {{"scratch"}, {}}

(* Seeded fault: no timer runs while the evaluator sets up.                *)
EvaluatorTimesOutTesting ==
  /\ Alive /\ evaluator.pc # "setup"
  /\ evaluator.left = 0
  /\ \E leaves \in Orphans : Exits(NullCode, leaves)

EvaluatorTimesOut ==
  /\ Alive
  /\ evaluator.left = 0
  /\ \E leaves \in Orphans : Exits(NullCode, leaves)

Earlier(left) == IF left = 0 THEN 0 ELSE left - 1

Tick ==
  /\ Alive
  /\ evaluator.left > 0 \/ evaluator.suiteLeft > 0
  /\ evaluator' = [evaluator EXCEPT !.left = Earlier(@), !.suiteLeft = Earlier(@)]

(* interpretEvaluatorExit, on the runner's side.                           *)
InterpretEvaluatorExit(code) ==
  CASE code = 0 -> "passed"
    [] code = 17 -> "tests_failed"
    [] code = 18 -> "timed_out"
    [] code = 19 -> "killed"
    [] OTHER -> "runner_unavailable"

AttributableToModel(outcome) == outcome \in {"passed", "tests_failed"}
=============================================================================
