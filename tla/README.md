# Verification of Oh My Luna

This directory holds TLA+ models of Oh My Luna, the TLC configurations that check
them on small instances, and proofs of their main theorems for the TLA+ proof
system. Paths are relative to the repository; `broker.ts:174` means line 174 of
`src/runtime/broker.ts`, and so on for each file named once in full.

- [The system](#the-system): its parts and how they interact
- [Inventory](#inventory): state, operations, hard behaviours and correctness of each part
- [Modules](#modules): which module models what, and how
- [Runs](#runs): what TLC checks, with which bounds and fairness
- [Proofs](#proofs): what is proved, from what, by which argument
- [Divergences](#divergences): where the code and its documents disagree
- [Not modelled](#not-modelled)
- [Plan](#plan)

## The system

Oh My Luna asks a language model to repair a defect, lets the answer touch a
workspace under a policy, has a verifier judge the outcome, and records
everything so that somebody else can check the judgement later. Its parts call
each other as follows.

    cli.ts ── runner.ts ──┬── model-adapter.ts ── process.ts ── the adapter process
                          ├── environment.ts            (writes the proposed files)
                          ├── scoring.ts ── process.ts ── the verifier process
                          ├── trace.ts                  (hash-chained events.jsonl)
                          └── artifacts.ts, receipt.json

    runtime-cli.ts ── runtime/run-store.ts ──┬── runtime/state.ts     (durable files)
                                             └── runtime/evidence.ts  (tree hash, claims)
    runtime/broker.ts ──┬── environment.ts
                        └── process.ts

    providers/openai-responses.ts ──┬── providers/budget.ts
                                    └── a transport (the provider's SDK)

    scripts/gate-h-heldout/run-stage-a.mjs ──┬── providers/budget.ts, openai-transport.ts
                                             └── evaluate.mjs ── the project's test suite
    scripts/gate-h-heldout/v2/…              the same with a hardened evaluator
    scripts/gate-m/provision-sources.mjs ── git, npm, tar ── .oml-cache/ ── the worktrees
                                                             the evaluators copy
    scripts/gate-h/live-smoke.mjs ── live-gate.ts, budget.ts, openai-cost.ts, openai-transport.ts
    scripts/gate-m/*freeze*, gate-h-heldout/freeze.mjs   hash what a study depends on
    scripts/gate-h-heldout/check-sufficiency.mjs ── heldout/prompt.ts, sufficiency.ts, stubs.ts

    context/compile.ts                       a bounded context out of ranked documents
    scripts/probes/context.mjs ── probes/context-degradation.ts, policy-ab.ts ── context/compile.ts
    scripts/probes/gate-globmatch.mjs ── probes/gate.ts ──┬── growth.ts
                                                          ├── verification-honesty.ts
                                                          └── skill-compliance.ts

There are no threads. Concurrency comes from three places: several calls in
flight in one event loop, which share an object and interleave at each `await`
(broker, budget guard, run store); child processes, their pipes, timers and
signals (process runner, evaluators); and separate programs that share
directories (verify-run beside an editor, the Stage A runner beside the scripts
that provision and validate the same worktrees, a freeze beside the authors of
what it hashes). What persists is files, and a
process may die between any two system calls.

## Inventory

### Modelled, or modelled in part

**Budget guard** (`src/providers/budget.ts`). *State:* requests issued, dollars
spent, dollars reserved. *Operations:* `reserve`, which refuses over three
limits; `settle`. *Hard:* one running sum stands for every estimate in flight.
*Correct when* the sum is what is outstanding on every exit of its callers, and
the cap holds up to the provider's overrun. → `BudgetGuard`, `SpendLedger`

**OpenAI adapter** (`src/providers/openai-responses.ts`). *State:* the guard, the
request records, the locals of each `invoke`. *Operations:* `invoke` with its
retry loop. *Hard:* concurrent invocations; an attempt charged for whose answer
is lost; an answer that is paid for and does not parse. *Correct when* every
dollar the guard counts is in a record, and no exit leaks a reservation.
→ `OpenAiAdapter`

**OpenAI transport** (`src/providers/openai-transport.ts`), **cost and pricing**
(`src/providers/openai-cost.ts`) and the **live call**
(`scripts/gate-h/live-smoke.mjs`, `src/providers/live-gate.ts`). *State:* one
reservation, one receipt. *Operations:* an estimate, one submission, a table from
errors to `{retryable, billing_status}` that depends on the order of its
`instanceof` tests, a reconstruction of the cost. *Hard:* whether a lost request
was charged is not to be seen; the subclasses of errors are also their
superclasses; a report may leave classes of tokens out, and an answer its id; the
script may be killed between the answer and its receipt. *Correct when* a receipt
never says less than what was charged without saying that it may, and calls
retryable only what the provider has not received. → `LiveCall`

**Runtime broker** (`src/runtime/broker.ts`, `src/environment.ts`). *State:* the
budget ledger. *Operations:* `applyWrite`, `exec`, `chargeRetry`. *Hard:* write
budgets are checked before an await and charged after it; a failing write may
leave a truncated file. *Correct when* the command budget is exact, the write
budgets are passed by no more than the concurrency explains, and the ledger
counts what landed. → `RuntimeBroker`

**Durable state files** (`src/runtime/state.ts`). *State:* the target, the temp
file whose name is a hash of target and body. *Operations:* `writeStateFile`,
`readStateFile`. *Hard:* crashes between open, write and rename, temp files left
over, two writers of one body. *Correct when* a reader sees a whole body and
never a torn one. → `StateFile`, refining `AtomicFile`

**Evidence VM** (`src/runtime/evidence.ts`). *Operations:* `hashWorkspaceTree`,
capture, `evaluateClaim`. *Hard:* the tree may change while it is hashed; the
order of the questions decides between failed, stale, weak and supported; a null
exit status. → `EvidenceVM`, `RunStore`

**Run store and verify-run** (`src/runtime/run-store.ts`, `src/runtime-cli.ts`).
*State:* `manifest.json`, `evidence.json`, `claims.json`, `evaluations.json`.
*Operations:* four writes one after the other; `reverifyRun`, four reads, a tree
hash, an exit code. *Hard:* a recording cut short or repeated, a workspace edited
meanwhile. *Correct when* exit code 0 speaks of the files as they are, is backed
by evidence, and a cut-short recording is an error. → `RunStore`

**Process runner** (`src/process.ts`). *State:* a child, its pipes, a timer, an
abort listener, and whether the promise has settled. *Hard:* exit, close, output
limit, deadline and abort race; a descendant may hold the pipes. *Correct when*
a result is the child's own and whole, a rejection says what happened, and
nothing that can still act outlives the call. → `ProcessRun`, refining
`ProcessCall`

**Run trace** (`src/trace.ts`) and **evaluation runner** (`src/runner.ts`,
`src/model-adapter.ts`, `src/scoring.ts`, `src/artifacts.ts`). *State:* the
receipt under construction, the trace, the workspace. *Operations:* one `try`
block of a dozen awaits, its `catch`, and the receipt. *Hard:* any await may
throw after usage, billing, files and verdict were partly recorded; abort where
no process runs; an append that wrote half a line. *Correct when* a receipt has a
whole trace and `completed` is earned. → `TraceChain`, `RunnerEvaluation`

**Preparation of a run** (`src/runner.ts:42-95`) and **interventions**
(`src/interventions.ts`, `src/intervention-drafts.ts`). *State:* four files, read
one after the other; a packet and a review record that name each other by hash.
*Hard:* authors, reviewers and whoever freezes the experiment change the files
meanwhile, in any order; a signature stays on a record that is brought to another
content. *Correct when* a run is given the content of one bound record with enough
independent approvals on it, and under a freeze what was frozen. → `RunPreparation`

**Freezes of the studies** (`scripts/gate-h-heldout/freeze.mjs`,
`scripts/gate-m/freeze*.mjs`, `src/gate-m-freeze.ts`, `src/freezes.ts`). *State:* an identity document:
artifact hashes, copied fields, an aggregate, a seal. *Operations:* freeze, verify,
seal, and the runner that relies on them. *Hard:* four scripts of one pattern that
cover different things; edits between hashing, verifying and use. *Correct when* a
verdict is true of the files it was given over. → `StudyFreeze`

**Stage A** (`scripts/gate-h-heldout/run-stage-a.mjs`, `v2/run-stage-a.mjs`),
**held-out evaluator** (`evaluate.mjs`, `v2/evaluate.mjs`,
`src/heldout/outcome.ts`) and **corpus validation** (`validate-candidates.mjs`).
*State:* the guard, the receipts in memory, the scratch copy, the base worktrees,
the evaluator child and its suite. *Hard:* every attempt has half a dozen early exits, and as many throws that
nothing catches, after money was spent; two equal timers over nested processes; a
suite whose descendants hold its pipes, or which runs no test; a removal that may
fail or be cut short; worktrees shared with other scripts. *Correct when* each
executed cell has its receipt, spending is receipted, what is scored is a copy of
the base, a success is a repair its tests confirmed, and the continuation rule
rests on such repairs. → `StageA`, `HeldoutEvaluator`

**Context compiler** (`src/context/compile.ts`, `src/heldout/tokens.ts`). A pure
loop. *Hard:* it adds rounded estimates of the parts and never measures the text
it emits; cuts, oversized and repeated documents; the edge-loaded layout.
*Correct when* the text is within the budget, each document comes back once, and
nothing small is promoted over something relevant. → `ContextCompile`

**Long-context probes** (`src/probes/context-degradation.ts`, `policy-ab.ts`,
`scripts/probes/context.mjs`). *Operations:* a self-check on six responders of
known behaviour, a measurement, a sweep of every policy over the compiler. *Hard:*
the instrument must tell its own controls apart whatever filler it drew; depths
and line numbers are rounded twice. *Correct when* the self-check is passed only
with a live axis, and the policy it recommends helps. → `ContextProbes`

**Acceptance gate** (`src/probes/gate.ts`, `growth.ts`, `verification-honesty.ts`,
`skill-compliance.ts`, `scripts/probes/gate-globmatch.mjs`). *Operations:* a series
of timings fitted with a line, a command run on mutated copies, a document
searched for headings; verdicts and exit code. *Hard:* noise, floors and budgets
cut the series; a command may rewrite its own inputs, and it or the reference may
end without an exit code; some errors become findings and others leave the gate;
three sources of verdicts are combined. *Correct when* what passes deserves it and what is accused has done
it. → `AcceptanceGate`

**Change sets** (`src/heldout/changeset.ts`, the writing loop of
`v2/run-stage-a.mjs`). *Hard:* paths that are normalized, workspaces with links,
some to what is not there, writes that stop half-way. *Correct when* nothing changes
but what was permitted.
→ `ChangeSet`

**Diff** (`src/heldout/diff.ts`). Myers' greedy algorithm with trimmed ends and a
cap, and hunks. *Correct when* its counts are those of a smallest edit script.
→ `HeldoutDiff`

**Prompt, stubs, sufficiency** (`src/heldout/prompt.ts`, `stubs.ts`,
`sufficiency.ts`, `check-sufficiency.mjs`). *Hard:* texts that contain
placeholders and markers; five sampled lines stand for a file. *Correct when* a
gate that passes means that the dry run will find every file.
→ `HeldoutSufficiency`

**Source provisioning** (`scripts/gate-m/provision-sources.mjs`,
`scripts/gate-h-heldout/provision.mjs`). *State:* `.oml-cache/`: bare clones,
worktrees, `node_modules`, a compiler, the receipt. *Hard:* every step is a child
process that may fail or be killed and leaves something; the next run must tell
what to reuse. *Correct when* a green exit means verified, and a second run on an
undisturbed cache reuses it. → `Provision`

**Command lines** (`src/cli.ts`, `src/runtime-cli.ts`): only the exit code of
verify-run and the conversion of errors matter here, and are part of the modules
named. **Types and policy** (`src/runtime/types.ts`, `src/schema.ts`,
`src/types.ts`): the record shapes are the records of the models.

### Not modelled

| Part | What it is | Why |
| --- | --- | --- |
| Readiness commands (`src/runtime/readiness.ts`) | doctor, sufficiency and smoke collect independent checks in a list | each check stands alone; the rest words it |
| Repository ranker (`src/repository-ranker.ts`) | scores of files | `ContextCompile` takes every assignment of scores as input |
| Task selection, schedule generator, leak scan of datasets (`src/freezes.ts:65-130`, `src/schedule.ts`, `src/leakage.ts`) | one pass over a committed file | a list of independent rejections; no state, no order |
| Price page parser, decimal arithmetic (`src/pricing-evidence.ts`, `src/cost.ts`) | text to numbers | `LiveCall` takes the prices as they come out |
| Corpus construction, forecast, remaining probe drivers (`scripts/`) | one-shot transformations of committed files, tables | run by a person and reviewed by their output |
| Lifecycle table (`src/runtime/state.ts`), `inspectRun`, `rollUp` | pure functions | no code in `src/` calls the first; the others read what `RunStore` reads |

## Modules

Each module's variables are named for the code's; a comment before each action
says what stretch of code it is. A step is what runs between two awaits, or one
system call where another process can see the difference.

| Module | Models | State ↔ code | Actions |
| --- | --- | --- | --- |
| `BudgetGuard` | `BudgetGuard` | `requests`, `spent`, `reserved` ↔ `#requests`, `#spent`, `#reserved` | `Reserve`, `Settle`, used by the actions of its callers |
| `SpendLedger` | what a cap promises (abstract) | a table of what each client holds, money gone | `Grant`, `Close` |
| `OpenAiAdapter` | `invoke`, several at once | `invocation[c]` ↔ the locals of one `invoke`; `recorded` ↔ the sum over `#records` | `Invoke`, `Refuse`, `Charge` (the provider), `Respond`, `Retry`, `GiveUp` |
| `RuntimeBroker` | `Broker`, several calls at once | `ledger` ↔ `#ledger`; `op[c]` ↔ a call at its await; `disk`; history `landed`, `spawned` | `BeginWrite`, `LandFile`, `FailWrite`, `CommitWrite`, `Exec`, `ExecReturns`, `ChargeRetry` |
| `AtomicFile` | a register (abstract) | `value`, what each writer is about to put, what each reader will return | `Begin`, `Commit`, `Abandon`, `Sample`, `Return` |
| `StateFile` | `writeStateFile`, `readStateFile` | names `temp`, `target` bound to inodes, `content` of inodes, descriptors of writers and readers | `Open`, `Write`, `Rename`, `Crash`, `OpenRead`, `FinishRead` |
| `EvidenceVM` | `evaluateClaim` | none: operators over evidence records and a tree | |
| `RunStore` | a recorder, a verify-run, an editor | `tree`, `disk` (four files), `rec`, `ver`, `scan` (a tree hash half-way); history `met` | `Edit`; `StartScan`, `RecorderScans`, `Capture`, `Evaluate`, four writes, `Crash`, `RecordAgain`; `VerifyRun`, four reads, `VerifierLists`, `VerifierScans`, `Conclude` |
| `ProcessCall` | what a call promises (abstract) | one outcome, set once | |
| `ProcessRun` | `runProcess` | `child`, `descendant`, `bytes`, `kept`, `timer`, `listening`, `call`; history `killed` | handlers `Data`, `SpawnError`, `Timeout`, `Abort`, `Close`; the operating system's `Dies`, `KillLands`, `Forks`, `DescendantChanges` |
| `TraceChain` | `append`, `verifyTrace` | lines with a sequence number and the line they chain to | operators, used by `RunnerEvaluation` |
| `RunnerEvaluation` | `runEvaluation` from `run.started` to the receipt | `run` ↔ the receipt under construction, `trace`, `files` and `written`, `receipt`, `pc` ↔ the await reached | one per await and outcome, `Abort`, `Crash` |
| `HeldoutEvaluator` | both evaluators as a child of Stage A | `evaluator`: phase, both timers, suite, the flag of v2's timer, exit code; history `leaves`, what is still there when it is gone | `NeverSetUp`, `SetupFails`, `StartSuite`, `SuiteUnspawnable`, `SuiteEnds`, `SuiteTimesOut`, `Closes`, `Removes`, `RemovalFails`, `EvaluatorTimesOut`, `Tick`; `ClassifyChildResult`, `InterpretEvaluatorExit` |
| `StageA` | both Stage A runners; extends `BudgetGuard` and `HeldoutEvaluator` | `cell`, `est`, `cost`, `answer`, `workspace`, `attempts`, `summary`, and the `worktree` of each task; history `disturbed` and, in v2's receipts, what the suite did | one per exit of an attempt, `BeginFails` and `BodyFails` for what is thrown before and inside the `try`, `Summarize`, `SummaryFails`, `Crash`; the operator's `InjectTests`, `RemoveModified`, `AddWorktree` |
| `ContextCompile` | `compileContext` | the locals of the loop | `Rank`, one action per branch of the fill, `Emit` |
| `Provision` | both provisioning scripts | `cache` ↔ `.oml-cache/`, `proc` ↔ the running script, `genuine` ↔ which archives match their pinned hash | `Start`, one or two per step, `Kill`, `Disturb` |
| `RunPreparation` | `runEvaluation` before the workspace exists | `fixture`, `packet`, `review`, `freeze` ↔ the files; `prep` ↔ what was read and the options; history `snapshots`, `bound`, `shown` (who signed while shown the content), `carried` (whose signature was brought to another) | `BeginPreparation`, one read per file, `Judge`, `Reject`; the owners' `Revise`, `Sign`, `Dispute`, `Record`, `Bind`, `EditFixture`, `FreezeExperiment` |
| `StudyFreeze` | the four freeze scripts and the runner that verifies one of them | `disk`, `settings` (the script's own constants), `doc`; `script` ↔ what the running script has hashed so far; history `touched`, `uses` | `Start`, `HashOne`, `WriteFreeze`, `LoadDocument`, `CheckOne`, `Verify`, `Seal`; the runner's `OpenRun`, `ReadInput`, `EndRun`; edits of files, constants and document |
| `LiveCall` | `live-smoke.mjs` with the gate, the transport's table and the cost | the guard, `liveReceipt`, `onDisk`; the provider's `event`, `metered`, `reported`, `identified` | `CheckLiveAuthorization`, `ReserveCall`, `RequestFails`, `RequestAnswered`, `RecordAnswer`, `RecordFailure`, `WriteLiveReceipt`, `KillCall` |
| `ContextProbes` | the degradation probe and the policy sweep; extends `ContextCompile` | `filler` (what the seeds drew), `shapes`, `subject`, `reaches` | `RunControl`, `EndSelfCheck`, `Measure`, `SweepNeedleRank` |
| `AcceptanceGate` | the gate with its three checks, and the script that calls it per arm | `samples`, `outcomes`, `findings`; `work` ↔ what is true of the deliverable, which the gate never reads; history `upset` | `GrowthRefused`, `TimeSize`, `GrowthFinding`, `Undeclared`, `Baseline`, `Mutate`, `HonestyFinding`, `HonestyThrows`, `ComplianceFinding`, `BeginGate`, `EndGate`, `GateRejects` (what is thrown out of the gate) |
| `HeldoutDiff` | `diffReturnedFile` | `base`, `returned`, `editCap`, `script` | `DiffReturnedFile` |
| `ChangeSet` | `validateChangeSet`, `assertContainedTarget`, the writing loop | `tree`, `links`, `verdict`, `writing` | `Validate`, `WriteFile`, `WriteFails` |
| `HeldoutSufficiency` | prompt, probes, gates, exit codes, the noop stub | the rows of the three checks, `sufExit`, `dryRun` | `MeasureTask`, `Report`, `DryRunAttempt` |

`MC*` modules give the constants of a run; `*Proofs` modules hold the theorems.
Operators marked "Seeded fault" belong to no specification: each is a definition
altered the way a plausible bug would alter it, kept beside the one it alters,
and each property of a run below is violated when the fault it was written for
replaces the definition. They show that the property depends on the code.

Compositions: `OpenAiAdapter`, `StageA` and `LiveCall` extend `BudgetGuard`;
`StageA` composes it with `HeldoutEvaluator` in one process tree; `RunStore` uses
`EvidenceVM`; `RunnerEvaluation` uses `TraceChain` and takes its child processes
at the level of `ProcessCall`, which `ProcessRun` is shown to implement;
`ContextProbes` runs the operators of `ContextCompile`.

Parts that share no state while they run, because one takes as input what another
has left behind, are explored by one run each in `MCRuntime` (broker, process,
state file, adapter), `MCExperiment` (runner, preparation, freeze, provisioning,
live call) and `MCProbes` (compiler, probe,
gate, diff, change set, sufficiency): a variable `part` says which one moves, and
the others rest in one initial state.

## Runs

`PROJECT.json` lists the runs with their configurations and, for each property of
a passing run, the fault that violates it. Five runs hold; seven show a document
at odds with the code. None uses a state constraint; all bounds are constants.
Deadlock is not checked: the modelled programs do end, or a bound of the model
(edits, recordings, runs) is used up. That what should go on does is stated by the
liveness properties.

| Run | Instance | Shows |
| --- | --- | --- |
| `runtime`, adapter | 2 callers, 3 requests, 1 retry, total cap 4, request cap 2, costs up to 1 over the estimate | `ReservedIsOutstanding`: the one running sum is the sum of the outstanding estimates on every path. `CommittedWithinCap`: spent plus reserved passes the cap by at most one overrun per settled caller. `SpendIsRecorded`: every dollar spent is in a record. `ImplementsLedger` |
| `runtime`, broker | 3 callers; paths that are fine, linked, outside, and not writable; 2 files, 3 bytes, 2 commands, 1 retry | `BudgetsHold`: the command budget is exact, and file and byte budgets, checked before an await, are passed by no more than the concurrency explains. `LedgerCountsLanded`: a failed write is not charged, a landed one is |
| `runtime`, process | output limit 2, chunks of 1 and 2, at most 4 bytes | `SettledIsClean`: a result is the child's own and whole, a rejection is true, nothing that can still act outlives the call. `CallReturns` (unless a descendant holds the pipes), `ImplementsCall` |
| `runtime`, state file | 2 writers of different bodies, 1 reader, 4 inodes, crashes anywhere | `WritesReturn`, and `ImplementsRegister`: the file is one atomic register, so that no read is torn |
| `verify_run` | 2 files with 2 contents, 4 kinds of outcome, 1 claim, 1 edit at any moment, 2 recordings that may be cut short | `GreenIsFresh`: exit 0 speaks of contents met during this very run. `GreenIsSupported`. `UnchangedTreeReproduces`: a regression always has a cause. `VerifyReturns` |
| `stage_a` | 2 tasks × 2 arms, the assisted cells before their baselines; v1 live over all four cells, v1 with a stub over three, v2 with a stub over two; total cap 3, estimates 1, costs 0 and 1, timeout 1; every await may throw, a kill anywhere, the operator at work on both worktrees | `ReceiptsAccount`: while the process lives, each executed cell has one receipt and what was spent is the sum of theirs and of the attempt in hand. `ContinuationRestsOnRepairs`: successes are repairs their tests confirmed, over a copy of the base unless somebody worked on the worktree between the check and the copy; going on rests on two of one arm, against baselines tried without success but for at most one, the last, which the budget refused. `AttributableIsEarned`: what v2 attributes to the model is a suite that ended by itself and in time. `ClassifiedCleansUp`: a v2 evaluator that leaves anything was killed or could not remove it, and is not taken for a result. `StageAEnds` |
| `experiment`, runner | responses with no file, one file, one file and a refused one; every await fails, a crash anywhere | `ReceiptHasWholeTrace`, `CompletedIsEarned`, `CancelledNeverCompletes` |
| `experiment`, preparation | 5 packet contents (proper, another wording, another level, a part too many, leaking), 2 arms, an author and a reviewer, who is enough; 3 changes to the files before a preparation begins, or 2 with those beside one | `PreparedIsFrozen`: a run under a freeze has what one freeze was taken of. `AssistanceIsReviewed`: what assists is the content of one bound record, with enough approvals of others than its author and no open disagreement; each approval was given to this content or is known to have been carried to it |
| `experiment`, freeze | the four kinds of freeze, 3 files, 2 edits, 3 runs of scripts | `VerdictIsTrue`: a verdict given over a tree nobody edited is true both ways. `AttemptsOnFrozen`: what an attempt reads is what was verified, unless it was edited since |
| `experiment`, provisioning | 1 repository, 2 commits, one with a worktree and dependencies; 3 runs, each with or without a network, failing or killed anywhere; 2 disturbances of the cache | `GreenIsVerified`, `GreenIsReused` |
| `experiment`, live call | a prompt taken for 1 to 3 tokens, every usage up to 3, 1, 1 and 2 tokens of a class, reports that lack any of the classes, answers with and without an id, threshold 2, every failure, a kill anywhere | `LiveReceiptIsTrue`: charged and not said so only for a broken connection or a failing server; a reconstructed cost is not below the bill; valid means an id and both counts; the limit held; a charged request without a receipt was killed or refused by the disk |
| `probes`, compiler | every input of up to 3 documents over 3 paths, 2 scores and sizes of 7, 12 and 26 tokens, header 12, budgets 5, 20, 40, reserves 0 and 8, pins none or one, three policies | `WithinBudget`, `EveryDocumentOnce`, `NothingPromoted` |
| `probes`, probe | a self-check of 2 sizes and a measurement of 3 at 5 depths, fillers as short and as long as seeds make them, with and without decoys; corpora of 1 to 24 documents | `SelfCheckIsLive`: it passes exactly when every size has decoys. `RecommendationHelps`: the advised policy never reaches less deep, and deeper where there is something to reach |
| `probes`, gate | 2 arms over deliverables that differ from a good one in entry, cost, commands, defects caught, or notes; 3 repeats with a pause in one; command and reference may each end without an exit code | `GateIsEarned`: what passes is bounded, and catches what a real checker catches but for defects on which its command was cut short. `NoFalseAccusation`: sound work passes unless upset; an accusation is true, or rests on a reference that gave no answer |
| `probes`, diff | every pair of files of up to 3 lines over 3 lines, caps 2 and 9 | `DiffIsMinimal` |
| `probes`, change set | replies of up to 2 entries out of 15, with paths that normalize, climb, cross a link; sets of links, with some to what is not there; writes that fail half way | `ContainedWrites`: nothing there is outside the workspace changes, nothing is added outside but where a link of the workspace leads, and no file changes but the permitted ones |
| `probes`, sufficiency | corpora of up to 2 tasks, texts with placeholders and markers, 3 templates | `SufficiencyVerdictIsTrue`: when the gates pass the dry run finds every file, and a gate fails for its reason |
| `state_file_torn` | the state file with one body for both writers, 5 inodes | violates `TargetNeverTorn` |
| `every_attempt_has_receipt` | the instance of `stage_a` | violates `EveryAttemptHasReceipt` |
| `tests_failed_ran` | the instance of `stage_a` | violates `TestsFailedRan` |
| `ambiguous_not_retryable` | the instance of `experiment` | violates `AmbiguousIsNotRetryable` |
| `provision_whole` | provisioning with 1 disturbance | violates `GreenIsWhole` |
| `gate_rewriting` | the probes' instance | violates `RewritingPoisonsNothing` |
| `diff_hunks` | the probes' instance | violates `HunksNameRemovedLines` |

### Why the bounds are enough

The bounds are chosen so that the first interesting case and the one after it
both happen, and no further.

- *adapter*: two callers are what it takes for one reservation to hide another;
  cap 4 with requests of 1 and 2 is met exactly, missed by one and passed by the
  overrun; three requests exhaust `max_requests` with both callers active.
- *broker*: with two files and three callers all three are admitted at once, the
  overshoot the bound allows; sizes 0, 2 and 4 fit repeatedly, fit once, never.
- *state files*: a writer can crash with its temp file open, be retried over the
  leftover, and have the other writer rename in between. Four inodes are one more
  than two temp files and a target; an unreferenced inode is reused.
- *verify-run*: two files are what makes a hash of a tree that never was; two
  recordings are what lets one be read half old and half new; one edit suffices,
  since each property compares one change with one reading.
- *process*: the limit is met exactly, passed by one and passed by two.
- *Stage A*: two tasks are what the continuation rule asks for; the limits stop
  before, inside and after the baseline cells, and only v1 live goes over all four.
  With a cap of 3 the budget refuses the fourth request or none. The guard is
  exercised with several estimates and with costs over them in `runtime`; here one
  estimate and no overrun keep four cells, three modes and the nested processes
  within reach, and the proofs cover any. Timeout 1 lets the two timers fire in both
  orders.
- *context*: sizes that fit beside others, fit alone but not with the header, and
  do not fit at all, for each of the budgets.
- *preparation*: three changes are a revision, the record brought to it and their
  binding; two beside a running preparation are a change and its binding, between
  any two of its reads. The options say whether a freeze and pinned hashes were given.
- *freezes*: two edits are a file and its document, or a file changed and changed
  back; three scripts freeze, seal and verify, or freeze twice and verify.
  The two versions of a file are interchangeable, so the tree begins with one of them.
- *live call*: usage lies on both sides of the tier's threshold and of the estimate.
- *probe*: fillers at the two ends of what the generator produces, where a rounded
  depth falls on another line.
- *gate*: costs that are flat, linear, 3/2, quadratic and steeper, above and below
  the floor and the budget, at the five sizes of the script; a pause slows one timing
  of each size; two defects are what a partial verdict needs, and each of the three
  runs of a command has its own outcome.
- *change set*: two entries are what a refusal after a write needs; links lead to a
  directory, to a file, out of the workspace, and to nothing inside and outside.
- *diff*: three lines are what an insertion joined with a deletion needs, and every
  shape of an edit script that trimming can go wrong on.
- *sufficiency*: two tasks, so that one may lend its text to the other's prompt; a
  file of seven lines is sampled at five.
- *provision*: three runs are a failed one, one that reuses what it left, and one
  that reuses what that one left.

### Fairness

Safety needs none. Liveness is checked under these assumptions only:

- `StateFile`: `WF` of each writer's `Write ∨ Rename` and each reader's
  `FinishRead`: a system call that was issued returns. Nobody has to start one,
  and a crash may pre-empt any.
- `RunStore`: `WF` of the verifier: one process that reads four files and a finite
  tree, with nobody to wait for. Neither recorder nor editor is obliged to move.
- `ProcessRun`: `WF` of `SpawnError`, `Timeout`, `KillLands` and `Close`: the event
  loop delivers due events, a timer fires, SIGKILL works. Nothing promises that a
  child ends by itself or that a descendant lets go of the pipes, which is why
  `CallReturns` has that exception.
- `StageA`: `WF` of the loop (every await settles: the request has a timeout, git
  and the file system answer), and of the two timers. The suite need not end, the
  operator need not act.

## Proofs

Eight modules hold theorems. All constants are arbitrary under the assumptions
named in the modules (limits that are natural numbers, finite sets of callers,
caps in the order the constructor insists on); TLC evaluates the assumptions in
the runs. Each proof of an invariant follows the same plan: an inductive
strengthening, one lemma that `Init` establishes it, one per action or group of
actions that it is preserved, and a last step in temporal logic.

| Module | Theorems | Inductive invariant, and why it is needed |
| --- | --- | --- |
| `OpenAiAdapterProofs` | `TypeCorrect`, `ReservationsBalance`, `CapHolds`, `SpendingIsRecorded`, `AdapterImplementsLedger`, `ReceiptsAreTrue` | types, `est ≤ MaxRequest`, `cost ≤ est + Overrun`, and the balance: releasing an estimate takes exactly its units out of the sum only because the sum is known to contain them, so `Math.max(0, …)` never bites. The refinement maps the table of the ledger to the callers' estimates. `LiveInv`, of the one paid request, says at each step what the limits have let through and what the receipt tells of the classes of tokens and the id that were reported, wherever a kill falls; the price of tokens is monotone in tokens and rates, for any rates |
| `RuntimeBrokerProofs`, of `RuntimeBroker` | `TypeCorrect`, `CommandsNeverExceedBudget`, `FileOvershoot`, `ByteOvershoot`, `NoBudgetPassed`, `LedgerMatchesDisk` | the file bound is inductive as it stands: an admission adds a writer when the ledger is below the budget and at most all others write. Bytes need the bound on each pending write as well. `LedgerMatchesDisk` counts the callers between landing and commit |
| `DurableStateProofs`, of `StateFile` | `TypeCorrect`, `ReadsWhole`, `RenameSucceeds`, `StateFileIsRegister` | under `Disjoint` (no two writers have a body in common): temp names and target are distinct inodes, a writer owns the inode of its temp name while it writes, and the target's inode is complete. Without ownership a rename may move another writer's half-written file, as `state_file_torn` shows |
| `DurableStateProofs`, of `Provision` | `ProvisionTypeCorrect`, `GreenRunsAreVerified`, `GreenRunsAreReused` | for any tables of repositories and commits. `Progress`: each step of the plan behind the script still holds, because no step undoes an earlier one (`NothingUndone`, proved of both plans by induction over the tables). `Explained`: what is half-filled is what the child is at, or something has been cut short. The plan has every step a green run vouches for and ends with the receipt (`PlanSound`) |
| `InductionLemmas` | no theorem: the lemmas on induction, iteration and flattened sequences the others cite | |
| `RuntimeBrokerProofs`, of `ProcessRun` | `ProcessTypeCorrect`, `ResultsUndisturbed`, `SettledLeavesNothing`, `RejectionsTrue`, `SettledClean`, `ProcessRunIsCall` | `OutputWhole` (nothing is dropped short of the limit), `KillsExplained` (while the call is open only the timer or an abort has killed), `ClosedCalls` (what is known of a call that `close` settled), `CallFollowsChild` (a closed child has a settled call) |
| `RunnerEvaluationProofs` | `TypeCorrect`, `CancelledNotCompleted`, `UnbilledNotApplied`, `ReceiptsHaveWholeTraces`, `CompletedRunsAreEarned`, `RunsAreFrozen`, `AssistanceReviewed` | `IInv` ties the status under construction to where the `try` block is and to the abort. `TInv` types the trace, torn lines included: its counter never passes the number of its lines. `EInv` says which prefix of the story of events the trace holds at each await of the `try`. `PInv` for the preparation: a packet, on the disk or in hand, names a whole record that was bound at some time; who signed such a record was shown its content or had the signature carried to it; a freeze is of one snapshot; past the judgement what is in hand satisfies the bindings |
| `RunnerEvaluationProofs`, of `HeldoutSufficiency` | `SufficiencyIsTrue` | for any corpora, templates, arms, limits and `--only`. `SufInv`: the rows are those of the tasks measured so far, the exit code is what the rows say, the dry run is what the stub makes of the prompts. The step from rows to answers is about prompts: a prompt is whole (`WholeBlocks`) when every opener of a file is followed by that file and its closer, which the single pass of `FillTemplate` gives unless a text carries a marker; reading such a prompt from any line on finds each file left and nothing else, by induction from its end |
| `RunStoreProofs` | `TypeCorrect`, `GreenSupported`, `CutShortErrs`, `GreenFresh`, `RecordedOnceReproduces` | `ReadsAreThere`: what the verifier holds in hand was on disk, and a file once there stays there, which excludes a verdict on a recording that was never completed. `SeenIsMet`: each file hashed so far is of a tree met since the start. `OnceInv`: with one recording the disk is a prefix of what the recorder holds and what was read is the disk |
| `MeasurementProofs`, of `ContextCompile` | `TypeCorrect`, `BudgetNeverExceeded`, `FillIsRanked`, `DocumentsAccounted` | `Covered`: header, text so far and one separator fit in four bytes per token used. The sum of rounded-up parts bounds the rounded-up whole only together with the header's and separator's share. `OnceInv`: the ranks below the next are taken or refused, each once; the layouts are permutations, proved by the positions their two halves come from |
| `MeasurementProofs`, of `AcceptanceGate` | `PassesAreEarned`, `AccusationsAreTrue` | for any deliverables, floor, budget and pause, three, five or seven repeats, and up to five sizes. `GateInv`: a sample within the budget is the cost of its size, because the median of three or more timings of which one was paused is a timing that was not; an outcome is what the deliverable and the reference make of the defect, or one of them ended without an exit code (`Tells`); what was upset is remembered with each finding; each finding is about the samples and outcomes of the same deliverable. Then the line: with the sums of squares `sxx`, `sxy`, `syy`, what the rise between two sizes can differ from the slope is bounded by the inequality of Cauchy and Schwarz, for the part of the costs and of the two sizes that the line does not explain; `r2 ≥ 0.9` bounds the first and five sizes the second. A slope above one needs a step above one: the sizes left of their mean lie, after subtraction, on the other side of the pivot |
| `MeasurementProofs`, of `HeldoutDiff` | `ScriptsAreMinimal` | for any files, of any length, and any caps. `ScriptIsMade`: a script is that of its two files. The rest is about `EditScript`. The distance of two beginnings is their lengths less twice their longest common subsequence, whose recurrence has a table; it rises by at most one a step and stays on a diagonal of equal lines. Row `d` of `Furthest` is on each diagonal the last point within `d`: no step leads beyond what the two neighbours reach. So the first row at the ends has the number of a smallest script, and since each edit on the way back moves to a neighbouring diagonal, that number and the difference of the lengths give removals and additions |
| `MeasurementProofs`, of `ContextProbes` | `SelfChecksAreLive`, `RecommendationsHelp` | for any corpora swept, any sizes measured, and a self-check of two sizes with the limit between them at the depths 0, 25, 50, 75 and 100. `ProbesInv`: the shapes are those of the controls so far, past them the exit code is what they say, the subject's shape is that of its grid, the reaches are those of a corpus; `FillerLong`: a dozen lines or more for each size, so that rounding leaves the needle on the side of the blind spot its depth names. What a control recalls is a rectangle of sizes and depths, and its shape is one of numbers. Of the sweep: the places that answer depend on the corpus alone, so a policy is a bijection from them to the ranks recalled; while the ends answer, the edge-loaded layout alternates between them, and its first rank left out comes no earlier than that of the ranking |
| `StageAProofs` | `TypeCorrect`, `AccountsBalance`, `ContinuationEarned`, `AttributionEarned`, `LeftoversExplained`, `AttemptsFrozen`, `VerdictsAreTrue` | receipts and schedule in step; money that is paid and not yet on a receipt (`InHand`), also where the body of an attempt throws; a worktree that is clean from the question to the copy (`CopiedClean`); a refused budget only at the end (`RefusalIsLast`); an evaluator whose exit code means what its suite did (`EvaluatorSays`, `CodeTells`), for any schedule, limits and timeouts. `FInv`, of the freeze: a file nobody touched since a run began is read as it is or still to be read, and past the verification the document's aggregate is that of what was read. `VInv`: what a verification has read is the disk while nobody touches it, and a document's seal is over the body it was last put over (`SealStands`) |
| `StageAProofs`, of `ChangeSet` | `WritesAreContained` | for any tree, any reply, any permissions and any links, those that lead to nothing included. `CSInv`: the tree keeps the parents of what is in it and shadows no link, also after a write that failed half way; each file still to be written is an entry of the reply at a permitted path; what changed is what its path resolves to, and is below the workspace or is what a link there led to before it was there. A place leads to itself, where a path leads is all a longer path needs of it, and a tree that grows moves nothing; below the deepest name of a target that exists there is no entry, and at most a link that leads to nothing, through which no directory can be made, so only the last name of a path can lead elsewhere |

Sums over finite sets (money outstanding, bytes pending, costs of receipts) are
numbers of pairs ⟨owner, i-th unit⟩: adding and removing an owner's units changes
that number by its value. The library's sums take an operator as a parameter, and are out of the provers'
reach; `AcceptanceGate`, which has to multiply, sums with a recursive function.

What is model-checked only:

- all liveness (`WritesReturn`, `VerifyReturns`, `CallReturns`, `StageAEnds`) and
  anything with `ENABLED`, which the proof system does not reach.

Every safety invariant a passing run checks is stated by a theorem.

Induction over data is within reach where the definition is a recursive function
of one argument and the induction is put as a set of numbers (`InductionLemmas`);
theorems with an operator as a parameter and RECURSIVE operators are not.

`ChangeSet` assumes of a link that it lies in a directory of the tree and that what
it names, there or not, is not itself a link. `HeldoutSufficiency` assumes that a
task names each of its paths once, that different paths have different marker lines, and that no template has a file's
marker in it. `AcceptanceGate` assumes at least as many sizes as a fit needs, of
which two at least, and no more than the five the script times: with more of them
the points between may hide a steeper rise of the ends from the fit. Of a single
repeat the median would be the paused timing, so there are three or more.
`ContextProbes` assumes the shape of `SELF_CHECK_GRID` (two sizes, the limit
between them, its five depths) and that no line is so long that twelve fill a size.

## Divergences

Seven runs end in a violation, each of one sentence of the repository:

- `state_file_torn`. "A crash between write and rename leaves the temp file, never
  a torn target" (`state.ts:59-60`). The temp name is a hash of target and body
  (`state.ts:69`), so two writers of one body share it, and one truncates what the
  other renames. With bodies of their own the sentence is proved.
- `provision_whole`. "Nothing here trusts that a file exists"
  (`provision-sources.mjs:9`). `node_modules` is taken by its presence
  (`provision-sources.mjs:240`) and nothing removes what a failed install left.
- `gate_rewriting`. "Every run happens in a fresh copy, so mutations cannot
  accumulate and a command that rewrites its own inputs cannot poison a later run"
  (`src/probes/verification-honesty.ts:143-144`). The reference command at `:189`
  runs in the copy the command under test has just run in.
- `diff_hunks`. `base_start` is the "1-based first base line the hunk touches"
  (`src/heldout/diff.ts:38`). An insertion joined with the deletion of the next
  line gives a hunk that names the line before the one removed (`:217`), and
  `touchesCitedRegion` compares by it.

- `every_attempt_has_receipt`. "Every attempt produces a receipt whether it succeeds
  or fails" (`run-stage-a.mjs:5`). Receipts are in memory until the summary is
  written (`:392`), and what an attempt throws is caught nowhere: a dirty worktree
  (`:163`) after a paid answer ends the process with no receipt at all, and so does
  in v2 a budget that is refused (`v2/run-stage-a.mjs:270`).
- `tests_failed_ran`. `tests_failed`: "The injected regression test ran to completion
  and failed" (`src/heldout/outcome.ts:32`). Every exit code of the suite but 0 becomes
  that (`:120`), also that of a runner that found nothing to run, and it is attributed
  to the model.
- `ambiguous_not_retryable`. "Anything ambiguous about whether the provider actually
  received the request is deliberately NOT retryable" (`openai-transport.ts:108-110`).
  A reset connection and a 5xx are classified retryable and `not_incurred`
  (`:123-125`, `:148-149`), though the provider may have done the work.

Others were met while reading and have no run of their own:

- `budget.ts:11` calls `max_requests` a limit on requests; the adapter reserves
  once and then resubmits up to `maxRetries` times.
- `budget.ts:13` bounds what is spent; a transport error settles at zero, also
  where the transport itself says `possibly_incurred`.
- `openai-cost.ts:33-37`: "reconstructed when every component was computed from
  provider-reported token counts"; only a missing `cache_write` count makes it
  less, a missing `cached` count is taken as 0.
- `live-smoke.mjs` validates its output with no permitted paths, which the
  validation it calls takes as everything permitted; its estimate of the prompt is
  a third of its characters, and dense text has more tokens.
- `docs/runtime/policy-schema-reference.md:62` states `max_generated_files` as a
  maximum; concurrent writes pass it by up to one each (proved as a bound).
- `docs/runtime/lifecycle-and-state.md:21-22`: a finalized run is final; nothing
  stops `writeManifest` from recording over it.
- `v2/run-stage-a.mjs:21`: "A timeout is a distinct evaluator outcome from a test
  failure". Runner and evaluator have timers of the same 300 s and the runner's
  starts earlier, so a suite that hangs may be recorded as `runner_unavailable` and
  leave its copy and process behind.
- `v2/run-stage-a.mjs:354` against `:363-364`: outcomes that are not attributable
  to the model still count as baseline failures in the continuation rule, and so does
  a baseline that the budget refused. As the loop stops there it is the last cell, so
  at most one of the two baselines was never tried (`ContinuesOnEvidence`).
- `run-stage-a.mjs:154-157` refuses a worktree that is not clean; the copy is made
  after the question, and whoever works on the worktree in between is in it.
- `run-stage-a.mjs:17-19`: a mutated freeze aborts the run; the freeze is verified
  once, at the start, and inputs are read again for each attempt.
- The freezes: the verification of v1 never compares the hashes of manifest,
  policy, schedule, adapter and pricing with files, and cannot see an added file;
  leakage report and plan are outside some aggregates; `freeze.mjs` is not on the
  list of what it hashes.
- `interventions.ts:213-225`: approvals are not bound to a content each; only the
  record as a whole is, so one that is brought to a revised content keeps the
  signatures given to the former. `AssistanceIsReviewed` says who signed what, and
  whose signature was carried.
- `src/heldout/changeset.ts:185-186`: "Everything below it is yet to be created and so
  cannot itself be a link". A link that leads to nothing is below it, since
  `realpath` fails on it; the containment is then decided of the link's own place, and
  the write creates what it names, outside too. `ContainedWrites` excepts exactly that.
- `compile.ts:145-157`: a document that fits alone but not with the header is not
  treated as oversized; it triggers the cut, and all below it is left out.
- `compile.ts:198-207`: a repeated path is reported with a detail saying the first
  was kept, also when the first was excluded. Pinned documents "must be included if they
  fit at all" is not honoured when two pins compete.
- `src/probes/growth.ts:269`: a median over the time budget ends the measurement
  without the flag that the first sample would set; a workload that does not
  terminate is never interrupted; the first run of a size is judged unrepeated.
- `src/probes/gate.ts:87`: "missing or unsubstantiated VERIFICATION.md fails the
  gate"; it is advisory (`:263-266`). A series with too few points is rejected with a
  summary that says its cost grows too fast.
- `src/probes/verification-honesty.ts:183`: a command that was cut short counts as one
  that detected the defect. A reference that could not run confirms any defect
  (`:189-190`), so that a command is blamed for what nobody established, contrary to
  `:97-107` and `src/probes/gate.ts:74-80`. `GateIsEarned` and `NoFalseAccusation`
  name these cases.
- `src/probes/gate.ts:126`, `:193`: a module that throws on import and a package.json
  that is not JSON are no findings; the script ends with exit code 1, which
  `scripts/probes/gate-globmatch.mjs:74` gives the meaning that the control was accepted.
- `src/heldout/diff.ts:59-60`: the counts of a truncated result are called lower
  bounds; they are upper bounds (`:167`).
- `check-sufficiency.mjs`: `check_stub_realism` is always ok, as the stubs' outputs
  are not looked at.

## Not modelled

Limits of the models, beside the parts listed in the inventory:

- No power loss and no `fsync`: a crash is of a process; what it wrote is there.
- The error event of a child's stdin (`process.ts:88`), which would end the host.
- Torn copies are one value, "torn": which files are missing is not distinguished.
- Dollars are whole units, tokens and bytes small numbers; hashes are the content
  they are of, so collisions do not exist.
- `RunStore` leaves out `inspectRun`, symbolic links and `rollUp`; `StateFile`
  leaves out the lifecycle table, which no code in `src/` consults.
- `RunnerEvaluation` leaves out the copy of the repository and the scorer's scratch
  directory; what the leak scan of `RunPreparation` objects to is an attribute of
  the content.
- `StageA` starts with the freeze gate and the authorization passed; the gate and
  its later reads are in `StudyFreeze`.
- In `Provision`, `Disturb` changes worktrees and removes things; somebody editing
  inside `node_modules` or the compiler is out of the scripts' scope too. git, npm
  and tar are modelled from how the scripts use them.
- `ChangeSet` has no link that names a link; two permitted paths that are one file
  through a link inside the workspace are both accepted.
- `AcceptanceGate` has times that are powers of two, and one pause in each size.
- `HeldoutSufficiency` has the noop stub only: the oracle and patch stubs return
  committed texts.

## Plan

The plan of the models is carried out: the money path (guard, adapter, ledger, live
call), the broker, durable state and verify-run, processes and the runner with its
preparation, Stage A with its evaluators and freezes, provisioning, the compiler,
and the probes, in that order, since an error there costs money or makes a false
statement about a run.

What is open: `StageA` started from the freeze gate of `StudyFreeze` with a file
edited between two attempts; a run of `Provision` beside `StageA` on the same
worktrees, in place of the operator's three actions.
