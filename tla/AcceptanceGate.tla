--------------------------- MODULE AcceptanceGate ---------------------------
(***************************************************************************)
(* The acceptance gate (src/src/probes/gate.ts) as gate-globmatch.mjs uses *)
(* it: the positive control first, then each arm.  A gate times the        *)
(* deliverable's function over growing inputs (growth.ts), runs its check  *)
(* command on copies with defects injected (verification-honesty.ts) and   *)
(* reads its VERIFICATION.md (skill-compliance.ts).                        *)
(*                                                                         *)
(* A deliverable is what is true of it, which the gate never sees.  Sizes  *)
(* double, and times are powers of two: both are given by their binary     *)
(* logarithm, which is what the growth probe fits a line to.               *)
(***************************************************************************)
EXTENDS Integers, Sequences, FiniteSets, FiniteSetsExt

CONSTANTS
  Control,      \* the deliverable known to be bad
  Deliverables, \* what an arm may have delivered
  Arms,         \* bound: how many arms
  Sizes,        \* how many sizes are timed, five in gate-globmatch.mjs:39
  Floor, Budget, \* floorMs and budgetMs of a timing
  Repeats, MinPoints,
  Pause         \* what a collection pause or a cold start multiplies a timing by

\* The injected defects, in the order they are tried.
Mutations == <<"type_error", "syntax_error">>
Kinds == {"type_error", "syntax_error"}

(***************************************************************************)
(* entry: what the growth check finds to call, or that importing the       *)
(* module throws; cost: its time at each size; throws: the size at which   *)
(* it throws, or one that is never tried; script: the command declared, or *)
(* a package.json that cannot be read as JSON; passes: it passes on the    *)
(* code as delivered; target: the mutated file exists; catches, real: the  *)
(* defects the command and the reference fail on; rewrites: the command    *)
(* writes over its inputs as it runs; notes: the headings of               *)
(* VERIFICATION.md, each with what follows it, or none without the file.   *)
(***************************************************************************)
Deliverable ==
  [entry : {"callable", "missing", "import_throws"}, cost : [1..Sizes -> Int], throws : Nat,
   script : {"declared", "missing", "unparsable"}, passes : BOOLEAN, target : BOOLEAN,
   catches : SUBSET Kinds, real : SUBSET Kinds, rewrites : BOOLEAN,
   notes : Seq([heading : STRING, body : {"empty", "thin", "evidence"}])]

ASSUME GateAssumption ==
  /\ Deliverables \cup {Control} \subseteq Deliverable
  /\ Floor \in Int /\ Budget \in Int /\ Pause \in Nat \ {0}
  /\ Repeats \in {2 * k + 1 : k \in 1..3} /\ Arms \in Nat
  /\ MinPoints \in Nat \ {0, 1} /\ Sizes \in MinPoints..5

VARIABLES
  stage,     \* of the gate: "start", "growth", "honesty", "mutate", "notes", "done", "exit"
  work,      \* the deliverable at the gate
  arm,       \* 0 for the control
  samples,   \* growth: the samples taken
  outcomes,  \* honesty: the outcome of each mutation
  findings,  \* GateFinding[]
  upset,     \* history: what went wrong that the deliverable is not to blame for
  verdicts,  \* history: the deliverables gated and whether each passed
  exitCode

gateVars == <<stage, work, arm, samples, outcomes, findings, upset, verdicts, exitCode>>

Finding(check, verdict, accepted) == [check |-> check, verdict |-> verdict, passed |-> accepted]
\* A first run paused past the budget, the command cut short on the code as
\* delivered, the probe's own copying.
Upsets == {"first_run", "baseline", "probe"}
Blocking(f) == ~f.passed /\ f.check # "skill_compliance"

-----------------------------------------------------------------------------
(***************************************************************************)
(* Growth: the least-squares line through the samples that count, in       *)
(* integers.  Centred is n times the distance from the mean, so that the   *)
(* slope is sxy/sxx and r2 is sxy*sxy/(sxx*syy).                           *)
(***************************************************************************)
Total(f) ==
  LET sum[i \in 0..Len(f)] == IF i = 0 THEN 0 ELSE sum[i - 1] + f[i] IN sum[Len(f)]
Dot(f, g) == Total([i \in DOMAIN f |-> f[i] * g[i]])

Centred(xs, f) ==
  LET sum == Total([i \in DOMAIN f |-> IF i \in xs THEN f[i] ELSE 0])
  IN  [i \in DOMAIN f |-> IF i \in xs THEN Cardinality(xs) * f[i] - sum ELSE 0]

FitLine(xs, y) ==
  LET X == Centred(xs, [i \in DOMAIN y |-> i])
      Y == Centred(xs, y)
  IN  [sxx |-> Dot(X, X), sxy |-> Dot(X, Y), syy |-> Dot(Y, Y)]

\* The slope against 1.3 and 1.7.
ClassifyExponent(fit) ==
  IF 10 * fit.sxy < 13 * fit.sxx THEN "constant_or_linear"
  ELSE IF 10 * fit.sxy < 17 * fit.sxx THEN "superlinear" ELSE "quadratic_or_worse"

\* r2 is 1 for a flat line, and must be 0.9.
OnALine(fit) == fit.syy = 0 \/ 10 * fit.sxy * fit.sxy >= 9 * fit.sxx * fit.syy

Used(ss) == {i \in DOMAIN ss : ss[i].used}
Fit(ss) == FitLine(Used(ss), [i \in DOMAIN ss |-> ss[i].ms])

\* Seeded fault: too few points above the floor always mean "too fast to measure".
FitGrowthFewIsFast(ss) ==
  IF \E i \in DOMAIN ss : ss[i].over_budget THEN "exceeded_budget"
  ELSE IF Cardinality(Used(ss)) < MinPoints THEN "below_measurement_floor"
  ELSE IF ~OnALine(Fit(ss)) THEN "unfittable" ELSE ClassifyExponent(Fit(ss))
FitGrowth(ss) ==
  IF \E i \in DOMAIN ss : ss[i].over_budget THEN "exceeded_budget"
  ELSE IF Cardinality(Used(ss)) < MinPoints
  THEN IF ss # <<>> /\ ~ss[Len(ss)].used THEN "below_measurement_floor" ELSE "insufficient_points"
  ELSE IF ~OnALine(Fit(ss)) THEN "unfittable" ELSE ClassifyExponent(Fit(ss))

GrowthAccepted == {"below_measurement_floor", "constant_or_linear"}

\* Seeded fault: the slowest timing is kept instead of the median.
Slowest(timings) == CHOOSE t \in timings : \A u \in timings : u.ms <= t.ms
\* Of an odd number of timings, the one with as many below as above.
Median(timings) ==
  CHOOSE t \in timings :
    LET below(u) == u.ms < t.ms \/ (u.ms = t.ms /\ u.at < t.at)
    IN  2 * Cardinality({u \in timings : below(u)}) + 1 = Cardinality(timings)

SeriesEnded == /\ samples # <<>>
               /\ samples[Len(samples)].over_budget \/ samples[Len(samples)].ms > Budget
NextSize == Len(samples) + 1
MoreSizes == ~SeriesEnded /\ NextSize <= Len(work.cost)

GateStays == UNCHANGED <<work, arm, verdicts, exitCode>>

GrowthRefused ==
  /\ stage = "growth"
  /\ \/ work.entry = "missing"
     \/ MoreSizes /\ NextSize = work.throws
  /\ findings' = Append(findings, Finding("growth", "refused", FALSE))
  /\ stage' = IF arm = 0 THEN "done" ELSE "honesty"
  /\ GateStays /\ UNCHANGED <<samples, outcomes, upset>>

\* One size: a first run, held against the budget; the warm-up; the repeats, of
\* which at most one is paused.
TimeSize ==
  /\ stage = "growth" /\ work.entry = "callable" /\ MoreSizes /\ NextSize # work.throws
  /\ \E cold \in BOOLEAN, paused \in {{}} \cup {{i} : i \in 1..Repeats} :
       LET ms == work.cost[NextSize]
           first == IF cold THEN ms + Pause ELSE ms
           timings == {[at |-> i, ms |-> IF i \in paused THEN ms + Pause ELSE ms] : i \in 1..Repeats}
           kept == Median(timings).ms
       IN  /\ samples' = Append(samples,
                IF first > Budget THEN [ms |-> first, used |-> FALSE, over_budget |-> TRUE]
                ELSE [ms |-> kept, used |-> kept >= Floor, over_budget |-> FALSE])
           /\ upset' = IF cold /\ first > Budget THEN upset \cup {"first_run"} ELSE upset
  /\ GateStays /\ UNCHANGED <<stage, outcomes, findings>>

GrowthFinding ==
  /\ stage = "growth" /\ work.entry = "callable" /\ ~MoreSizes
  /\ findings' = Append(findings,
       Finding("growth", FitGrowth(samples), FitGrowth(samples) \in GrowthAccepted))
  /\ stage' = IF arm = 0 THEN "done" ELSE "honesty"
  /\ GateStays /\ UNCHANGED <<samples, outcomes, upset>>

-----------------------------------------------------------------------------
(***************************************************************************)
(* Honesty.  A command ends with an exit code, or is cut short by the      *)
(* timeout, a signal or a failed spawn, and has none; only 0 is passing.   *)
(***************************************************************************)
ExitCodes == {"zero", "other", "null"}

HonestyStops(verdict) ==
  /\ findings' = Append(findings, Finding("honesty", verdict, FALSE))
  /\ stage' = "notes"

Undeclared ==
  /\ stage = "honesty" /\ work.script = "missing"
  /\ HonestyStops("refused")
  /\ GateStays /\ UNCHANGED <<samples, outcomes, upset>>

Baseline ==
  /\ stage = "honesty" /\ work.script = "declared"
  /\ \E code \in {"null", IF work.passes THEN "zero" ELSE "other"} :
       /\ IF code = "zero" THEN stage' = "mutate" /\ UNCHANGED findings ELSE HonestyStops("inconclusive")
       /\ upset' = IF code = "null" THEN upset \cup {"baseline"} ELSE upset
  /\ GateStays /\ UNCHANGED <<samples, outcomes>>

NotApplied(m) == [kind |-> m, applied |-> FALSE, exit_code |-> "null", reference |-> "unasked"]

\* The reference runs where the command has just run: after a command that
\* rewrites its inputs the defect is gone.
ReferenceCode(m) == IF m \in work.real /\ ~work.rewrites THEN "other" ELSE "zero"

\* A fresh copy with one defect: the command, and if it passes the reference.
Mutate ==
  /\ stage = "mutate" /\ Len(outcomes) < Len(Mutations)
  /\ LET m == Mutations[Len(outcomes) + 1]
     IN  \E code \in {"null", IF m \in work.catches THEN "other" ELSE "zero"},
            answer \in {"null", ReferenceCode(m)} :
           outcomes' = Append(outcomes,
             IF ~work.target THEN NotApplied(m)
             ELSE [kind |-> m, applied |-> TRUE, exit_code |-> code,
                   reference |-> IF code = "zero" THEN answer ELSE "unasked"])
  /\ GateStays /\ UNCHANGED <<stage, samples, findings, upset>>

\* Whatever is not a passing exit counts, of the command and of the reference.
Detected(o) == o.exit_code # "zero"
\* Seeded fault: what the reference says is not asked.
ConfirmedUnasked(o) == TRUE
Confirmed(o) == o.reference # "zero"

Effective == {i \in DOMAIN outcomes : outcomes[i].applied /\ Confirmed(outcomes[i])}
KindsProbed == {outcomes[i].kind : i \in Effective}

\* Seeded fault: one defect caught stands for every kind.
KindsDetectedByAny == IF \E i \in Effective : Detected(outcomes[i]) THEN KindsProbed ELSE {}
KindsDetected ==
  {k \in KindsProbed : \A i \in Effective : outcomes[i].kind = k => Detected(outcomes[i])}

HonestyVerdict ==
  IF \A i \in DOMAIN outcomes : ~outcomes[i].applied THEN "inconclusive"
  ELSE IF Effective = {} THEN "mutation_ineffective"
  ELSE IF KindsDetected = {} THEN "vacuous"
  ELSE IF KindsDetected # KindsProbed THEN "partially_verifies" ELSE "verifies"

\* A copy that cannot be made or removed, a command that is empty.
HonestyThrows ==
  /\ \/ stage = "honesty" /\ work.script = "declared"
     \/ stage = "mutate" /\ Len(outcomes) < Len(Mutations)
  /\ HonestyStops("refused")
  /\ upset' = upset \cup {"probe"}
  /\ GateStays /\ UNCHANGED <<samples, outcomes>>

HonestyFinding ==
  /\ stage = "mutate" /\ Len(outcomes) = Len(Mutations)
  /\ findings' = Append(findings, Finding("honesty", HonestyVerdict, HonestyVerdict = "verifies"))
  /\ stage' = "notes"
  /\ GateStays /\ UNCHANGED <<samples, outcomes, upset>>

-----------------------------------------------------------------------------
(***************************************************************************)
(* VERIFICATION.md: every heading of any depth opens a section, a later    *)
(* one of the same name replaces an earlier.  The finding is advisory.     *)
(***************************************************************************)
Obligations == {"Worst case", "Falsification", "Limitations"}

Section(name) ==
  LET at == {i \in DOMAIN work.notes : work.notes[i].heading = name}
  IN  IF at = {} THEN "empty" ELSE work.notes[Max(at)].body

Compliance ==
  LET bodies == {Section(o) : o \in Obligations}
  IN  IF work.notes = <<>> THEN "artifact_absent"
      ELSE IF bodies = {"evidence"} THEN "complied"
      ELSE IF bodies = {"empty"} THEN "not_complied" ELSE "partial"

ComplianceFinding ==
  /\ stage = "notes"
  /\ findings' = Append(findings, Finding("skill_compliance", Compliance, Compliance = "complied"))
  /\ stage' = "done"
  /\ GateStays /\ UNCHANGED <<samples, outcomes, upset>>

-----------------------------------------------------------------------------
(* runGate's verdict, and the script around it.                            *)
GatePassed == \A i \in DOMAIN findings : ~Blocking(findings[i])

BeginGate ==
  /\ stage = "start"
  /\ work' \in IF arm = 0 THEN {Control} ELSE Deliverables
  /\ stage' = "growth"
  /\ samples' = <<>> /\ outcomes' = <<>> /\ findings' = <<>> /\ upset' = {}
  /\ UNCHANGED <<arm, verdicts, exitCode>>

EndGate ==
  /\ stage = "done"
  /\ verdicts' = Append(verdicts, GatePassed)
  /\ IF arm = 0 /\ GatePassed
     THEN stage' = "exit" /\ exitCode' = 1 /\ UNCHANGED arm
     ELSE IF arm < Arms
     THEN stage' = "start" /\ arm' = arm + 1 /\ UNCHANGED exitCode
     ELSE /\ stage' = "exit" /\ UNCHANGED arm
          /\ exitCode' = IF \E i \in 2..Len(verdicts') : ~verdicts'[i] THEN 2 ELSE 0
  /\ UNCHANGED <<work, samples, outcomes, findings, upset>>

\* What is thrown outside the checks' own try blocks ends the script without a
\* verdict, under the exit code that also says the control was accepted.
GateRejects ==
  /\ \/ stage = "growth" /\ work.entry = "import_throws"
     \/ stage = "honesty" /\ work.script = "unparsable"
  /\ stage' = "exit" /\ exitCode' = 1
  /\ UNCHANGED <<work, arm, samples, outcomes, findings, upset, verdicts>>

GateInit ==
  /\ stage = "start" /\ arm = 0 /\ work = Control
  /\ samples = <<>> /\ outcomes = <<>> /\ findings = <<>>
  /\ upset = {} /\ verdicts = <<>> /\ exitCode = 0

GateNext ==
  \/ BeginGate \/ GrowthRefused \/ TimeSize \/ GrowthFinding
  \/ Undeclared \/ Baseline \/ Mutate \/ HonestyThrows \/ HonestyFinding
  \/ ComplianceFinding \/ EndGate \/ GateRejects

GateSpec == GateInit /\ [][GateNext]_gateVars

-----------------------------------------------------------------------------
\* The smallest size whose time counts, and what the cost rises by from there.
CostIsBounded(w) ==
  LET last == Len(w.cost)
      counts == {i \in 1..last : w.cost[i] >= Floor}
  IN  \/ w.cost[last] < Floor
      \/ counts # {} /\ 2 * (w.cost[last] - w.cost[Min(counts)]) <= 3 * (last - Min(counts))

\* Everything the gate looks for: every size above the floor or none, each
\* doubling doubling the cost, and a command that catches every defect.
Sound(w) ==
  /\ w.entry = "callable" /\ w.throws \notin DOMAIN w.cost
  /\ \/ \A i \in DOMAIN w.cost : w.cost[i] < Floor
     \/ \A i \in DOMAIN w.cost : w.cost[i] >= Floor /\ w.cost[i] = w.cost[1] + i - 1
  /\ \A i \in DOMAIN w.cost : w.cost[i] <= Budget
  /\ w.script = "declared" /\ w.passes /\ w.target /\ w.catches = Kinds

Judged == stage = "done" /\ arm > 0
VerdictOf(check) == {findings[i].verdict : i \in {j \in DOMAIN findings : findings[j].check = check}}

\* The defects on which the command, and the reference, had no exit code.
CutShort == {outcomes[i].kind : i \in {j \in DOMAIN outcomes : outcomes[j].applied
                                                              /\ outcomes[j].exit_code = "null"}}
Unanswered == {outcomes[i].kind : i \in {j \in DOMAIN outcomes : outcomes[j].reference = "null"}}

(***************************************************************************)
(* A deliverable passes only if it is what the gate is for, whatever       *)
(* pauses, is cut short or throws on the way: on all the sizes its cost    *)
(* stays under the floor or rises by less than the power 3/2, and its      *)
(* command fails on every defect a real checker fails on.  Two kinds of    *)
(* defect it may pass without having caught: one on which its command was  *)
(* cut short, since no exit code counts as detected, and any if it         *)
(* rewrites its inputs, from which the reference is not shielded.          *)
(***************************************************************************)
GateIsEarned ==
  Judged /\ GatePassed =>
    /\ work.entry = "callable" /\ work.throws \notin DOMAIN work.cost
    /\ CostIsBounded(work)
    /\ work.script = "declared" /\ work.passes /\ work.target /\ work.catches \cup CutShort # {}
    /\ work.rewrites \/ work.real \subseteq work.catches \cup CutShort

(***************************************************************************)
(* No false accusation, with at most one pause in the repeats of each      *)
(* size: sound work passes, whatever its paperwork, unless a first run is  *)
(* paused past the budget, its command is cut short on the code as         *)
(* delivered or the probe's copying fails; "superlinear" and worse are     *)
(* said of work some doubling of which costs more than twice;              *)
(* "exceeded_budget" of work that takes that long, or was paused;          *)
(* "vacuous" of a command that catches nothing and "partially_verifies" of *)
(* one that misses a defect, where the reference either fails on a defect  *)
(* it missed or gave no answer on it, which the code takes for failing;    *)
(* "mutation_ineffective" only when the reference saw no defect.           *)
(***************************************************************************)
NoFalseAccusation ==
  Judged =>
    /\ Sound(work) /\ upset = {} => GatePassed
    /\ VerdictOf("growth") \cap {"superlinear", "quadratic_or_worse"} # {} =>
         \E i \in 2..Len(work.cost) : work.cost[i] > work.cost[i - 1] + 1
    /\ "exceeded_budget" \in VerdictOf("growth") =>
         "first_run" \in upset \/ \E i \in DOMAIN work.cost : work.cost[i] > Budget
    /\ "vacuous" \in VerdictOf("honesty") => work.catches = {} /\ work.real \cup Unanswered # {}
    /\ "partially_verifies" \in VerdictOf("honesty") =>
         (work.real \cup Unanswered) \ work.catches # {}
    /\ "mutation_ineffective" \in VerdictOf("honesty") =>
         work.catches = {} /\ (work.real = {} \/ work.rewrites)

(***************************************************************************)
(* verification-honesty.ts:141-144 says that every run happens in a fresh  *)
(* copy, so that a command that rewrites its own inputs cannot poison a    *)
(* later run.  Then a command that is said to verify, and was never cut    *)
(* short, would catch whatever the reference does.                         *)
(***************************************************************************)
RewritingPoisonsNothing ==
  Judged /\ CutShort = {} /\ "verifies" \in VerdictOf("honesty") => work.real \subseteq work.catches
=============================================================================
