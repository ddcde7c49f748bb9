------------------------------ MODULE Provision ------------------------------
(***************************************************************************)
(* The cache of upstream sources that the experiments run on, as the two   *)
(* provisioning scripts fill it: scripts/gate-m/provision-sources.mjs      *)
(* (variant "gate_m") and scripts/gate-h-heldout/provision.mjs (variant    *)
(* "heldout").  A script is a plan of steps, each of which looks at the    *)
(* cache and may run a child process over it (git, npm, pnpm, tar).        *)
(*                                                                         *)
(* A child may fail, and script and child may be killed while it runs, so  *)
(* everything a child fills can be found half-filled by the next run.      *)
(* Between and during runs people and the experiments' own scripts disturb *)
(* the cache.                                                              *)
(***************************************************************************)
EXTENDS Naturals, Sequences, SequencesExt

CONSTANTS
  Repos,          \* the upstream repositories, in the order of the table
  Commits,        \* the pinned commits, in the order of the table
  RepoOf,         \* the repository of a commit
  Worktrees,      \* the commits the held-out corpus has a worktree of
  NeedsInstall,   \* the commits whose worktree needs dependencies
  MaxRuns,        \* bound on runs of the script
  MaxDisturbances \* bound on what happens to the cache from outside

ReposSet == Range(Repos)
CommitsSet == Range(Commits)

ASSUME TablesAssumption ==
  /\ Repos \in Seq(ReposSet) /\ Commits \in Seq(CommitsSet)
  /\ \A i, j \in DOMAIN Commits : Commits[i] = Commits[j] => i = j
ASSUME RepoOfAssumption == RepoOf \in [CommitsSet -> ReposSet]
ASSUME WorktreesAssumption == NeedsInstall \subseteq Worktrees /\ Worktrees \subseteq CommitsSet

VARIABLES
  variant,   \* which script
  genuine,   \* commits whose `git archive` has the expected hash
  cache,     \* the cache directory
  proc,      \* the running script: the steps left, what its child does
  runs, disturbances,
  cutShort,  \* history: an install or an extraction has failed or was killed
  settled,   \* history: the last run was green, and nothing disturbed since
  disturbed  \* history: the cache was disturbed during this run

provisionVars == <<variant, genuine, cache, proc, runs, disturbances, cutShort, settled, disturbed>>

Variants == {"gate_m", "heldout"}

(* What git, npm or tar fill is absent, partial or whole; a worktree that  *)
(* was filled is clean, modified, or moved to another commit.              *)
EmptyCache ==
  [bare |-> [r \in ReposSet |-> "absent"], have |-> {},
   tree |-> [c \in CommitsSet |-> "absent"], deps |-> [c \in CommitsSet |-> "absent"],
   tarball |-> "absent", compiler |-> "absent", receipt |-> "absent"]

-----------------------------------------------------------------------------
(* The steps of a script, in order.                                        *)
PlanStep(kind, unit) == [kind |-> kind, unit |-> unit]
Steps(kind, units) == [k \in DOMAIN units |-> PlanStep(kind, units[k])]

VerifiedSteps(c) == <<PlanStep("commit", c), PlanStep("archive", c)>>
StepFor(kind, c, chosen) == IF c \in chosen THEN <<PlanStep(kind, c)>> ELSE <<>>

GateMPlan ==
  Steps("clone", Repos)
    \o FlattenSeq([k \in DOMAIN Commits |->
                     Append(VerifiedSteps(Commits[k]), PlanStep("worktree", Commits[k]))])
    \o FlattenSeq([k \in DOMAIN Commits |-> StepFor("install", Commits[k], NeedsInstall)])
    \o <<PlanStep("compiler", "typescript"), PlanStep("receipt", "receipt")>>

HeldoutPlan ==
  <<PlanStep("preflight", "tools")>>
    \o Steps("clone", Repos)
    \o FlattenSeq([k \in DOMAIN Commits |->
         LET c == Commits[k]
         IN  VerifiedSteps(c) \o StepFor("worktree", c, Worktrees)
                              \o StepFor("install", c, NeedsInstall)])
    \o <<PlanStep("receipt", "receipt")>>

Plan == IF variant = "gate_m" THEN GateMPlan ELSE HeldoutPlan

NotRunning == [steps |-> <<>>, doing |-> "idle", offline |-> FALSE, exit |-> "none"]

ProvisionInit ==
  /\ variant \in Variants
  /\ genuine \in SUBSET CommitsSet
  /\ cache = EmptyCache
  /\ proc = NotRunning
  /\ runs = 0
  /\ disturbances = 0
  /\ cutShort = FALSE
  /\ settled = FALSE
  /\ disturbed = FALSE

StartRun(offline) ==
  /\ proc.doing = "idle"
  /\ runs < MaxRuns
  /\ proc' = [steps |-> Plan, doing |-> "step", offline |-> offline, exit |-> "none"]
  /\ runs' = runs + 1
  /\ disturbed' = FALSE
  /\ UNCHANGED <<variant, genuine, cache, disturbances, cutShort, settled>>

-----------------------------------------------------------------------------
(* A step of the script: what it is about, and how it may go on.           *)
At(kind, doing) ==
  /\ proc.doing = doing
  /\ Head(proc.steps).kind = kind
  /\ UNCHANGED <<variant, genuine, runs, disturbances, disturbed>>

Unit == Head(proc.steps).unit

Continue(c) ==
  /\ cache' = c
  /\ proc' = [proc EXCEPT !.steps = Tail(@), !.doing = "step"]
  /\ UNCHANGED <<cutShort, settled>>

Child(doing, c) ==
  /\ cache' = c
  /\ proc' = [proc EXCEPT !.doing = doing]
  /\ UNCHANGED <<cutShort, settled>>

(* ProvisionError with its code, or any other error: exit code 1.          *)
Fail(code, c, leavesPartial) ==
  /\ cache' = c
  /\ proc' = [NotRunning EXCEPT !.exit = code]
  /\ cutShort' = (cutShort \/ leavesPartial)
  /\ settled' = FALSE

(* git, python3 and pytest are there, or nothing is touched.               *)
Preflight ==
  /\ At("preflight", "step")
  /\ Continue(cache) \/ Fail("tool_missing", cache, FALSE)

(* provisionRepos: a bare clone that is there is taken as it is.           *)
Clone ==
  /\ At("clone", "step")
  /\ IF cache.bare[Unit] # "absent" THEN Continue(cache)
     ELSE IF proc.offline THEN Fail("unavailable", cache, FALSE)
     ELSE Child("cloning", [cache EXCEPT !.bare[Unit] = "partial"])

Cloned ==
  /\ At("clone", "cloning")
  /\ \/ \E got \in SUBSET {c \in CommitsSet : RepoOf[c] = Unit} :
          Continue([cache EXCEPT !.bare[Unit] = "whole", !.have = @ \cup got])
     \/ Fail("unavailable", [cache EXCEPT !.bare[Unit] = "absent"], FALSE)

(* ensureCommit: a commit the clone does not carry is fetched.             *)
EnsureCommit ==
  /\ At("commit", "step")
  /\ IF Unit \in cache.have THEN Continue(cache)
     ELSE \/ ~proc.offline /\ Continue([cache EXCEPT !.have = @ \cup {Unit}])
          \/ Fail("unavailable", cache, FALSE)

(* The blobs of a blobless clone may have to be fetched, and may not come. *)
VerifyArchive ==
  /\ At("archive", "step")
  /\ \/ Unit \in genuine /\ Continue(cache)
     \/ Unit \notin genuine /\ Fail("mismatch", cache, FALSE)
     \/ Fail("error", cache, FALSE)

WithoutTree(c) == [cache EXCEPT !.tree[c] = "absent", !.deps[c] = "absent"]

(* Seeded fault: the status of a worktree at the commit is not looked at.  *)
CheckHeadOnly ==
  /\ At("worktree", "step")
  /\ \/ cache.tree[Unit] \in {"clean", "modified"} /\ Continue(cache)
     \/ /\ cache.tree[Unit] \notin {"clean", "modified"}
        /\ Child("adding", [WithoutTree(Unit) EXCEPT !.tree[Unit] = "partial"])

(* A worktree is reused if it is at the commit with a clean status, and    *)
(* is removed with its dependencies otherwise.                             *)
CheckTree ==
  /\ At("worktree", "step")
  /\ \/ cache.tree[Unit] = "clean" /\ Continue(cache)
     \/ /\ cache.tree[Unit] # "clean"
        /\ Child("adding", [WithoutTree(Unit) EXCEPT !.tree[Unit] = "partial"])
     \/ cache.tree[Unit] # "absent" /\ Fail("error", cache, FALSE)   \* git status fails

TreeAdded ==
  /\ At("worktree", "adding")
  /\ \/ Continue([cache EXCEPT !.tree[Unit] = "clean"])
     \/ \E left \in {"absent", "partial"} :
          Fail("error", [cache EXCEPT !.tree[Unit] = left], FALSE)

(* Seeded fault: dependencies are installed whenever there is a network.   *)
InstallAlways ==
  /\ At("install", "step")
  /\ IF proc.offline THEN (IF cache.deps[Unit] # "absent" THEN Continue(cache)
                           ELSE Fail("unavailable", cache, FALSE))
     ELSE Child("installing", [cache EXCEPT !.deps[Unit] = "partial"])

(* node_modules that is there is taken as it is.                           *)
Install ==
  /\ At("install", "step")
  /\ IF cache.deps[Unit] # "absent" THEN Continue(cache)
     ELSE IF proc.offline THEN Fail("unavailable", cache, FALSE)
     ELSE Child("installing", [cache EXCEPT !.deps[Unit] = "partial"])

(* Seeded fault: the exit code of the package manager is not looked at.    *)
InstalledUnchecked ==
  /\ At("install", "installing")
  /\ \E got \in {"partial", "whole"} : Continue([cache EXCEPT !.deps[Unit] = got])

(* The held-out script installs without freezing the lockfile, which is a  *)
(* tracked file.                                                           *)
LockfileRewritten ==
  /\ At("install", "installing")
  /\ variant = "heldout" /\ cache.tree[Unit] = "clean"
  /\ Child("installing", [cache EXCEPT !.tree[Unit] = "modified"])

Installed ==
  /\ At("install", "installing")
  /\ \/ Continue([cache EXCEPT !.deps[Unit] = "whole"])
     \/ \E left \in {"absent", "partial"} :
          Fail("unavailable", [cache EXCEPT !.deps[Unit] = left], TRUE)

-----------------------------------------------------------------------------
(* provisionTypeScript.  "compiler" is the extracted tarball; "lib" is an  *)
(* extraction that has reached lib/tsc.js, the file the script looks for.  *)
LibExists(c) == c.compiler \in {"lib", "whole"}

(* The tarball in the cache is hashed again; one that is corrupt goes, and *)
(* what was extracted goes with it.                                        *)
Recheck(c) ==
  IF c.tarball = "corrupt" THEN [c EXCEPT !.tarball = "absent", !.compiler = "absent"] ELSE c

Compiler ==
  /\ At("compiler", "step")
  /\ LET now == Recheck(cache)
         bare == [now EXCEPT !.compiler = "absent"]
     IN IF LibExists(now) /\ now.tarball # "absent" THEN Continue(now)
        ELSE IF now.tarball # "absent" THEN Child("verifying", bare)
        ELSE IF proc.offline THEN Fail("unavailable", bare, FALSE)
        ELSE Child("packing", [bare EXCEPT !.tarball = "corrupt"])

Packed ==
  /\ At("compiler", "packing")
  /\ \/ \E got \in {"corrupt", "genuine"} :
          Child("verifying", [cache EXCEPT !.tarball = got])
     \/ \E left \in {"absent", "corrupt"} :
          Fail("unavailable", [cache EXCEPT !.tarball = left], FALSE)

VerifyTarball ==
  /\ At("compiler", "verifying")
  /\ IF cache.tarball = "genuine"
     THEN Child("extracting", [cache EXCEPT !.compiler = "partial"])
     ELSE Fail("mismatch", [cache EXCEPT !.tarball = "absent"], FALSE)

Extract ==
  /\ At("compiler", "extracting")
  /\ \/ cache.compiler = "partial" /\ Child("extracting", [cache EXCEPT !.compiler = "lib"])
     \/ cache.compiler = "lib" /\ Continue([cache EXCEPT !.compiler = "whole"])
     \/ Fail("error", cache, TRUE)

-----------------------------------------------------------------------------
(* The receipt is written in place, last; after it the script is done.     *)
WriteProvenance ==
  /\ At("receipt", "step")
  /\ Child("writing", [cache EXCEPT !.receipt = "partial"])

ReceiptWritten ==
  /\ At("receipt", "writing")
  /\ cache' = [cache EXCEPT !.receipt = "whole"]
  /\ proc' = [NotRunning EXCEPT !.exit = "green"]
  /\ settled' = ~disturbed
  /\ UNCHANGED cutShort

(* Killed with its child.                                                  *)
Kill ==
  /\ proc.doing # "idle"
  /\ proc' = [NotRunning EXCEPT !.exit = "killed"]
  /\ cutShort' = (cutShort \/ proc.doing \in {"installing", "extracting"})
  /\ settled' = FALSE
  /\ UNCHANGED <<variant, genuine, cache, runs, disturbances, disturbed>>

(* Somebody edits a worktree or checks something else out in it, removes   *)
(* it, or damages the cached tarball.                                      *)
Disturb ==
  /\ disturbances < MaxDisturbances
  /\ \/ \E c \in CommitsSet, state \in {"modified", "moved"} :
          /\ cache.tree[c] = "clean"
          /\ cache' = [cache EXCEPT !.tree[c] = state]
     \/ \E c \in CommitsSet :
          /\ cache.tree[c] # "absent"
          /\ cache' = WithoutTree(c)
     \/ /\ cache.tarball = "genuine"
        /\ cache' = [cache EXCEPT !.tarball = "corrupt"]
  /\ disturbances' = disturbances + 1
  /\ settled' = FALSE
  /\ disturbed' = TRUE
  /\ UNCHANGED <<variant, genuine, proc, runs, cutShort>>

ProvisionNext ==
  \/ \E offline \in BOOLEAN : StartRun(offline)
  \/ Preflight
  \/ Clone \/ Cloned \/ EnsureCommit \/ VerifyArchive
  \/ CheckTree \/ TreeAdded \/ Install \/ LockfileRewritten \/ Installed
  \/ Compiler \/ Packed \/ VerifyTarball \/ Extract
  \/ WriteProvenance \/ ReceiptWritten
  \/ Kill
  \/ Disturb

ProvisionSpec == ProvisionInit /\ [][ProvisionNext]_provisionVars

-----------------------------------------------------------------------------
HasTree(c) == variant = "gate_m" \/ c \in Worktrees
HasDeps(c) == c \in NeedsInstall

GreenUndisturbed == proc.doing = "idle" /\ proc.exit = "green" /\ ~disturbed

Whole ==
  /\ \A c \in CommitsSet : HasDeps(c) => cache.deps[c] = "whole"
  /\ variant = "gate_m" => cache.compiler = "whole"

(* What a green run vouches for, if nobody interfered: every commit of the *)
(* table hashes as expected, every worktree is that commit unchanged but   *)
(* for what its own install did to a lockfile, and the tarball of the      *)
(* compiler is the genuine one, wherever earlier runs failed or were       *)
(* killed (provision-sources.mjs:9).  Dependencies and compiler are taken  *)
(* by their presence: they are whole unless an install or an extraction    *)
(* failed or was killed at some time before (provision-sources.mjs:243).   *)
GreenIsVerified ==
  GreenUndisturbed =>
    /\ CommitsSet \subseteq genuine \cap cache.have
    /\ \A c \in CommitsSet : HasTree(c) =>
         \/ cache.tree[c] = "clean"
         \/ cache.tree[c] = "modified" /\ variant = "heldout" /\ HasDeps(c)
    /\ variant = "gate_m" => cache.tarball = "genuine"
    /\ ~cutShort => Whole

(* Once a gate-m run was green, running it again changes nothing but the   *)
(* receipt and needs no network, until somebody disturbs the cache.        *)
GreenIsReused ==
  [][settled /\ variant = "gate_m" /\ disturbances' = disturbances
       => cache' = [cache EXCEPT !.receipt = cache'.receipt]
          /\ proc'.exit # "unavailable"]_provisionVars

(* What the script says of itself: nothing is used because it exists, and  *)
(* what does not match is rebuilt or reported (provision-sources.mjs:9).   *)
GreenIsWhole == GreenUndisturbed => Whole
=============================================================================
