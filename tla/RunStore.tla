------------------------------ MODULE RunStore ------------------------------
(***************************************************************************)
(* The durable record of a run and its re-verification: RunStore and       *)
(* reverifyRun in src/src/runtime/run-store.ts over hashWorkspaceTree and  *)
(* EvidenceVM in src/src/runtime/evidence.ts.                              *)
(*                                                                         *)
(* Three parties interleave: a recorder, which captures evidence and then  *)
(* writes the four state files one after the other (the caller the         *)
(* architecture document describes, steps 4 to 6); verify-run, which reads *)
(* them one after the other and hashes the workspace file by file; and an  *)
(* editor, who changes the workspace at any moment.  The recorder may      *)
(* crash between any two steps.  Each state file is one register, which is *)
(* what StateFile implements.                                              *)
(***************************************************************************)
EXTENDS EvidenceVM, FiniteSets

CONSTANTS
  Files,          \* workspace files
  Contents,       \* what a file may hold
  NoFile,         \* a workspace file or a state file that is not there
  InitialTree,
  EvidenceIds,
  Outcomes,       \* [evidence_type, exit_status, timed_out] a capture may have
  ClaimRefs,      \* the evidence_refs of each claim
  MaxEdits,       \* bound on the editor
  MaxRecordings   \* bound on recordings of this run id

Claims == DOMAIN ClaimRefs

(* Functions on some of S.                                                 *)
Partial(S, T) == UNION {[D -> T] : D \in SUBSET S}

ASSUME NoFileAssumption ==
  NoFile \notin Contents /\ NoFile \notin Partial(Claims, Statuses)
ASSUME OutcomesAssumption ==
  Outcomes \subseteq [evidence_type : EvidenceTypes, exit_status : {NullExit, 0, 1},
                      timed_out : BOOLEAN]
ASSUME BoundsAssumption == MaxEdits \in Nat
ASSUME InitialTreeAssumption == InitialTree \in [Files -> Contents \cup {NoFile}]

VARIABLES
  tree,       \* the workspace
  edits,      \* edits so far
  scan,       \* hashWorkspaceTree in progress, for each of its two callers
  rec,        \* the recorder: where it is, and its vm, claims and verdicts
  disk,       \* the four state files
  ver,        \* verify-run: where it is, what it has read, what it said
  met         \* history: trees there have been since verify-run began

vars == <<tree, edits, scan, rec, disk, ver, met>>

Trees == [Files -> Contents \cup {NoFile}]
Record == [evidence_type : EvidenceTypes, exit_status : {NullExit, 0, 1},
           timed_out : BOOLEAN, tree : Trees]

Manifests == [finalize_tree : Trees, state : {"finalized"}]

EmptyStore == [manifest |-> NoFile, evidence |-> NoFile,
               claims |-> NoFile, evaluations |-> NoFile]

NoScan == [todo |-> {}, seen |-> [f \in Files |-> NoFile]]

(* The recorder at the start of a recording.                               *)
Fresh(n) == [pc |-> "working", records |-> <<>>, finalize |-> NoScan.seen,
             claims |-> {}, evaluations |-> <<>>, recordings |-> n]

Init ==
  /\ tree = InitialTree
  /\ edits = 0
  /\ scan = [a \in {"recorder", "verifier"} |-> NoScan]
  /\ rec = Fresh(1)
  /\ disk = EmptyStore
  /\ ver = [pc |-> "idle", strong |-> FALSE, got |-> EmptyStore,
            exitCode |-> NullExit, treeChanged |-> FALSE, now |-> <<>>,
            regressions |-> {}]
  /\ met = {}

-----------------------------------------------------------------------------
(* The editor.                                                             *)
Edit(f, content) ==
  /\ edits < MaxEdits
  /\ content # tree[f]
  /\ tree' = [tree EXCEPT ![f] = content]
  /\ edits' = edits + 1
  /\ met' = IF ver.pc = "idle" THEN met ELSE met \cup {tree'}
  /\ UNCHANGED <<scan, rec, disk, ver>>

-----------------------------------------------------------------------------
(* hashWorkspaceTree: readdir, then one readFile after the other.  A file  *)
(* that came after readdir is not seen; one that went is an error.         *)
ListTree(a) ==
  scan' = [scan EXCEPT ![a] = [todo |-> {f \in Files : tree[f] # NoFile},
                               seen |-> NoScan.seen]]

ScanFile(a) ==
  \E f \in scan[a].todo :
    /\ tree[f] # NoFile
    /\ scan' = [scan EXCEPT ![a] = [todo |-> @.todo \ {f},
                                    seen |-> [@.seen EXCEPT ![f] = tree[f]]]]

ScanThrows(a) ==
  /\ \E f \in scan[a].todo : tree[f] = NoFile
  /\ scan' = [scan EXCEPT ![a] = NoScan]

Scanned(a) == scan[a].todo = {}

-----------------------------------------------------------------------------
(* The recorder.                                                           *)

RecordStep(pc) == rec.pc = pc /\ UNCHANGED <<tree, edits, ver, met>>

(* Evidence is captured against the tree hashed after the command ran, and *)
(* the claims are evaluated against the tree hashed at the end.            *)
StartScan(purpose) ==
  /\ RecordStep("working")
  /\ ListTree("recorder")
  /\ rec' = [rec EXCEPT !.pc = purpose]
  /\ UNCHANGED disk

RecorderScans ==
  /\ rec.pc \in {"capturing", "finalizing"}
  /\ \/ ScanFile("recorder") /\ UNCHANGED rec
     \/ ScanThrows("recorder") /\ rec' = [rec EXCEPT !.pc = "working"]
  /\ UNCHANGED <<tree, edits, disk, ver, met>>

Capture(id, outcome) ==
  /\ RecordStep("capturing")
  /\ Scanned("recorder")
  /\ id \notin DOMAIN rec.records
  /\ rec' = [rec EXCEPT
       !.pc = "working",
       !.records = [i \in {id} \cup DOMAIN @ |->
          IF i = id THEN [evidence_type |-> outcome.evidence_type,
                          exit_status |-> outcome.exit_status,
                          timed_out |-> outcome.timed_out,
                          tree |-> scan["recorder"].seen]
                    ELSE @[i]]]
  /\ scan' = [scan EXCEPT !["recorder"] = NoScan]
  /\ UNCHANGED disk

(* Seeded fault: the finalize evaluation asks for strong evidence.         *)
EvaluateStrongly(claims) ==
  /\ RecordStep("finalizing")
  /\ Scanned("recorder")
  /\ rec' = [rec EXCEPT
       !.pc = "manifest",
       !.finalize = scan["recorder"].seen,
       !.claims = claims,
       !.evaluations = [c \in claims |->
          EvaluateClaim(ClaimRefs[c], scan["recorder"].seen, TRUE, rec.records)]]
  /\ scan' = [scan EXCEPT !["recorder"] = NoScan]
  /\ UNCHANGED disk

Evaluate(claims) ==
  /\ RecordStep("finalizing")
  /\ Scanned("recorder")
  /\ rec' = [rec EXCEPT
       !.pc = "manifest",
       !.finalize = scan["recorder"].seen,
       !.claims = claims,
       !.evaluations = [c \in claims |->
          EvaluateClaim(ClaimRefs[c], scan["recorder"].seen, FALSE, rec.records)]]
  /\ scan' = [scan EXCEPT !["recorder"] = NoScan]
  /\ UNCHANGED disk

(* One writeStateFile; the next one starts when it has resolved, and after *)
(* the last the process has nothing left to keep.                          *)
Writes(name, body, next) ==
  /\ RecordStep(name)
  /\ disk' = [disk EXCEPT ![name] = body]
  /\ rec' = IF next = "done" THEN [Fresh(rec.recordings) EXCEPT !.pc = next]
                             ELSE [rec EXCEPT !.pc = next]
  /\ UNCHANGED scan

WriteManifest ==
  Writes("manifest", [finalize_tree |-> rec.finalize, state |-> "finalized"], "evidence")
WriteEvidence == Writes("evidence", rec.records, "claims")
WriteClaims == Writes("claims", rec.claims, "evaluations")
WriteEvaluations == Writes("evaluations", rec.evaluations, "done")

(* The process dies: what it wrote stays, what it held is gone.            *)
Crash ==
  /\ rec.pc \notin {"done", "crashed"}
  /\ rec' = [Fresh(rec.recordings) EXCEPT !.pc = "crashed"]
  /\ scan' = [scan EXCEPT !["recorder"] = NoScan]
  /\ UNCHANGED <<tree, edits, disk, ver, met>>

(* Nothing in RunStore looks at the recorded state, so a run that is       *)
(* finalized can be recorded over under the same id.                       *)
RecordAgain ==
  /\ rec.pc \in {"done", "crashed"}
  /\ rec.recordings < MaxRecordings
  /\ rec' = Fresh(rec.recordings + 1)
  /\ UNCHANGED <<tree, edits, scan, disk, ver, met>>

Recorder ==
  \/ StartScan("capturing") \/ StartScan("finalizing")
  \/ RecorderScans
  \/ \E id \in EvidenceIds, outcome \in Outcomes : Capture(id, outcome)
  \/ \E claims \in SUBSET Claims : Evaluate(claims)
  \/ WriteManifest \/ WriteEvidence \/ WriteClaims \/ WriteEvaluations
  \/ Crash
  \/ RecordAgain

-----------------------------------------------------------------------------
(* verify-run.                                                             *)

VerifyRun(strong) ==
  /\ ver.pc = "idle"
  /\ ver' = [pc |-> "manifest", strong |-> strong, got |-> EmptyStore,
             exitCode |-> NullExit, treeChanged |-> FALSE, now |-> <<>>,
             regressions |-> {}]
  /\ met' = {tree}
  /\ UNCHANGED <<tree, edits, scan, rec, disk>>

(* The call rejects: exit code 1, and nothing is said of any claim.        *)
Rejects == [ver EXCEPT !.pc = "idle", !.exitCode = 1, !.got = EmptyStore]

(* One readStateFile; a file that is not there is an error.                *)
Reads(name, next) ==
  /\ ver.pc = name
  /\ ver' = IF disk[name] = NoFile THEN Rejects
                                   ELSE [ver EXCEPT !.got[name] = disk[name], !.pc = next]
  /\ UNCHANGED <<tree, edits, scan, rec, disk, met>>

ReadManifest == Reads("manifest", "evidence")
ReadEvidence == Reads("evidence", "claims")
ReadClaims == Reads("claims", "evaluations")
ReadEvaluations == Reads("evaluations", "listing")

(* Seeded fault: the tree of the manifest stands for the current one.      *)
VerifierTrustsManifest ==
  /\ ver.pc = "listing"
  /\ scan' = [scan EXCEPT !["verifier"].seen = ver.got.manifest.finalize_tree]
  /\ ver' = [ver EXCEPT !.pc = "hashing"]
  /\ UNCHANGED <<tree, edits, rec, disk, met>>

VerifierLists ==
  /\ ver.pc = "listing"
  /\ ListTree("verifier")
  /\ ver' = [ver EXCEPT !.pc = "hashing"]
  /\ UNCHANGED <<tree, edits, rec, disk, met>>

(* Seeded fault: a file that went is waited for.                           *)
VerifierWaits ==
  /\ ver.pc = "hashing"
  /\ ScanFile("verifier")
  /\ UNCHANGED <<tree, edits, rec, disk, ver, met>>

VerifierScans ==
  /\ ver.pc = "hashing"
  /\ \/ ScanFile("verifier") /\ UNCHANGED ver
     \/ ScanThrows("verifier") /\ ver' = Rejects
  /\ UNCHANGED <<tree, edits, rec, disk, met>>

(* The status each claim has now, against the tree just hashed.            *)
Reevaluations(currentTree) ==
  [c \in ver.got.claims |->
     EvaluateClaim(ClaimRefs[c], currentTree, ver.strong, ver.got.evidence)]

RegressionsIn(now) ==
  {c \in DOMAIN now \cap DOMAIN ver.got.evaluations :
     ver.got.evaluations[c] = "supported" /\ now[c] # "supported"}

AllSupported(now) ==
  DOMAIN now # {} /\ \A c \in DOMAIN now : now[c] = "supported"

Conclude ==
  /\ ver.pc = "hashing"
  /\ Scanned("verifier")
  /\ LET currentTree == scan["verifier"].seen
         now == Reevaluations(currentTree)
     IN ver' = [ver EXCEPT
                  !.pc = "idle",
                  !.now = now,
                  !.regressions = RegressionsIn(now),
                  !.treeChanged = ver.got.manifest.finalize_tree # currentTree,
                  !.exitCode = IF AllSupported(now) THEN 0 ELSE 5]
  /\ scan' = [scan EXCEPT !["verifier"] = NoScan]
  /\ UNCHANGED <<tree, edits, rec, disk, met>>

Verifier ==
  \/ ReadManifest \/ ReadEvidence \/ ReadClaims \/ ReadEvaluations
  \/ VerifierLists \/ VerifierScans
  \/ Conclude

Next ==
  \/ \E f \in Files, content \in Contents \cup {NoFile} : Edit(f, content)
  \/ Recorder
  \/ \E strong \in BOOLEAN : VerifyRun(strong)
  \/ Verifier

(* verify-run is one process reading files: its reads return.              *)
Fairness == WF_vars(Verifier)

Spec == Init /\ [][Next]_vars /\ Fairness

-----------------------------------------------------------------------------
Scans == [todo : SUBSET Files, seen : Trees]

Store == [manifest : Manifests \cup {NoFile},
          evidence : Partial(EvidenceIds, Record) \cup {NoFile},
          claims : (SUBSET Claims) \cup {NoFile},
          evaluations : Partial(Claims, Statuses) \cup {NoFile}]

Recording == [pc : {"working", "capturing", "finalizing", "done", "crashed"}
                     \cup DOMAIN EmptyStore,
              records : Partial(EvidenceIds, Record), finalize : Trees,
              claims : SUBSET Claims, evaluations : Partial(Claims, Statuses),
              recordings : Nat]

Verification == [pc : {"idle", "listing", "hashing"} \cup DOMAIN EmptyStore,
                 strong : BOOLEAN, got : Store, exitCode : {NullExit, 0, 1, 5},
                 treeChanged : BOOLEAN, now : Partial(Claims, Statuses),
                 regressions : SUBSET Claims]

TypeOK ==
  /\ tree \in Trees
  /\ edits \in 0..MaxEdits
  /\ scan \in [{"recorder", "verifier"} -> Scans]
  /\ rec \in Recording
  /\ disk \in Store
  /\ ver \in Verification
  /\ met \subseteq Trees

Confirmed == ver.pc = "idle" /\ ver.exitCode = 0
Concluded == ver.pc = "idle" /\ ver.exitCode \in {0, 5}

(* A green verify-run speaks of the workspace as it is: every file that    *)
(* the evidence was taken against had that content at some moment of this  *)
(* very run, not of the recording (run-store.ts:135).                      *)
GreenIsFresh ==
  Confirmed =>
    \A c \in DOMAIN ver.now : \A id \in ClaimRefs[c] : \A f \in Files :
      \E t \in met : t[f] = ver.got.evidence[id].tree[f]

(* A green verify-run has for every claim evidence that ran to a zero      *)
(* exit, and with --require-strong something other than an exit code, in   *)
(* whatever order evaluateClaim asks (evidence.ts:138-204).                *)
GreenIsSupported ==
  Confirmed =>
    /\ ver.got.claims # {}
    /\ \A c \in ver.got.claims :
         /\ ClaimRefs[c] # {}
         /\ \A id \in ClaimRefs[c] :
              /\ id \in DOMAIN ver.got.evidence
              /\ ver.got.evidence[id].exit_status = 0
              /\ ~ver.got.evidence[id].timed_out
         /\ ver.strong => \E id \in ClaimRefs[c] : ~Weak(ver.got.evidence[id])

(* As long as every recording of the run was cut short, verify-run gives   *)
(* no verdict but an error, whatever the torn recordings left behind: the  *)
(* file written last is there when one was completed (run-store.ts:127).   *)
CutShortIsAnError == Concluded => disk.evaluations # NoFile

(* With nothing changed since finalize and nothing more asked, verify-run  *)
(* gives back exactly the verdicts that were recorded; so a regression is  *)
(* always explained by a changed tree, by --require-strong, or by a second *)
(* recording that was read half-way (run-store.ts:136-149).                *)
UnchangedTreeReproduces ==
  Concluded /\ rec.recordings = 1 /\ ~ver.treeChanged /\ ~ver.strong =>
    /\ ver.now = ver.got.evaluations
    /\ ver.regressions = {}

(* Every verify-run ends, also while files come and go under it.           *)
VerifyReturns == ver.pc # "idle" ~> ver.pc = "idle"
=============================================================================
