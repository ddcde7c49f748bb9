--------------------------- MODULE RunStoreProofs ----------------------------
(***************************************************************************)
(* RunStore for any files, evidence and claims and any number of edits:    *)
(* the state is typed, a green verify-run rests on evidence that supports  *)
(* every claim, and recordings that were all cut short yield no verdict.   *)
(* The last needs to know that a verification that got past its four reads *)
(* has found all four files, and that files are never removed.  Two more   *)
(* invariants rest on that one: what verify-run has hashed was there while *)
(* it ran, so that a green one is fresh; and a run id that is recorded     *)
(* once writes no file twice, so that verify-run gives back its verdicts.  *)
(***************************************************************************)
EXTENDS RunStore, TLAPS

(* What verify-run has read, and the file written last.                    *)
ReadsAreThere ==
  /\ ver.pc \in {"listing", "hashing"} => disk.evaluations # NoFile
  /\ ver.pc \in {"evaluations", "listing", "hashing"} => ver.got.claims # NoFile
  /\ CutShortIsAnError

IInv == TypeOK /\ ReadsAreThere /\ GreenIsSupported

-----------------------------------------------------------------------------
LEMMA StatusTyped ==
  ASSUME NEW refs, NEW currentTree, NEW strong, NEW records
  PROVE  EvaluateClaim(refs, currentTree, strong, records) \in Statuses
<1> QED
  BY DEF EvaluateClaim, Statuses

LEMMA InPartial ==
  ASSUME NEW S, NEW T, NEW D \in SUBSET S, NEW f \in [D -> T]
  PROVE  f \in Partial(S, T)
<1> QED
  BY DEF Partial

LEMMA EmptyPartial == ASSUME NEW S, NEW T PROVE <<>> \in Partial(S, T)
<1>1. <<>> \in [{} -> T]
  OBVIOUS
<1> QED
  BY <1>1, InPartial

(* One more record.                                                        *)
LEMMA ExtendPartial ==
  ASSUME NEW S, NEW T, NEW f \in Partial(S, T), NEW x \in S, NEW y \in T
  PROVE  [i \in {x} \cup DOMAIN f |-> IF i = x THEN y ELSE f[i]] \in Partial(S, T)
<1>1. PICK D \in SUBSET S : f \in [D -> T]
  BY DEF Partial
<1>2. DOMAIN f = D /\ {x} \cup D \in SUBSET S
  BY <1>1
<1>3. [i \in {x} \cup D |-> IF i = x THEN y ELSE f[i]] \in [{x} \cup D -> T]
  BY <1>1
<1> QED
  BY <1>2, <1>3, InPartial

LEMMA VerdictsTyped ==
  ASSUME NEW claims \in SUBSET Claims, NEW currentTree, NEW strong, NEW records
  PROVE  [c \in claims |-> EvaluateClaim(ClaimRefs[c], currentTree, strong, records)]
            \in Partial(Claims, Statuses)
<1>1. [c \in claims |-> EvaluateClaim(ClaimRefs[c], currentTree, strong, records)]
        \in [claims -> Statuses]
  BY StatusTyped
<1> QED
  BY <1>1, InPartial

LEMMA FreshTyped == \A n \in Nat : Fresh(n) \in Recording
<1>1. NoScan.seen \in Trees
  BY DEF NoScan, Trees
<1> QED
  BY <1>1, EmptyPartial DEF Fresh, Recording

LEMMA EmptyStoreTyped == EmptyStore \in Store
<1> QED
  BY DEF EmptyStore, Store

-----------------------------------------------------------------------------
LEMMA NoScanTyped == NoScan \in Scans
<1> QED
  BY DEF NoScan, Scans, Trees

(* The steps of hashWorkspaceTree.                                         *)
LEMMA ScanTyped ==
  ASSUME TypeOK, NEW a \in {"recorder", "verifier"},
         \/ ListTree(a) \/ ScanFile(a) \/ ScanThrows(a)
         \/ scan' = [scan EXCEPT ![a] = NoScan]
  PROVE  scan' \in [{"recorder", "verifier"} -> Scans]
<1>1. /\ scan \in [{"recorder", "verifier"} -> Scans]
      /\ tree \in [Files -> Contents \cup {NoFile}]
  BY DEF TypeOK, Trees
<1>2. \E s \in Scans : scan' = [scan EXCEPT ![a] = s]
  <2>1. CASE ListTree(a)
    BY <1>1, <2>1, NoScanTyped DEF ListTree, Scans, NoScan
  <2>2. CASE ScanFile(a)
    <3>1. PICK f \in scan[a].todo :
            scan' = [scan EXCEPT ![a] = [todo |-> @.todo \ {f},
                                         seen |-> [@.seen EXCEPT ![f] = tree[f]]]]
      BY <2>2 DEF ScanFile
    <3>2. scan[a].todo \in SUBSET Files /\ scan[a].seen \in Trees /\ f \in Files
      BY <1>1 DEF Scans
    <3>3. [scan[a].seen EXCEPT ![f] = tree[f]] \in Trees
      BY <1>1, <3>2 DEF Trees
    <3>4. [todo |-> scan[a].todo \ {f}, seen |-> [scan[a].seen EXCEPT ![f] = tree[f]]] \in Scans
      BY <3>2, <3>3 DEF Scans
    <3> QED
      BY <1>1, <3>1, <3>4
  <2>3. CASE ScanThrows(a) \/ scan' = [scan EXCEPT ![a] = NoScan]
    BY <2>3, NoScanTyped DEF ScanThrows
  <2> QED
    BY <2>1, <2>2, <2>3
<1> QED
  BY <1>1, <1>2

(* A step that leaves the verifier and the disk alone.                     *)
LEMMA AsideIInv ==
  ASSUME IInv, TypeOK', ver' = ver,
         disk' = disk \/ (disk.evaluations # NoFile => disk'.evaluations # NoFile)
  PROVE  IInv'
<1>1. GreenIsSupported'
  BY DEF IInv, GreenIsSupported, Confirmed
<1>2. ReadsAreThere'
  BY DEF IInv, ReadsAreThere, CutShortIsAnError, Concluded
<1> QED
  BY <1>1, <1>2 DEF IInv

LEMMA EditIInv ==
  ASSUME IInv, NEW f \in Files, NEW content \in Contents \cup {NoFile}, Edit(f, content)
  PROVE  IInv'
<1>1. tree' \in Trees
  BY DEF Edit, IInv, TypeOK, Trees
<1>2. edits' \in 0..MaxEdits
  BY BoundsAssumption DEF Edit, IInv, TypeOK
<1>3. met' \subseteq Trees
  BY <1>1 DEF Edit, IInv, TypeOK
<1>4. TypeOK'
  BY <1>1, <1>2, <1>3 DEF Edit, IInv, TypeOK
<1> QED
  BY <1>4, AsideIInv DEF Edit

-----------------------------------------------------------------------------
(* What a step of the recorder leaves typed besides its own state.         *)
LEMMA RecorderTyped ==
  ASSUME TypeOK, UNCHANGED <<tree, edits, ver, met>>,
         scan' \in [{"recorder", "verifier"} -> Scans],
         rec' \in Recording, disk' \in Store
  PROVE  TypeOK'
<1> QED
  BY DEF TypeOK

LEMMA ScanningIInv ==
  ASSUME IInv,
         \/ StartScan("capturing") \/ StartScan("finalizing") \/ RecorderScans
  PROVE  IInv'
<1>1. /\ UNCHANGED <<tree, edits, ver, met, disk>>
      /\ \/ ListTree("recorder") \/ ScanFile("recorder") \/ ScanThrows("recorder")
      /\ \/ rec' = rec
         \/ \E pc \in {"capturing", "finalizing", "working"} : rec' = [rec EXCEPT !.pc = pc]
  BY DEF StartScan, RecordStep, RecorderScans
<1>2. rec' \in Recording
  BY <1>1 DEF IInv, TypeOK, Recording
<1>3. scan' \in [{"recorder", "verifier"} -> Scans]
  BY <1>1, ScanTyped DEF IInv
<1>4. TypeOK'
  BY <1>1, <1>2, <1>3, RecorderTyped DEF IInv, TypeOK
<1> QED
  BY <1>1, <1>4, AsideIInv

LEMMA CaptureIInv ==
  ASSUME IInv, NEW id \in EvidenceIds, NEW outcome \in Outcomes, Capture(id, outcome)
  PROVE  IInv'
<1> DEFINE record == [evidence_type |-> outcome.evidence_type,
                      exit_status |-> outcome.exit_status,
                      timed_out |-> outcome.timed_out,
                      tree |-> scan["recorder"].seen]
           records == [i \in {id} \cup DOMAIN rec.records |->
                         IF i = id THEN record ELSE rec.records[i]]
<1>1. rec \in Recording /\ scan["recorder"] \in Scans
  BY DEF IInv, TypeOK
<1>2. record \in Record
  BY <1>1, OutcomesAssumption DEF Record, Scans
<1>3. records \in Partial(EvidenceIds, Record)
  <2>1. rec.records \in Partial(EvidenceIds, Record)
    BY <1>1 DEF Recording
  <2> HIDE DEF record
  <2> QED
    BY <1>2, <2>1, ExtendPartial
<1>4. rec' = [rec EXCEPT !.pc = "working", !.records = records]
  BY <1>1 DEF Capture, Recording
<1> HIDE DEF records
<1>5. rec' \in Recording
  BY <1>1, <1>3, <1>4 DEF Recording
<1>6. scan' \in [{"recorder", "verifier"} -> Scans]
  BY ScanTyped DEF Capture, IInv
<1>7. UNCHANGED <<tree, edits, ver, met, disk>>
  BY DEF Capture, RecordStep
<1>8. TypeOK'
  BY <1>5, <1>6, <1>7, RecorderTyped DEF IInv, TypeOK
<1> QED
  BY <1>7, <1>8, AsideIInv

LEMMA EvaluateIInv ==
  ASSUME IInv, NEW claims \in SUBSET Claims, Evaluate(claims)
  PROVE  IInv'
<1> DEFINE seen == scan["recorder"].seen
           verdicts == [c \in claims |->
                          EvaluateClaim(ClaimRefs[c], seen, FALSE, rec.records)]
<1>1. rec \in Recording /\ seen \in Trees
  BY DEF IInv, TypeOK, Scans
<1>2. verdicts \in Partial(Claims, Statuses)
  BY VerdictsTyped
<1>3. rec' = [rec EXCEPT !.pc = "manifest", !.finalize = seen, !.claims = claims,
                         !.evaluations = verdicts]
  BY DEF Evaluate
<1> HIDE DEF seen, verdicts
<1>4. rec' \in Recording
  BY <1>1, <1>2, <1>3 DEF Recording, EmptyStore
<1>5. scan' \in [{"recorder", "verifier"} -> Scans]
  BY ScanTyped DEF Evaluate, IInv
<1>6. UNCHANGED <<tree, edits, ver, met, disk>>
  BY DEF Evaluate, RecordStep
<1>7. TypeOK'
  BY <1>4, <1>5, <1>6, RecorderTyped DEF IInv, TypeOK
<1> QED
  BY <1>6, <1>7, AsideIInv

(* The four writes: none of them takes a file away.                        *)
LEMMA WriteIInv ==
  ASSUME IInv, WriteManifest \/ WriteEvidence \/ WriteClaims \/ WriteEvaluations
  PROVE  IInv'
<1>1. rec \in Recording /\ disk \in Store
  BY DEF IInv, TypeOK
<1>2. disk' \in Store /\ (disk.evaluations # NoFile => disk'.evaluations # NoFile)
  <2>1. CASE WriteManifest
    <3>1. [finalize_tree |-> rec.finalize, state |-> "finalized"] \in Manifests
      BY <1>1 DEF Manifests, Recording
    <3> QED
      BY <1>1, <2>1, <3>1 DEF WriteManifest, Writes, Store
  <2>2. CASE WriteEvidence
    BY <1>1, <2>2 DEF WriteEvidence, Writes, Store, Recording
  <2>3. CASE WriteClaims
    BY <1>1, <2>3 DEF WriteClaims, Writes, Store, Recording
  <2>4. CASE WriteEvaluations
    <3>1. rec.evaluations \in Partial(Claims, Statuses) /\ rec.evaluations # NoFile
      BY <1>1, NoFileAssumption DEF Recording
    <3> QED
      BY <1>1, <2>4, <3>1 DEF WriteEvaluations, Writes, Store
  <2> QED
    BY <2>1, <2>2, <2>3, <2>4
<1>3. rec' \in Recording
  <2>1. Fresh(rec.recordings) \in Recording
    BY <1>1, FreshTyped DEF Recording
  <2>2. \/ rec' = [Fresh(rec.recordings) EXCEPT !.pc = "done"]
        \/ \E pc \in {"evidence", "claims", "evaluations"} : rec' = [rec EXCEPT !.pc = pc]
    BY DEF WriteManifest, WriteEvidence, WriteClaims, WriteEvaluations, Writes
  <2> QED
    BY <1>1, <2>1, <2>2 DEF Recording, EmptyStore
<1>4. UNCHANGED <<tree, edits, ver, met, scan>>
  BY DEF WriteManifest, WriteEvidence, WriteClaims, WriteEvaluations, Writes, RecordStep
<1>5. TypeOK'
  BY <1>2, <1>3, <1>4, RecorderTyped DEF IInv, TypeOK
<1> QED
  BY <1>2, <1>4, <1>5, AsideIInv

LEMMA RestartIInv == ASSUME IInv, Crash \/ RecordAgain PROVE IInv'
<1>1. rec \in Recording
  BY DEF IInv, TypeOK
<1>2. rec.recordings \in Nat
  BY <1>1 DEF Recording
<1>3. Fresh(rec.recordings) \in Recording /\ Fresh(rec.recordings + 1) \in Recording
  BY <1>2, FreshTyped
<1>4. rec' \in Recording
  BY <1>3 DEF Crash, RecordAgain, Recording
<1>5. /\ UNCHANGED <<tree, edits, ver, met, disk>>
      /\ scan' = scan \/ scan' = [scan EXCEPT !["recorder"] = NoScan]
  BY DEF Crash, RecordAgain
<1>6. scan' \in [{"recorder", "verifier"} -> Scans]
  BY <1>5, ScanTyped DEF IInv, TypeOK
<1>7. TypeOK'
  BY <1>4, <1>5, <1>6, RecorderTyped DEF IInv, TypeOK
<1> QED
  BY <1>5, <1>7, AsideIInv

-----------------------------------------------------------------------------
(* A verify-run that is under way has said nothing yet, and one that       *)
(* rejected has said nothing of the claims.                                *)
LEMMA SilentIInv ==
  ASSUME IInv, TypeOK', UNCHANGED <<disk>>,
         ver'.pc # "idle" \/ ver'.exitCode = 1,
         ver'.pc \in {"listing", "hashing"} => disk.evaluations # NoFile,
         ver'.pc \in {"evaluations", "listing", "hashing"} => ver'.got.claims # NoFile
  PROVE  IInv'
<1>1. GreenIsSupported'
  BY DEF GreenIsSupported, Confirmed
<1>2. ReadsAreThere'
  BY DEF ReadsAreThere, CutShortIsAnError, Concluded
<1> QED
  BY <1>1, <1>2 DEF IInv

LEMMA RejectsTyped ==
  ASSUME TypeOK
  PROVE  Rejects \in Verification /\ Rejects.pc = "idle" /\ Rejects.exitCode = 1
<1>1. ver \in Verification
  BY DEF TypeOK
<1> QED
  BY <1>1, EmptyStoreTyped DEF Rejects, Verification

LEMMA VerifyRunIInv ==
  ASSUME IInv, NEW strong \in BOOLEAN, VerifyRun(strong)
  PROVE  IInv'
<1>1. ver' \in Verification /\ ver'.pc = "manifest"
  BY EmptyStoreTyped, EmptyPartial DEF VerifyRun, Verification, EmptyStore
<1>2. TypeOK'
  BY <1>1 DEF VerifyRun, IInv, TypeOK
<1> QED
  BY <1>1, <1>2, SilentIInv DEF VerifyRun

LEMMA ReadIInv ==
  ASSUME IInv, ReadManifest \/ ReadEvidence \/ ReadClaims \/ ReadEvaluations
  PROVE  IInv'
<1>1. ver \in Verification /\ disk \in Store
  BY DEF IInv, TypeOK
<1>2. /\ UNCHANGED <<tree, edits, scan, rec, disk, met>>
      /\ \/ ver' = Rejects
         \/ ver' = [ver EXCEPT !.got["manifest"] = disk["manifest"], !.pc = "evidence"]
         \/ ver' = [ver EXCEPT !.got["evidence"] = disk["evidence"], !.pc = "claims"]
         \/ /\ ver' = [ver EXCEPT !.got["claims"] = disk["claims"], !.pc = "evaluations"]
            /\ disk.claims # NoFile
         \/ /\ ver' = [ver EXCEPT !.got["evaluations"] = disk["evaluations"], !.pc = "listing"]
            /\ disk.evaluations # NoFile /\ ver.pc = "evaluations"
  BY DEF ReadManifest, ReadEvidence, ReadClaims, ReadEvaluations, Reads
<1>3. CASE ver' = Rejects
  <2>1. TypeOK'
    BY <1>2, <1>3, RejectsTyped DEF IInv, TypeOK
  <2> QED
    BY <1>2, <1>3, <2>1, RejectsTyped, SilentIInv DEF IInv
<1>4. ASSUME ver' # Rejects
      PROVE  /\ ver' \in Verification
             /\ ver'.pc # "idle"
             /\ ver'.pc \in {"listing", "hashing"} => disk.evaluations # NoFile
             /\ ver'.pc \in {"evaluations", "listing", "hashing"} => ver'.got.claims # NoFile
  <2>0. ver.got \in Store
    BY <1>1 DEF Verification
  <2>1. CASE ver' = [ver EXCEPT !.got["manifest"] = disk["manifest"], !.pc = "evidence"]
    BY <1>1, <2>0, <2>1 DEF Verification, Store, EmptyStore
  <2>2. CASE ver' = [ver EXCEPT !.got["evidence"] = disk["evidence"], !.pc = "claims"]
    BY <1>1, <2>0, <2>2 DEF Verification, Store, EmptyStore
  <2>3. CASE /\ ver' = [ver EXCEPT !.got["claims"] = disk["claims"], !.pc = "evaluations"]
             /\ disk.claims # NoFile
    BY <1>1, <2>0, <2>3 DEF Verification, Store, EmptyStore
  <2>4. CASE /\ ver' = [ver EXCEPT !.got["evaluations"] = disk["evaluations"],
                                  !.pc = "listing"]
             /\ disk.evaluations # NoFile /\ ver.pc = "evaluations"
    <3>1. ver.got.claims # NoFile
      BY <2>4 DEF IInv, ReadsAreThere
    <3> QED
      BY <1>1, <2>0, <2>4, <3>1 DEF Verification, Store, EmptyStore
  <2> QED
    BY <1>2, <1>4, <2>1, <2>2, <2>3, <2>4
<1>5. CASE ver' # Rejects
  <2>1. TypeOK'
    BY <1>2, <1>4, <1>5 DEF IInv, TypeOK
  <2> QED
    BY <1>2, <1>4, <1>5, <2>1, SilentIInv
<1> QED
  BY <1>3, <1>5

LEMMA HashIInv == ASSUME IInv, VerifierLists \/ VerifierScans PROVE IInv'
<1>1. ver \in Verification
  BY DEF IInv, TypeOK
<1>2. /\ UNCHANGED <<tree, edits, rec, disk, met>>
      /\ ListTree("verifier") \/ ScanFile("verifier") \/ ScanThrows("verifier")
      /\ ver.pc \in {"listing", "hashing"}
      /\ ver' = Rejects \/ ver' = ver \/ ver' = [ver EXCEPT !.pc = "hashing"]
      /\ ver' = ver => ver.pc = "hashing"
  <2>1. CASE VerifierLists
    BY <1>1, <2>1 DEF VerifierLists, Verification
  <2>2. CASE VerifierScans
    BY <2>2 DEF VerifierScans
  <2> QED
    BY <2>1, <2>2
<1>3. scan' \in [{"recorder", "verifier"} -> Scans]
  BY <1>2, ScanTyped DEF IInv
<1>4. ver' \in Verification
  BY <1>1, <1>2, RejectsTyped DEF IInv, Verification
<1>5. TypeOK'
  BY <1>2, <1>3, <1>4 DEF IInv, TypeOK
<1>6. ver'.pc # "idle" \/ ver'.exitCode = 1
  BY <1>1, <1>2, RejectsTyped DEF IInv, Verification
<1>7. disk.evaluations # NoFile /\ ver.got.claims # NoFile
  BY <1>2 DEF IInv, ReadsAreThere
<1>8. ver'.pc = "hashing" => ver'.got.claims # NoFile
  BY <1>1, <1>2, <1>7, RejectsTyped DEF IInv, Verification
<1>9. ver'.pc \in {"idle", "hashing"}
  BY <1>1, <1>2, RejectsTyped DEF IInv, Verification
<1> QED
  BY <1>2, <1>5, <1>6, <1>7, <1>8, <1>9, SilentIInv

(* evaluateClaim says "supported" only of evidence that is there, ran to a *)
(* zero exit, and is not all weak when strong evidence was asked for.      *)
LEMMA SupportedMeans ==
  ASSUME NEW refs, NEW currentTree, NEW strong \in BOOLEAN, NEW records,
         EvaluateClaim(refs, currentTree, strong, records) = "supported"
  PROVE  /\ refs # {} /\ refs \subseteq DOMAIN records
         /\ \A id \in refs : records[id].exit_status = 0 /\ ~records[id].timed_out
         /\ strong => \E id \in refs : ~Weak(records[id])
<1> DEFINE missing == refs \ DOMAIN records
           evidence == {records[id] : id \in refs \cap DOMAIN records}
<1>1. /\ ~(refs = {} \/ missing # {})
      /\ ~\E r \in evidence : r.tree # currentTree
      /\ ~\E r \in evidence : Contradictory(r)
      /\ ~\E r \in evidence : Failed(r)
      /\ ~(strong /\ \A r \in evidence : Weak(r))
  BY DEF EvaluateClaim
<1>2. \A id \in refs : records[id] \in evidence
  BY <1>1
<1>3. \A r \in evidence : r.exit_status = 0 /\ ~r.timed_out
  BY <1>1 DEF Failed
<1>4. strong => \E id \in refs : ~Weak(records[id])
  BY <1>1
<1> QED
  BY <1>1, <1>2, <1>3, <1>4

LEMMA ConcludeIInv == ASSUME IInv, Conclude PROVE IInv'
<1> DEFINE currentTree == scan["verifier"].seen
           now == Reevaluations(currentTree)
<1>1. ver \in Verification /\ disk.evaluations # NoFile
  BY DEF IInv, TypeOK, Conclude, ReadsAreThere
<1>2. ver.got.claims \in SUBSET Claims
  BY <1>1 DEF Verification, Store, IInv, ReadsAreThere, Conclude
<1>3. ver' = [ver EXCEPT !.pc = "idle", !.now = now, !.regressions = RegressionsIn(now),
                         !.treeChanged = ver.got.manifest.finalize_tree # currentTree,
                         !.exitCode = IF AllSupported(now) THEN 0 ELSE 5]
  BY DEF Conclude
<1>4. /\ now = [c \in ver.got.claims |->
                  EvaluateClaim(ClaimRefs[c], currentTree, ver.strong, ver.got.evidence)]
      /\ now \in Partial(Claims, Statuses) /\ DOMAIN now = ver.got.claims
  BY <1>2, VerdictsTyped DEF Reevaluations
<1>5. RegressionsIn(now) \in SUBSET Claims
  BY <1>2, <1>4 DEF RegressionsIn
<1> HIDE DEF now, currentTree
<1>6. ver' \in Verification
  BY <1>1, <1>3, <1>4, <1>5 DEF Verification
<1>7. /\ UNCHANGED <<tree, edits, rec, disk, met>>
      /\ scan' \in [{"recorder", "verifier"} -> Scans]
  BY ScanTyped DEF Conclude, IInv
<1>8. TypeOK'
  BY <1>6, <1>7 DEF IInv, TypeOK
<1>9. /\ ver'.pc = "idle" /\ ver'.strong = ver.strong /\ ver'.got = ver.got
      /\ ver.strong \in BOOLEAN
      /\ ver'.exitCode = 0 => AllSupported(now)
  BY <1>1, <1>3 DEF Verification
<1>10. GreenIsSupported'
  <2> SUFFICES ASSUME ver'.exitCode = 0
               PROVE  /\ ver'.got.claims # {}
                      /\ \A c \in ver'.got.claims :
                           /\ ClaimRefs[c] # {}
                           /\ \A id \in ClaimRefs[c] :
                                /\ id \in DOMAIN ver'.got.evidence
                                /\ ver'.got.evidence[id].exit_status = 0
                                /\ ~ver'.got.evidence[id].timed_out
                           /\ ver'.strong =>
                                \E id \in ClaimRefs[c] : ~Weak(ver'.got.evidence[id])
    BY DEF GreenIsSupported, Confirmed
  <2>1. ver.got.claims # {} /\ \A c \in ver.got.claims : now[c] = "supported"
    BY <1>4, <1>9 DEF AllSupported
  <2>2. \A c \in ver.got.claims :
          EvaluateClaim(ClaimRefs[c], currentTree, ver.strong, ver.got.evidence) = "supported"
    BY <1>4, <2>1
  <2>3. ASSUME NEW c \in ver.got.claims
        PROVE  /\ ClaimRefs[c] # {} /\ ClaimRefs[c] \subseteq DOMAIN ver.got.evidence
               /\ \A id \in ClaimRefs[c] : /\ ver.got.evidence[id].exit_status = 0
                                           /\ ~ver.got.evidence[id].timed_out
               /\ ver.strong => \E id \in ClaimRefs[c] : ~Weak(ver.got.evidence[id])
    BY <1>9, <2>2, SupportedMeans
  <2> QED
    BY <1>9, <2>1, <2>3
<1>11. ReadsAreThere'
  BY <1>1, <1>7, <1>9 DEF ReadsAreThere, CutShortIsAnError
<1> QED
  BY <1>8, <1>10, <1>11 DEF IInv

-----------------------------------------------------------------------------
LEMMA InitIInv == Init => IInv
<1> SUFFICES ASSUME Init PROVE IInv
  OBVIOUS
<1>1. scan \in [{"recorder", "verifier"} -> Scans]
  BY NoScanTyped DEF Init
<1>2. rec \in Recording
  BY FreshTyped DEF Init
<1>3. ver \in Verification
  BY EmptyStoreTyped, EmptyPartial DEF Init, Verification
<1>4. TypeOK
  BY <1>1, <1>2, <1>3, EmptyStoreTyped, InitialTreeAssumption, BoundsAssumption
     DEF Init, TypeOK, Trees
<1>5. ver.pc = "idle" /\ ver.exitCode = -1
  BY DEF Init, NullExit
<1> QED
  BY <1>4, <1>5
     DEF IInv, ReadsAreThere, CutShortIsAnError, GreenIsSupported, Confirmed, Concluded

LEMMA RecorderIInv == ASSUME IInv, Recorder PROVE IInv'
<1>1. CASE StartScan("capturing") \/ StartScan("finalizing") \/ RecorderScans
  BY <1>1, ScanningIInv
<1>2. CASE \E id \in EvidenceIds, outcome \in Outcomes : Capture(id, outcome)
  BY <1>2, CaptureIInv
<1>3. CASE \E claims \in SUBSET Claims : Evaluate(claims)
  BY <1>3, EvaluateIInv
<1>4. CASE WriteManifest \/ WriteEvidence \/ WriteClaims \/ WriteEvaluations
  BY <1>4, WriteIInv
<1>5. CASE Crash \/ RecordAgain
  BY <1>5, RestartIInv
<1> QED
  BY <1>1, <1>2, <1>3, <1>4, <1>5 DEF Recorder

LEMMA VerifierIInv == ASSUME IInv, Verifier PROVE IInv'
<1>1. CASE ReadManifest \/ ReadEvidence \/ ReadClaims \/ ReadEvaluations
  BY <1>1, ReadIInv
<1>2. CASE VerifierLists \/ VerifierScans
  BY <1>2, HashIInv
<1>3. CASE Conclude
  BY <1>3, ConcludeIInv
<1> QED
  BY <1>1, <1>2, <1>3 DEF Verifier

LEMMA NextIInv == IInv /\ [Next]_vars => IInv'
<1> SUFFICES ASSUME IInv, [Next]_vars PROVE IInv'
  OBVIOUS
<1>1. CASE \E f \in Files, content \in Contents \cup {NoFile} : Edit(f, content)
  BY <1>1, EditIInv
<1>2. CASE Recorder
  BY <1>2, RecorderIInv
<1>3. CASE \E strong \in BOOLEAN : VerifyRun(strong)
  BY <1>3, VerifyRunIInv
<1>4. CASE Verifier
  BY <1>4, VerifierIInv
<1>5. CASE UNCHANGED vars
  BY <1>5 DEF vars, IInv, TypeOK, ReadsAreThere, CutShortIsAnError, GreenIsSupported,
              Confirmed, Concluded
<1> QED
  BY <1>1, <1>2, <1>3, <1>4, <1>5 DEF Next

LEMMA AlwaysIInv == Spec => []IInv
BY InitIInv, NextIInv, PTL DEF Spec

-----------------------------------------------------------------------------
(* The workspace, the four files, the recorder and verify-run are typed,   *)
(* whatever is edited, crashes or is recorded over (run-store.ts).         *)
THEOREM TypeCorrect == Spec => []TypeOK
<1>1. IInv => TypeOK
  BY DEF IInv
<1> QED
  BY <1>1, AlwaysIInv, PTL

(* An exit code 0 of verify-run has evidence that ran to a zero exit       *)
(* behind every claim, and stronger than an exit code where that was asked *)
(* for (run-store.ts:127-151 over evidence.ts:138-204).                    *)
THEOREM GreenSupported == Spec => []GreenIsSupported
<1>1. IInv => GreenIsSupported
  BY DEF IInv
<1> QED
  BY <1>1, AlwaysIInv, PTL

(* Torn recordings give an error and no verdict (run-store.ts:127).        *)
THEOREM CutShortErrs == Spec => []CutShortIsAnError
<1>1. IInv => CutShortIsAnError
  BY DEF IInv, ReadsAreThere
<1> QED
  BY <1>1, AlwaysIInv, PTL

-----------------------------------------------------------------------------
(***************************************************************************)
(* What verify-run has hashed was there while it ran: every file it is     *)
(* done with had the content it saw in some tree it has met.               *)
(***************************************************************************)
SeenIsMet ==
  /\ ver.pc # "idle" => tree \in met
  /\ ver.pc = "hashing" =>
       \A f \in Files \ scan["verifier"].todo : \E t \in met : t[f] = scan["verifier"].seen[f]

FreshInv == SeenIsMet /\ GreenIsFresh

(* A step that leaves the verifier and its hashing alone only adds trees.  *)
LEMMA AsideFresh ==
  ASSUME FreshInv, ver' = ver, scan'["verifier"] = scan["verifier"],
         \/ UNCHANGED <<tree, met>>
         \/ met' = IF ver.pc = "idle" THEN met ELSE met \cup {tree'}
  PROVE  FreshInv'
<1>1. met \subseteq met' /\ (ver.pc # "idle" => tree' \in met')
  BY DEF FreshInv, SeenIsMet
<1>2. SeenIsMet'
  BY <1>1 DEF FreshInv, SeenIsMet
<1>3. GreenIsFresh'
  BY <1>1 DEF FreshInv, GreenIsFresh, Confirmed
<1> QED
  BY <1>2, <1>3 DEF FreshInv

LEMMA RecorderFresh == ASSUME IInv, FreshInv, Recorder PROVE FreshInv'
<1>1. scan \in [{"recorder", "verifier"} -> Scans]
  BY DEF IInv, TypeOK
<1>2. \/ scan' = scan
      \/ ListTree("recorder") \/ ScanFile("recorder") \/ ScanThrows("recorder")
      \/ scan' = [scan EXCEPT !["recorder"] = NoScan]
  BY DEF Recorder, StartScan, RecorderScans, Capture, Evaluate, WriteManifest, WriteEvidence,
         WriteClaims, WriteEvaluations, Writes, Crash, RecordAgain
<1>3. scan'["verifier"] = scan["verifier"]
  BY <1>1, <1>2 DEF ListTree, ScanFile, ScanThrows
<1>4. UNCHANGED <<tree, met, ver>>
  BY DEF Recorder, StartScan, RecorderScans, Capture, Evaluate, WriteManifest, WriteEvidence,
         WriteClaims, WriteEvaluations, Writes, RecordStep, Crash, RecordAgain
<1> QED
  BY <1>3, <1>4, AsideFresh

(* A verify-run on its way, or rejected, has confirmed nothing.            *)
LEMMA UnderWayFresh ==
  ASSUME SeenIsMet', ver'.pc # "idle" \/ ver'.exitCode # 0
  PROVE  FreshInv'
BY DEF FreshInv, GreenIsFresh, Confirmed

LEMMA StartFresh ==
  ASSUME NEW strong \in BOOLEAN, VerifyRun(strong)
  PROVE  FreshInv'
<1>1. ver'.pc = "manifest" /\ met' = {tree} /\ tree' = tree
  BY DEF VerifyRun
<1> QED
  BY <1>1, UnderWayFresh DEF SeenIsMet

LEMMA ReadFresh ==
  ASSUME IInv, FreshInv, ReadManifest \/ ReadEvidence \/ ReadClaims \/ ReadEvaluations
  PROVE  FreshInv'
<1>1. /\ UNCHANGED <<tree, met>> /\ ver.pc # "idle" /\ ver \in Verification
      /\ \/ ver' = Rejects
         \/ /\ ver'.pc \in {"evidence", "claims", "evaluations", "listing"}
  BY DEF ReadManifest, ReadEvidence, ReadClaims, ReadEvaluations, Reads, IInv, TypeOK,
         Verification
<1>2. Rejects.pc = "idle" /\ Rejects.exitCode = 1
  BY RejectsTyped DEF IInv
<1> QED
  BY <1>1, <1>2, UnderWayFresh DEF FreshInv, SeenIsMet

LEMMA HashFresh == ASSUME IInv, FreshInv, VerifierLists \/ VerifierScans PROVE FreshInv'
<1>0. /\ scan \in [{"recorder", "verifier"} -> Scans] /\ ver \in Verification
      /\ Rejects.pc = "idle" /\ Rejects.exitCode = 1
  BY RejectsTyped DEF IInv, TypeOK
<1>1. UNCHANGED <<tree, met>> /\ tree \in met
  BY DEF VerifierLists, VerifierScans, FreshInv, SeenIsMet
<1>2. CASE VerifierLists
  <2>1. ver'.pc = "hashing"
    BY <1>0, <1>2 DEF VerifierLists, Verification
  <2>2. scan'["verifier"] = [todo |-> {f \in Files : tree[f] # NoFile}, seen |-> NoScan.seen]
    BY <1>0, <1>2 DEF VerifierLists, ListTree
  <2>3. \A f \in Files \ scan'["verifier"].todo : tree[f] = scan'["verifier"].seen[f]
    BY <2>2 DEF NoScan
  <2> QED
    BY <1>1, <2>1, <2>3, UnderWayFresh DEF SeenIsMet
<1>3. CASE VerifierScans /\ ScanFile("verifier") /\ ver' = ver
  <2>1. PICK g \in scan["verifier"].todo :
          scan' = [scan EXCEPT !["verifier"] = [todo |-> @.todo \ {g},
                                                seen |-> [@.seen EXCEPT ![g] = tree[g]]]]
    BY <1>3 DEF ScanFile
  <2>2. scan["verifier"].todo \subseteq Files /\ scan["verifier"].seen \in [Files -> Contents \cup {NoFile}]
    BY <1>0 DEF Scans, Trees
  <2>3. /\ scan'["verifier"].todo = scan["verifier"].todo \ {g}
        /\ scan'["verifier"].seen = [scan["verifier"].seen EXCEPT ![g] = tree[g]]
    BY <1>0, <2>1
  <2>4. ASSUME NEW f \in Files \ scan'["verifier"].todo
        PROVE  \E t \in met : t[f] = scan'["verifier"].seen[f]
    <3>1. CASE f = g
      BY <1>1, <2>2, <2>3, <3>1
    <3>2. CASE f # g
      <4>1. f \in Files \ scan["verifier"].todo
        BY <2>3, <3>2
      <4> QED
        BY <1>3, <2>2, <2>3, <3>2, <4>1 DEF VerifierScans, FreshInv, SeenIsMet
    <3> QED
      BY <3>1, <3>2
  <2> QED
    BY <1>1, <1>3, <2>4, UnderWayFresh DEF SeenIsMet, VerifierScans
<1>4. CASE ver' = Rejects
  BY <1>0, <1>4, UnderWayFresh DEF SeenIsMet
<1> QED
  BY <1>2, <1>3, <1>4 DEF VerifierScans

(* A supported claim has only evidence of the tree it was evaluated        *)
(* against.                                                                *)
LEMMA SupportedIsCurrent ==
  ASSUME NEW refs, NEW currentTree, NEW strong \in BOOLEAN, NEW records,
         EvaluateClaim(refs, currentTree, strong, records) = "supported"
  PROVE  \A id \in refs : records[id].tree = currentTree
<1> DEFINE missing == refs \ DOMAIN records
           evidence == {records[id] : id \in refs \cap DOMAIN records}
<1>1. /\ ~(refs = {} \/ missing # {})
      /\ ~\E r \in evidence : r.tree # currentTree
  BY DEF EvaluateClaim
<1>2. \A id \in refs : records[id] \in evidence
  BY <1>1
<1> QED
  BY <1>1, <1>2

LEMMA ConcludeFresh == ASSUME IInv, FreshInv, Conclude PROVE FreshInv'
<1> DEFINE currentTree == scan["verifier"].seen
           now == Reevaluations(currentTree)
<1>1. /\ ver \in Verification /\ ver.pc = "hashing" /\ met' = met
      /\ \A f \in Files : \E t \in met : t[f] = currentTree[f]
  BY DEF IInv, TypeOK, Conclude, Scanned, FreshInv, SeenIsMet
<1>2. now = [c \in ver.got.claims |->
               EvaluateClaim(ClaimRefs[c], currentTree, ver.strong, ver.got.evidence)]
  BY DEF Reevaluations
<1>3. ver' = [ver EXCEPT !.pc = "idle", !.now = now, !.regressions = RegressionsIn(now),
                         !.treeChanged = ver.got.manifest.finalize_tree # currentTree,
                         !.exitCode = IF AllSupported(now) THEN 0 ELSE 5]
  BY DEF Conclude
<1> HIDE DEF now, currentTree
<1>4. /\ ver'.pc = "idle" /\ ver'.now = now /\ ver'.got = ver.got /\ ver.strong \in BOOLEAN
      /\ ver'.exitCode = 0 => AllSupported(now)
  BY <1>1, <1>3 DEF Verification
<1>5. ASSUME ver'.exitCode = 0, NEW c \in DOMAIN now, NEW id \in ClaimRefs[c], NEW f \in Files
      PROVE  \E t \in met : t[f] = ver.got.evidence[id].tree[f]
  <2>1. EvaluateClaim(ClaimRefs[c], currentTree, ver.strong, ver.got.evidence) = "supported"
    BY <1>2, <1>4, <1>5 DEF AllSupported
  <2>2. ver.got.evidence[id].tree = currentTree
    BY <1>4, <2>1, SupportedIsCurrent
  <2> QED
    BY <1>1, <2>2
<1>6. GreenIsFresh'
  BY <1>1, <1>4, <1>5 DEF GreenIsFresh, Confirmed
<1>7. SeenIsMet'
  BY <1>4 DEF SeenIsMet
<1> QED
  BY <1>6, <1>7 DEF FreshInv

LEMMA NextFresh == IInv /\ FreshInv /\ [Next]_vars => FreshInv'
<1> SUFFICES ASSUME IInv, FreshInv, [Next]_vars PROVE FreshInv'
  OBVIOUS
<1>1. CASE \E f \in Files, content \in Contents \cup {NoFile} : Edit(f, content)
  BY <1>1, AsideFresh DEF Edit
<1>2. CASE Recorder
  BY <1>2, RecorderFresh
<1>3. CASE \E strong \in BOOLEAN : VerifyRun(strong)
  BY <1>3, StartFresh
<1>4. CASE Verifier
  BY <1>4, ReadFresh, HashFresh, ConcludeFresh DEF Verifier
<1>5. CASE UNCHANGED vars
  BY <1>5, AsideFresh DEF vars
<1> QED
  BY <1>1, <1>2, <1>3, <1>4, <1>5 DEF Next

(* An exit code 0 of verify-run is about contents the workspace had while  *)
(* it ran, however many files there are and however they are edited        *)
(* (run-store.ts:135).                                                     *)
THEOREM GreenFresh == Spec => []GreenIsFresh
<1>1. Init => FreshInv
  BY DEF Init, FreshInv, SeenIsMet, GreenIsFresh, Confirmed, NullExit
<1>2. FreshInv => GreenIsFresh
  BY DEF FreshInv
<1> QED
  BY <1>1, <1>2, AlwaysIInv, NextFresh, PTL DEF Spec
-----------------------------------------------------------------------------
(***************************************************************************)
(* A run id that is recorded once: the files on disk are what the recorder *)
(* has got to writing, and what verify-run has read is what is there, for  *)
(* no file is written twice.                                               *)
(***************************************************************************)
Verdicts(claims, finalize, records) ==
  [c \in claims |-> EvaluateClaim(ClaimRefs[c], finalize, FALSE, records)]

FinalManifest == [finalize_tree |-> rec.finalize, state |-> "finalized"]

DiskFollowsRecorder ==
  /\ rec.pc \in {"working", "capturing", "finalizing", "manifest"} => disk = EmptyStore
  /\ rec.pc = "evidence" => disk = [EmptyStore EXCEPT !.manifest = FinalManifest]
  /\ rec.pc = "claims" =>
       disk = [EmptyStore EXCEPT !.manifest = FinalManifest, !.evidence = rec.records]
  /\ rec.pc = "evaluations" =>
       disk = [EmptyStore EXCEPT !.manifest = FinalManifest, !.evidence = rec.records,
                                 !.claims = rec.claims]
  /\ rec.pc \in DOMAIN EmptyStore =>
       rec.evaluations = Verdicts(rec.claims, rec.finalize, rec.records)

DiskIsVerdict ==
  disk.evaluations # NoFile =>
    disk.evaluations = Verdicts(disk.claims, disk.manifest.finalize_tree, disk.evidence)

(* The places of verify-run at which the named file has been read.         *)
Past(name) ==
  {"listing", "hashing"} \cup
  CASE name = "manifest" -> {"evidence", "claims", "evaluations"}
    [] name = "evidence" -> {"claims", "evaluations"}
    [] name = "claims" -> {"evaluations"}
    [] name = "evaluations" -> {}

ReadIsDisk ==
  \A name \in DOMAIN EmptyStore :
    ver.pc \in Past(name) => disk[name] # NoFile /\ ver.got[name] = disk[name]

OnceInv ==
  /\ rec.recordings \in Nat \ {0}
  /\ rec.recordings = 1 => DiskFollowsRecorder /\ DiskIsVerdict /\ ReadIsDisk
  /\ UnchangedTreeReproduces

LEMMA InitOnce == Init => OnceInv
<1> SUFFICES ASSUME Init PROVE OnceInv
  OBVIOUS
<1>1. rec.recordings = 1 /\ rec.pc = "working" /\ disk = EmptyStore
      /\ ver.pc = "idle" /\ ver.exitCode = -1
  BY DEF Init, Fresh, NullExit
<1>2. DiskFollowsRecorder /\ DiskIsVerdict
  BY <1>1 DEF DiskFollowsRecorder, DiskIsVerdict, EmptyStore
<1>3. ReadIsDisk
  BY <1>1 DEF ReadIsDisk, Past, EmptyStore
<1> QED
  BY <1>1, <1>2, <1>3 DEF OnceInv, UnchangedTreeReproduces, Concluded

(* The editor and the scans of the recorder.                               *)
LEMMA ScanningOnce ==
  ASSUME IInv, OnceInv, UNCHANGED <<disk, ver>>,
         \/ rec' = rec
         \/ /\ rec.pc \in {"working", "capturing", "finalizing"}
            /\ rec'.pc \in {"working", "capturing", "finalizing"}
            /\ rec'.recordings = rec.recordings
  PROVE  OnceInv'
<1>1. rec'.recordings = rec.recordings
  OBVIOUS
<1>2. DiskFollowsRecorder => DiskFollowsRecorder'
  BY DEF DiskFollowsRecorder, FinalManifest, EmptyStore
<1>3. DiskIsVerdict => DiskIsVerdict'
  BY DEF DiskIsVerdict
<1>4. ReadIsDisk => ReadIsDisk'
  BY DEF ReadIsDisk
<1> QED
  BY <1>1, <1>2, <1>3, <1>4 DEF OnceInv, UnchangedTreeReproduces, Concluded

LEMMA EvaluateOnce ==
  ASSUME IInv, OnceInv, NEW claims \in SUBSET Claims, Evaluate(claims)
  PROVE  OnceInv'
<1>1. rec \in Recording
  BY DEF IInv, TypeOK
<1>2. /\ rec'.pc = "manifest" /\ rec'.recordings = rec.recordings
      /\ rec'.evaluations = Verdicts(rec'.claims, rec'.finalize, rec'.records)
      /\ rec.pc = "finalizing" /\ UNCHANGED <<disk, ver>>
  BY <1>1 DEF Evaluate, RecordStep, Recording, Verdicts
<1>3. DiskFollowsRecorder => DiskFollowsRecorder'
  BY <1>2 DEF DiskFollowsRecorder, FinalManifest, EmptyStore
<1>4. DiskIsVerdict => DiskIsVerdict'
  BY <1>2 DEF DiskIsVerdict
<1>5. ReadIsDisk => ReadIsDisk'
  BY <1>2 DEF ReadIsDisk
<1> QED
  BY <1>2, <1>3, <1>4, <1>5 DEF OnceInv, UnchangedTreeReproduces, Concluded

(* A write fills in a file that was not there, so that no verify-run had   *)
(* read it.                                                                *)
LEMMA WriteOnce ==
  ASSUME IInv, OnceInv, WriteManifest \/ WriteEvidence \/ WriteClaims \/ WriteEvaluations
  PROVE  OnceInv'
<1>1. rec \in Recording /\ disk \in Store
  BY DEF IInv, TypeOK
<1>2. ver' = ver /\ rec'.recordings = rec.recordings
  BY <1>1 DEF WriteManifest, WriteEvidence, WriteClaims, WriteEvaluations, Writes, RecordStep,
              Fresh, Recording
<1>3. UnchangedTreeReproduces'
  BY <1>2 DEF OnceInv, UnchangedTreeReproduces, Concluded
<1>4. ASSUME rec.recordings = 1
      PROVE  DiskFollowsRecorder' /\ DiskIsVerdict' /\ ReadIsDisk'
  <2>0. DiskFollowsRecorder /\ DiskIsVerdict /\ ReadIsDisk
    BY <1>4 DEF OnceInv
  <2>1. CASE WriteManifest
    <3>1. /\ disk = EmptyStore /\ rec' = [rec EXCEPT !.pc = "evidence"]
          /\ disk' = [disk EXCEPT !.manifest = FinalManifest]
          /\ rec.evaluations = Verdicts(rec.claims, rec.finalize, rec.records)
      BY <2>0, <2>1 DEF WriteManifest, Writes, RecordStep, DiskFollowsRecorder, FinalManifest,
                        EmptyStore
    <3>2. DiskFollowsRecorder'
      BY <1>1, <3>1 DEF DiskFollowsRecorder, FinalManifest, EmptyStore, Recording
    <3> QED
      BY <1>2, <2>0, <3>1, <3>2 DEF DiskIsVerdict, ReadIsDisk, Past, EmptyStore
  <2>2. CASE WriteEvidence
    <3>1. /\ disk = [EmptyStore EXCEPT !.manifest = FinalManifest]
          /\ rec' = [rec EXCEPT !.pc = "claims"]
          /\ disk' = [disk EXCEPT !.evidence = rec.records]
          /\ rec.evaluations = Verdicts(rec.claims, rec.finalize, rec.records)
      BY <2>0, <2>2 DEF WriteEvidence, Writes, RecordStep, DiskFollowsRecorder, EmptyStore
    <3>2. DiskFollowsRecorder'
      BY <1>1, <3>1 DEF DiskFollowsRecorder, FinalManifest, EmptyStore, Recording
    <3> QED
      BY <1>2, <2>0, <3>1, <3>2 DEF DiskIsVerdict, ReadIsDisk, Past, EmptyStore
  <2>3. CASE WriteClaims
    <3>1. /\ disk = [EmptyStore EXCEPT !.manifest = FinalManifest, !.evidence = rec.records]
          /\ rec' = [rec EXCEPT !.pc = "evaluations"]
          /\ disk' = [disk EXCEPT !.claims = rec.claims]
          /\ rec.evaluations = Verdicts(rec.claims, rec.finalize, rec.records)
      BY <2>0, <2>3 DEF WriteClaims, Writes, RecordStep, DiskFollowsRecorder, EmptyStore
    <3>2. DiskFollowsRecorder'
      BY <1>1, <3>1 DEF DiskFollowsRecorder, FinalManifest, EmptyStore, Recording
    <3> QED
      BY <1>2, <2>0, <3>1, <3>2 DEF DiskIsVerdict, ReadIsDisk, Past, EmptyStore
  <2>4. CASE WriteEvaluations
    <3>1. /\ disk = [EmptyStore EXCEPT !.manifest = FinalManifest, !.evidence = rec.records,
                                       !.claims = rec.claims]
          /\ rec'.pc = "done"
          /\ disk' = [disk EXCEPT !.evaluations = rec.evaluations]
          /\ rec.evaluations = Verdicts(rec.claims, rec.finalize, rec.records)
      BY <2>0, <2>4 DEF WriteEvaluations, Writes, RecordStep, DiskFollowsRecorder, EmptyStore,
                        Fresh
    <3>2. DiskFollowsRecorder'
      BY <3>1 DEF DiskFollowsRecorder, EmptyStore
    <3>3. DiskIsVerdict'
      BY <3>1 DEF DiskIsVerdict, FinalManifest, EmptyStore
    <3>4. ReadIsDisk'
      BY <1>2, <2>0, <3>1 DEF ReadIsDisk, Past, EmptyStore
    <3> QED
      BY <3>2, <3>3, <3>4
  <2> QED
    BY <2>1, <2>2, <2>3, <2>4
<1> QED
  BY <1>2, <1>3, <1>4 DEF OnceInv

LEMMA RestartOnce == ASSUME IInv, OnceInv, Crash \/ RecordAgain PROVE OnceInv'
<1>0. rec.recordings \in Nat \ {0}
  BY DEF OnceInv
<1>1. CASE Crash
  <2>1. rec'.pc = "crashed" /\ rec'.recordings = rec.recordings /\ UNCHANGED <<disk, ver>>
    BY <1>1 DEF Crash, Fresh
  <2>2. DiskFollowsRecorder'
    BY <2>1 DEF DiskFollowsRecorder, EmptyStore
  <2> QED
    BY <2>1, <2>2 DEF OnceInv, DiskIsVerdict, ReadIsDisk, UnchangedTreeReproduces, Concluded
<1>2. CASE RecordAgain
  <2>1. rec'.recordings = rec.recordings + 1
    BY <1>2 DEF RecordAgain, Fresh
  <2>2. rec'.recordings \in Nat \ {0} /\ rec'.recordings # 1
    BY <1>0, <2>1
  <2> QED
    BY <2>2 DEF OnceInv, UnchangedTreeReproduces
<1> QED
  BY <1>1, <1>2

LEMMA RecorderOnce == ASSUME IInv, OnceInv, Recorder PROVE OnceInv'
<1>0. rec \in Recording
  BY DEF IInv, TypeOK
<1>1. CASE StartScan("capturing") \/ StartScan("finalizing") \/ RecorderScans
  <2>1. /\ UNCHANGED <<disk, ver>>
        /\ rec.pc \in {"working", "capturing", "finalizing"}
        /\ \/ rec' = rec
           \/ \E pc \in {"working", "capturing", "finalizing"} : rec' = [rec EXCEPT !.pc = pc]
    BY <1>1 DEF StartScan, RecordStep, RecorderScans
  <2> QED
    BY <1>0, <2>1, ScanningOnce DEF Recording
<1>2. CASE \E id \in EvidenceIds, outcome \in Outcomes : Capture(id, outcome)
  <2>1. /\ UNCHANGED <<disk, ver>> /\ rec.pc = "capturing"
        /\ rec'.pc = "working" /\ rec'.recordings = rec.recordings
    BY <1>0, <1>2 DEF Capture, RecordStep, Recording
  <2> QED
    BY <2>1, ScanningOnce
<1>3. CASE \E claims \in SUBSET Claims : Evaluate(claims)
  BY <1>3, EvaluateOnce
<1>4. CASE WriteManifest \/ WriteEvidence \/ WriteClaims \/ WriteEvaluations
  BY <1>4, WriteOnce
<1>5. CASE Crash \/ RecordAgain
  BY <1>5, RestartOnce
<1> QED
  BY <1>1, <1>2, <1>3, <1>4, <1>5 DEF Recorder

-----------------------------------------------------------------------------
(* A step of verify-run that concludes nothing.                            *)
LEMMA SilentOnce ==
  ASSUME OnceInv, UNCHANGED <<rec, disk>>, ver'.pc # "idle" \/ ver'.exitCode = 1,
         ReadIsDisk => ReadIsDisk'
  PROVE  OnceInv'
<1>1. UnchangedTreeReproduces'
  BY DEF UnchangedTreeReproduces, Concluded
<1>2. DiskFollowsRecorder => DiskFollowsRecorder'
  BY DEF DiskFollowsRecorder, FinalManifest
<1>3. DiskIsVerdict => DiskIsVerdict'
  BY DEF DiskIsVerdict
<1> QED
  BY <1>1, <1>2, <1>3 DEF OnceInv

LEMMA StartOnce ==
  ASSUME IInv, OnceInv, NEW strong \in BOOLEAN, VerifyRun(strong)
  PROVE  OnceInv'
<1>1. ver'.pc = "manifest" /\ UNCHANGED <<rec, disk>>
  BY DEF VerifyRun
<1>2. ReadIsDisk'
  BY <1>1 DEF ReadIsDisk, Past, EmptyStore
<1> QED
  BY <1>1, <1>2, SilentOnce

LEMMA ReadOnce ==
  ASSUME IInv, OnceInv, ReadManifest \/ ReadEvidence \/ ReadClaims \/ ReadEvaluations
  PROVE  OnceInv'
<1>1. ver \in Verification /\ disk \in Store /\ ver.got \in Store
  BY DEF IInv, TypeOK, Verification
<1>2. UNCHANGED <<rec, disk>>
  BY DEF ReadManifest, ReadEvidence, ReadClaims, ReadEvaluations, Reads
<1>3. CASE ver' = Rejects
  <2>1. ver'.pc = "idle" /\ ver'.exitCode = 1
    BY <1>3, RejectsTyped DEF IInv
  <2>2. ReadIsDisk'
    BY <2>1 DEF ReadIsDisk, Past, EmptyStore
  <2> QED
    BY <1>2, <2>1, <2>2, SilentOnce
<1>4. ASSUME NEW name \in DOMAIN EmptyStore, NEW next, Reads(name, next), ver' # Rejects,
             next # "idle",
             \A other \in DOMAIN EmptyStore :
               next \in Past(other) => other = name \/ name \in Past(other)
      PROVE  OnceInv'
  <2>1. /\ ver.pc = name /\ disk[name] # NoFile
        /\ ver' = [ver EXCEPT !.got[name] = disk[name], !.pc = next]
    BY <1>4 DEF Reads
  <2>2. /\ ver'.pc = next
        /\ \A other \in DOMAIN EmptyStore :
             ver'.got[other] = IF other = name THEN disk[name] ELSE ver.got[other]
    BY <1>1, <2>1 DEF Verification, Store, EmptyStore
  <2>3. ReadIsDisk => ReadIsDisk'
    BY <1>2, <1>4, <2>1, <2>2 DEF ReadIsDisk
  <2> QED
    BY <1>2, <1>4, <2>2, <2>3, SilentOnce
<1>5. CASE ReadManifest /\ ver' # Rejects
  BY <1>4, <1>5 DEF ReadManifest, Past, EmptyStore
<1>6. CASE ReadEvidence /\ ver' # Rejects
  BY <1>4, <1>6 DEF ReadEvidence, Past, EmptyStore
<1>7. CASE ReadClaims /\ ver' # Rejects
  BY <1>4, <1>7 DEF ReadClaims, Past, EmptyStore
<1>8. CASE ReadEvaluations /\ ver' # Rejects
  BY <1>4, <1>8 DEF ReadEvaluations, Past, EmptyStore
<1> QED
  BY <1>3, <1>5, <1>6, <1>7, <1>8

LEMMA HashOnce == ASSUME IInv, OnceInv, VerifierLists \/ VerifierScans PROVE OnceInv'
<1>1. ver \in Verification
  BY DEF IInv, TypeOK
<1>2. /\ UNCHANGED <<rec, disk>>
      /\ \/ ver' = Rejects
         \/ ver'.pc = "hashing" /\ ver'.got = ver.got /\ ver.pc \in {"listing", "hashing"}
  BY <1>1 DEF VerifierLists, VerifierScans, Verification
<1>3. CASE ver' = Rejects
  <2>1. ver'.pc = "idle" /\ ver'.exitCode = 1
    BY <1>3, RejectsTyped DEF IInv
  <2>2. ReadIsDisk'
    BY <2>1 DEF ReadIsDisk, Past, EmptyStore
  <2> QED
    BY <1>2, <2>1, <2>2, SilentOnce
<1>4. CASE ver'.pc = "hashing" /\ ver'.got = ver.got /\ ver.pc \in {"listing", "hashing"}
  <2>1. ReadIsDisk => ReadIsDisk'
    BY <1>2, <1>4 DEF ReadIsDisk, Past
  <2> QED
    BY <1>2, <1>4, <2>1, SilentOnce
<1> QED
  BY <1>2, <1>3, <1>4

LEMMA ConcludeOnce == ASSUME IInv, OnceInv, Conclude PROVE OnceInv'
<1> DEFINE currentTree == scan["verifier"].seen
           now == Reevaluations(currentTree)
<1>1. /\ ver \in Verification /\ ver.pc = "hashing"
      /\ UNCHANGED <<rec, disk>>
  BY DEF IInv, TypeOK, Conclude
<1>2. /\ ver'.pc = "idle" /\ ver'.now = now /\ ver'.regressions = RegressionsIn(now)
      /\ ver'.got = ver.got /\ ver'.strong = ver.strong /\ ver.strong \in BOOLEAN
      /\ ver'.treeChanged = (ver.got.manifest.finalize_tree # currentTree)
  BY <1>1 DEF Conclude, Verification
<1>3. now = [c \in ver.got.claims |->
               EvaluateClaim(ClaimRefs[c], currentTree, ver.strong, ver.got.evidence)]
  BY DEF Reevaluations
<1> HIDE DEF now, currentTree
<1>4. UnchangedTreeReproduces'
  <2> SUFFICES ASSUME rec.recordings = 1, ~ver'.treeChanged, ~ver'.strong
               PROVE  ver'.now = ver'.got.evaluations /\ ver'.regressions = {}
    BY <1>1 DEF UnchangedTreeReproduces
  <2>1. ReadIsDisk /\ DiskIsVerdict
    BY DEF OnceInv
  <2>2. /\ disk.evaluations # NoFile
        /\ ver.got.evaluations = disk.evaluations /\ ver.got.manifest = disk.manifest
        /\ ver.got.evidence = disk.evidence /\ ver.got.claims = disk.claims
    BY <1>1, <2>1 DEF ReadIsDisk, Past, EmptyStore
  <2>3. ver.got.manifest.finalize_tree = currentTree /\ ver.strong = FALSE
    BY <1>2
  <2>4. now = ver.got.evaluations
    BY <1>3, <2>1, <2>2, <2>3 DEF DiskIsVerdict, Verdicts
  <2>5. RegressionsIn(now) = {}
    BY <2>4 DEF RegressionsIn
  <2> QED
    BY <1>2, <2>4, <2>5
<1>5. ReadIsDisk'
  BY <1>2 DEF ReadIsDisk, Past, EmptyStore
<1>6. DiskFollowsRecorder => DiskFollowsRecorder'
  BY <1>1 DEF DiskFollowsRecorder, FinalManifest
<1>7. DiskIsVerdict => DiskIsVerdict'
  BY <1>1 DEF DiskIsVerdict
<1> QED
  BY <1>1, <1>4, <1>5, <1>6, <1>7 DEF OnceInv

LEMMA NextOnce == IInv /\ OnceInv /\ [Next]_vars => OnceInv'
<1> SUFFICES ASSUME IInv, OnceInv, [Next]_vars PROVE OnceInv'
  OBVIOUS
<1>1. CASE \E f \in Files, content \in Contents \cup {NoFile} : Edit(f, content)
  BY <1>1, ScanningOnce DEF Edit
<1>2. CASE Recorder
  BY <1>2, RecorderOnce
<1>3. CASE \E strong \in BOOLEAN : VerifyRun(strong)
  BY <1>3, StartOnce
<1>4. CASE ReadManifest \/ ReadEvidence \/ ReadClaims \/ ReadEvaluations
  BY <1>4, ReadOnce
<1>5. CASE VerifierLists \/ VerifierScans
  BY <1>5, HashOnce
<1>6. CASE Conclude
  BY <1>6, ConcludeOnce
<1>7. CASE UNCHANGED vars
  BY <1>7, ScanningOnce DEF vars
<1> QED
  BY <1>1, <1>2, <1>3, <1>4, <1>5, <1>6, <1>7 DEF Next, Verifier

(* A run recorded once and a workspace as it was at finalize: verify-run   *)
(* says of every claim what was recorded, for any evidence, any claims and *)
(* any moment at which the recorder died (run-store.ts:136-149).           *)
THEOREM RecordedOnceReproduces == Spec => []UnchangedTreeReproduces
<1>1. OnceInv => UnchangedTreeReproduces
  BY DEF OnceInv
<1> QED
  BY <1>1, InitOnce, NextOnce, AlwaysIInv, PTL DEF Spec
=============================================================================
