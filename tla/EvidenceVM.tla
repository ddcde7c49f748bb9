----------------------------- MODULE EvidenceVM -----------------------------
(***************************************************************************)
(* The verdict on a claim: EvidenceVM.evaluateClaim and its predicates in  *)
(* src/src/runtime/evidence.ts.  Pure operators, used by RunStore for the  *)
(* evaluation at finalize and for the re-evaluation by verify-run.         *)
(*                                                                         *)
(* The records of a VM are a function from evidence id to record: capture  *)
(* and restore both refuse a duplicate id.  Hashes are modelled by what    *)
(* they hash: two trees have one hash when they are equal.                 *)
(***************************************************************************)
EXTENDS Integers

(* exit_status null: the process was killed, or nothing ran.               *)
NullExit == -1

EvidenceTypes ==
  {"configured_verifier_exit", "typed_observation", "content_hash", "process_result"}

Statuses == {"unsupported", "stale", "ambiguous", "failed", "supported"}

(* WEAK_EVIDENCE: an exit code is no proof of a claim.                     *)
Weak(record) == record.evidence_type = "configured_verifier_exit"

(* timed_out && (exit_status ?? 0) === 0.                                  *)
Contradictory(record) == record.timed_out /\ record.exit_status \in {0, NullExit}

(* Seeded fault: a missing exit status counts as success.                  *)
FailedUnlessNull(record) == record.timed_out \/ record.exit_status \notin {0, NullExit}

(* timed_out || (exit_status ?? 1) !== 0.                                  *)
Failed(record) == record.timed_out \/ record.exit_status # 0

(* The first condition that applies decides, in the order of the source.   *)
EvaluateClaim(refs, currentTree, requireStrong, records) ==
  LET missing == refs \ DOMAIN records
      evidence == {records[id] : id \in refs \cap DOMAIN records}
  IN CASE refs = {} \/ missing # {} -> "unsupported"
       [] OTHER ->
     CASE \E r \in evidence : r.tree # currentTree -> "stale"
       [] OTHER ->
     CASE \E r \in evidence : Contradictory(r) -> "ambiguous"
       [] OTHER ->
     CASE \E r \in evidence : Failed(r) -> "failed"
       [] OTHER ->
     CASE requireStrong /\ \A r \in evidence : Weak(r) -> "unsupported"
       [] OTHER -> "supported"
=============================================================================
