-------------------------- MODULE RunnerEvaluation --------------------------
(***************************************************************************)
(* One evaluation run: runEvaluation (src/src/runner.ts) over the model    *)
(* adapter, the scorer, the artifact store, the copied workspace and the   *)
(* trace.  Everything between run.started and run.finished is one try      *)
(* block: whatever fails in it becomes run.error, and the run goes on to   *)
(* its receipt.  A failure outside of it rejects the call.  The caller may *)
(* abort, the disk may fail and the process may die at any moment.  The    *)
(* adapter and the verifier are processes, with the outcomes ProcessRun    *)
(* gives.                                                                  *)
(***************************************************************************)
EXTENDS TraceChain

CONSTANTS
  Proposals     \* the files a response may propose, each "ok" or "refused"

VARIABLES
  pc,
  aborted,      \* the caller's signal
  early,        \* history: it was aborted before the verifier had ended
  run,          \* what the receipt says, once it is written
  files,        \* proposed files not yet applied
  written,      \* proposed files in the workspace
  trace,
  receipt       \* receipt.json: "none", "partial", "whole"

vars == <<pc, aborted, early, run, files, written, trace, receipt>>

Waiting == "waiting"
Process == INSTANCE ProcessCall WITH call <- pc

EventTypes ==
  {"run.started", "adapter.requested", "adapter.responded", "workspace.changed",
   "configured_verifier.finished", "run.error", "run.finished"}

Codes ==
  Process!Rejections \cup
  {"OML_ADAPTER_FAILED", "OML_ADAPTER_RESPONSE_INVALID", "OML_RECEIPT_INCONSISTENT",
   "OML_PATH_ESCAPE", "OML_SCORER_BLINDNESS_VIOLATION", "OML_SCORER_TIMEOUT",
   "OML_SCORER_FAILED", "OML_VERIFIER_FAILED"}

Runs == [run_status : {"error", "cancelled", "completed"},
         adapter_status : {"not_run", "passed", "failed"},
         configured_verifier : {"not_run", "passed", "failed"},
         billing : {"none", "consistent", "inconsistent"},
         error_codes : SUBSET Codes]

NewRun == [run_status |-> "error", adapter_status |-> "not_run",
           configured_verifier |-> "not_run", billing |-> "none",
           error_codes |-> {}]

Init ==
  /\ pc = "start"
  /\ aborted \in BOOLEAN
  /\ early = aborted
  /\ run = NewRun
  /\ files = <<>>
  /\ written = 0
  /\ trace = NewTrace
  /\ receipt = "none"

-----------------------------------------------------------------------------
(* The catch block; it leaves what had been assigned before the throw.     *)
Caught(r, code) ==
  [r EXCEPT !.run_status = IF code = "OML_CANCELLED" THEN "cancelled" ELSE "error",
            !.adapter_status = IF code = "OML_ADAPTER_FAILED" THEN "failed" ELSE @,
            !.error_codes = @ \cup {code}]

Throw(r, code) == run' = Caught(r, code) /\ pc' = "caught"

(* A trace event outside the try block: if it fails, so does the call.     *)
Event(at, type, next) ==
  /\ pc = at
  /\ \/ trace' = Appended(trace, type) /\ pc' = next
     \/ trace' \in AppendFails(trace, type) /\ pc' = "rejected"
  /\ UNCHANGED <<aborted, early, run, files, written, receipt>>

(* A trace event inside it.                                                *)
TriedEvent(at, type, next) ==
  /\ pc = at
  /\ \/ trace' = Appended(trace, type) /\ pc' = next /\ UNCHANGED run
     \/ trace' \in AppendFails(trace, type) /\ Throw(run, "OML_INTERNAL")
  /\ UNCHANGED <<aborted, early, files, written, receipt>>

(* ArtifactStore.put: what goes wrong with it is an internal error.        *)
Put(at, next) ==
  /\ pc = at
  /\ \/ pc' = next /\ UNCHANGED run
     \/ Throw(run, "OML_INTERNAL")
  /\ UNCHANGED <<aborted, early, files, written, trace, receipt>>

Started == Event("start", "run.started", "request")
Requested == TriedEvent("request", "adapter.requested", "adapter")

-----------------------------------------------------------------------------
(* ExternalCommandAdapter.invoke, then the synchronous billing check.      *)
AdapterRejects(outcome) ==
  /\ pc = "adapter"
  /\ outcome \in Process!Rejections
  /\ Process!MayReturn(outcome, aborted)
  /\ Throw(run, outcome)
  /\ UNCHANGED <<aborted, early, files, written, trace, receipt>>

AdapterFails(code) ==
  /\ pc = "adapter"
  /\ Process!MayReturn(Process!Resolved, aborted)
  /\ Throw(run, code)
  /\ UNCHANGED <<aborted, early, files, written, trace, receipt>>

AdapterResponds(billing, proposal) ==
  /\ pc = "adapter"
  /\ Process!MayReturn(Process!Resolved, aborted)
  /\ LET answered == [run EXCEPT !.adapter_status = "passed", !.billing = billing]
     IN IF billing = "inconsistent"
          THEN Throw(answered, "OML_RECEIPT_INCONSISTENT") /\ UNCHANGED files
          ELSE run' = answered /\ files' = proposal /\ pc' = "stderr"
  /\ UNCHANGED <<aborted, early, written, trace, receipt>>

StderrKept == Put("stderr", "respond")
Responded == TriedEvent("respond", "adapter.responded", "apply")

(* applyProposedFiles: each file is checked and written before the next is *)
(* looked at; what was written stays when a later one is refused or fails. *)
ApplyFile ==
  /\ pc = "apply" /\ files # <<>>
  /\ \/ /\ Head(files) = "ok"
        /\ files' = Tail(files) /\ written' = written + 1
        /\ UNCHANGED <<pc, run>>
     \/ /\ Head(files) = "refused"
        /\ Throw(run, "OML_PATH_ESCAPE") /\ UNCHANGED <<files, written>>
     \/ Throw(run, "OML_INTERNAL") /\ written' \in {written, written + 1} /\ UNCHANGED files
  /\ UNCHANGED <<aborted, early, trace, receipt>>

WorkspaceChanged == files = <<>> /\ TriedEvent("apply", "workspace.changed", "score")

-----------------------------------------------------------------------------
(* scoreWorkspace: a copy of the workspace, the verifier run in it, and    *)
(* the renaming of what it rejects with.                                   *)
ScorerCode(outcome) ==
  CASE outcome = "OML_PROCESS_TIMEOUT" -> "OML_SCORER_TIMEOUT"
    [] outcome = "OML_INTERNAL" -> "OML_SCORER_FAILED"
    [] OTHER -> outcome

ScorerRejects(code) ==
  /\ pc = "score"
  /\ \/ code \in {"OML_INTERNAL", "OML_SCORER_BLINDNESS_VIOLATION"}
     \/ \E outcome \in Process!Rejections :
          Process!MayReturn(outcome, aborted) /\ code = ScorerCode(outcome)
  /\ Throw(run, code)
  /\ UNCHANGED <<aborted, early, files, written, trace, receipt>>

(* Seeded fault: the verifier is not given the signal.                     *)
ScoredUncancelled(status) ==
  /\ pc = "score"
  /\ run' = [run EXCEPT !.configured_verifier = status]
  /\ pc' = "stdout"
  /\ UNCHANGED <<aborted, early, files, written, trace, receipt>>

Scored(status) ==
  /\ pc = "score"
  /\ Process!MayReturn(Process!Resolved, aborted)
  /\ run' = [run EXCEPT !.configured_verifier = status]
  /\ pc' = "stdout"
  /\ UNCHANGED <<aborted, early, files, written, trace, receipt>>

OutputKept == Put("stdout", "verified")

(* Seeded fault: completed as soon as the event is on its way.             *)
VerifiedUnawaited ==
  /\ pc = "verified"
  /\ \/ trace' = Appended(trace, "configured_verifier.finished")
     \/ trace' \in AppendFails(trace, "configured_verifier.finished")
  /\ run' = [run EXCEPT !.run_status = "completed",
                        !.error_codes = IF run.configured_verifier = "failed"
                                        THEN @ \cup {"OML_VERIFIER_FAILED"} ELSE @]
  /\ pc' = "finish"
  /\ UNCHANGED <<aborted, early, files, written, receipt>>

(* configured_verifier.finished, and then the run counts as completed.     *)
Verified ==
  /\ pc = "verified"
  /\ \/ /\ trace' = Appended(trace, "configured_verifier.finished")
        /\ run' = [run EXCEPT !.run_status = "completed",
                              !.error_codes = IF run.configured_verifier = "failed"
                                              THEN @ \cup {"OML_VERIFIER_FAILED"} ELSE @]
        /\ pc' = "finish"
     \/ /\ trace' \in AppendFails(trace, "configured_verifier.finished")
        /\ Throw(run, "OML_INTERNAL")
  /\ UNCHANGED <<aborted, early, files, written, receipt>>

(* Inside the catch block nothing catches.                                 *)
ErrorTraced == Event("caught", "run.error", "finish")

Finished == Event("finish", "run.finished", "verify")

-----------------------------------------------------------------------------
(* verifyTrace, the assertions on the receipt and its write, which is not  *)
(* atomic.                                                                 *)
VerifyTrace ==
  /\ pc = "verify"
  /\ IF Verifies(trace.lines) THEN pc' \in {"receipt", "rejected"}
                              ELSE pc' = "rejected"
  /\ UNCHANGED <<aborted, early, run, files, written, trace, receipt>>

OpenReceipt ==
  /\ pc = "receipt"
  /\ receipt' = "partial"
  /\ pc' \in {"write", "rejected"}
  /\ UNCHANGED <<aborted, early, run, files, written, trace>>

WriteReceipt ==
  /\ pc = "write"
  /\ receipt' = "whole"
  /\ pc' = "returned"
  /\ UNCHANGED <<aborted, early, run, files, written, trace>>

Ended == {"returned", "rejected", "crashed"}

-----------------------------------------------------------------------------
BeforeVerdict ==
  {"start", "request", "adapter", "stderr", "respond", "apply", "score"}

Abort ==
  /\ ~aborted
  /\ aborted' = TRUE
  /\ early' = (pc \in BeforeVerdict)
  /\ UNCHANGED <<pc, run, files, written, trace, receipt>>

(* The process dies; an event on its way may leave a part of its line.     *)
Crash ==
  /\ pc \notin Ended
  /\ pc' = "crashed"
  /\ trace' \in {trace, [trace EXCEPT !.lines = Append(@, Torn)]}
  /\ UNCHANGED <<aborted, early, run, files, written, receipt>>

Step ==
  \/ Started \/ Requested
  \/ \E outcome \in Process!Rejections : AdapterRejects(outcome)
  \/ \E code \in {"OML_ADAPTER_FAILED", "OML_ADAPTER_RESPONSE_INVALID"} : AdapterFails(code)
  \/ \E billing \in {"none", "consistent", "inconsistent"}, proposal \in Proposals :
       AdapterResponds(billing, proposal)
  \/ StderrKept \/ Responded \/ ApplyFile \/ WorkspaceChanged
  \/ \E code \in Codes : ScorerRejects(code)
  \/ \E status \in {"passed", "failed"} : Scored(status)
  \/ OutputKept \/ Verified \/ ErrorTraced \/ Finished
  \/ VerifyTrace \/ OpenReceipt \/ WriteReceipt

Next == Step \/ Abort \/ Crash

Spec == Init /\ [][Next]_vars

-----------------------------------------------------------------------------
TypeOK ==
  /\ pc \in BeforeVerdict \cup Ended \cup
       {"stdout", "verified", "caught", "finish", "verify", "receipt", "write"}
  /\ aborted \in BOOLEAN /\ early \in BOOLEAN
  /\ run \in Runs
  /\ written \in Nat
  /\ trace.sequence \in 0..Len(trace.lines)
  /\ \A i \in 1..Len(trace.lines) : trace.lines[i] \in Lines(EventTypes)
  /\ receipt \in {"none", "partial", "whole"}

Says(status) == receipt = "whole" /\ run.run_status = status

TypesOf(lines) == [i \in 1..Len(lines) |-> lines[i].type]

(* "Event log corrupt: ... no receipt" (architecture.md:131): a receipt is *)
(* written only for a trace without a gap, a torn or a doubled line, that  *)
(* starts with run.started and ends with run.finished (runner.ts:216).     *)
ReceiptHasWholeTrace ==
  receipt # "none" =>
    LET lines == trace.lines
        whole == IF pc = "crashed" /\ lines[Len(lines)] = Torn
                 THEN SubSeq(lines, 1, Len(lines) - 1) ELSE lines
    IN /\ \A i \in 1..Len(whole) : whole[i].sequence = i - 1
       /\ whole[1].type = "run.started"
       /\ whole[Len(whole)].type = "run.finished"
       /\ \A i \in 2..(Len(whole) - 1) :
            whole[i].type \notin {"run.started", "run.finished", "torn"}

(* A run is completed only if every step of it is in the trace, in order,  *)
(* all proposed files are in the workspace, billing adds up, and the       *)
(* verifier gave a verdict (runner.ts:188-189).                            *)
CompletedIsEarned ==
  Says("completed") =>
    /\ TypesOf(trace.lines) =
         <<"run.started", "adapter.requested", "adapter.responded",
           "workspace.changed", "configured_verifier.finished", "run.finished">>
    /\ files = <<>>
    /\ run.adapter_status = "passed"
    /\ run.billing # "inconsistent"
    /\ run.configured_verifier # "not_run"
    /\ run.error_codes = IF run.configured_verifier = "failed"
                             THEN {"OML_VERIFIER_FAILED"} ELSE {}

(* A run aborted before its verifier had ended is never completed, also    *)
(* when the abort fell between two processes and killed neither; nor is it *)
(* cancelled without an abort (runner.ts:143,168; process.ts:76).          *)
CancelledNeverCompletes ==
  /\ early => ~Says("completed")
  /\ Says("cancelled") => early

(* No file of a response whose billing does not add up reaches the         *)
(* workspace (runner.ts:149 before runner.ts:161).                         *)
OnlyBilledFilesApplied == written > 0 => run.billing # "inconsistent"
=============================================================================
