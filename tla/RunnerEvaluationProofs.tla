----------------------- MODULE RunnerEvaluationProofs -----------------------
(***************************************************************************)
(* RunnerEvaluation, for any files an adapter may propose: what a          *)
(* cancellation and an inconsistent bill exclude, what the trace of a      *)
(* receipt holds, and what a completed run went through.                   *)
(*                                                                         *)
(* RunPreparation, for any contents and any number of edits: what a run    *)
(* that was prepared has read.                                             *)
(*                                                                         *)
(* The sufficiency check, for every corpus, template and number of checks: *)
(* a path is read as present when its opener and a closer after it stand   *)
(* in the prompt, so what makes the verdict true is that a whole prompt is *)
(* one in which every opener is followed by its own file and closer, and   *)
(* that a cut one loses a closer before it can lose a line of a file.      *)
(***************************************************************************)
EXTENDS RunnerEvaluation, RunPreparation, HeldoutSufficiency, InductionLemmas

RunTyped ==
  /\ run \in Runs
  /\ written \in Nat
  /\ aborted \in BOOLEAN /\ early \in BOOLEAN

(* The history variable is the signal as the verifier's end found it.      *)
EarlyExplained ==
  /\ early => aborted
  /\ pc \in BeforeVerdict /\ aborted => early
  /\ pc \in {"stdout", "verified"} => ~early

StatusExplained ==
  /\ run.run_status = "completed" => ~early /\ pc \notin BeforeVerdict
  /\ run.run_status = "cancelled" => early

BillingChecked ==
  /\ pc \in {"stderr", "respond", "apply", "score", "stdout", "verified"} =>
       run.billing # "inconsistent"
  /\ pc \in {"start", "request", "adapter"} => written = 0
  /\ written > 0 => run.billing # "inconsistent"

IInv == RunTyped /\ EarlyExplained /\ StatusExplained /\ BillingChecked

-----------------------------------------------------------------------------
LEMMA CaughtIsRun ==
  ASSUME NEW r \in Runs, NEW code \in Codes
  PROVE  /\ Caught(r, code) \in Runs
         /\ Caught(r, code).billing = r.billing
         /\ Caught(r, code).run_status =
              IF code = "OML_CANCELLED" THEN "cancelled" ELSE "error"
  BY DEF Caught, Runs

LEMMA SomeCodes ==
  /\ Process!Rejections \subseteq Codes
  /\ {"OML_INTERNAL", "OML_ADAPTER_FAILED", "OML_ADAPTER_RESPONSE_INVALID",
      "OML_RECEIPT_INCONSISTENT", "OML_PATH_ESCAPE"} \subseteq Codes
  BY DEF Codes, Process!Rejections

LEMMA InitIInv == Init => IInv
  BY DEF Init, NewRun, Runs, IInv, RunTyped, EarlyExplained, StatusExplained,
         BillingChecked, BeforeVerdict

(* A throw keeps the invariant from wherever it comes; only a process that *)
(* was aborted in time throws OML_CANCELLED.                               *)
LEMMA ThrowIInv ==
  ASSUME IInv, NEW code \in Codes, Throw(run, code),
         code = "OML_CANCELLED" => early,
         written' \in Nat, written' > 0 => run.billing # "inconsistent",
         UNCHANGED <<aborted, early>>
  PROVE  IInv'
<1>1. /\ run' \in Runs /\ run'.billing = run.billing
      /\ run'.run_status = IF code = "OML_CANCELLED" THEN "cancelled" ELSE "error"
      /\ pc' = "caught"
  BY CaughtIsRun DEF Throw, IInv, RunTyped
<1> QED
  BY <1>1 DEF IInv, RunTyped, EarlyExplained, StatusExplained, BillingChecked,
              BeforeVerdict

(* A step that only moves on keeps the invariant.                          *)
LEMMA MoveIInv ==
  ASSUME IInv, UNCHANGED <<run, written, aborted, early>>,
         \/ pc \in {"start", "request"} /\ pc' \in {"request", "adapter"}
         \/ pc \in {"stderr", "respond", "apply"} /\ pc' \in {"respond", "apply", "score"}
         \/ pc = "stdout" /\ pc' = "verified"
         \/ pc' \in {"finish", "verify", "receipt", "write"} \cup Ended
         \/ pc' = pc
  PROVE  IInv'
  BY DEF IInv, RunTyped, EarlyExplained, StatusExplained, BillingChecked,
         BeforeVerdict, Ended

LEMMA TriedIInv ==
  ASSUME IInv, Requested \/ StderrKept \/ Responded \/ WorkspaceChanged \/ OutputKept
  PROVE  IInv'
<1>1. /\ UNCHANGED <<aborted, early, written>>
      /\ \/ Throw(run, "OML_INTERNAL")
         \/ /\ UNCHANGED run
            /\ \/ pc = "request" /\ pc' = "adapter"
               \/ pc = "stderr" /\ pc' = "respond"
               \/ pc = "respond" /\ pc' = "apply"
               \/ pc = "apply" /\ pc' = "score"
               \/ pc = "stdout" /\ pc' = "verified"
  BY DEF Requested, StderrKept, Responded, WorkspaceChanged, OutputKept, TriedEvent, Put
<1>2. CASE Throw(run, "OML_INTERNAL")
  BY <1>1, <1>2, ThrowIInv, SomeCodes DEF IInv, RunTyped, BillingChecked
<1>3. CASE UNCHANGED run
  BY <1>1, <1>2, <1>3, MoveIInv
<1> QED
  BY <1>1, <1>2, <1>3

LEMMA AdapterIInv ==
  ASSUME IInv,
         \/ \E outcome \in Process!Rejections : AdapterRejects(outcome)
         \/ \E code \in {"OML_ADAPTER_FAILED", "OML_ADAPTER_RESPONSE_INVALID"} :
              AdapterFails(code)
         \/ \E billing \in {"none", "consistent", "inconsistent"}, proposal \in Proposals :
              AdapterResponds(billing, proposal)
  PROVE  IInv'
<1>1. ASSUME NEW outcome \in Process!Rejections, AdapterRejects(outcome)
      PROVE  IInv'
  <2>1. outcome = "OML_CANCELLED" => early
    BY <1>1 DEF AdapterRejects, Process!MayReturn, Process!Resolved, IInv, EarlyExplained,
                BeforeVerdict
  <2> QED
    BY <1>1, <2>1, ThrowIInv, SomeCodes DEF AdapterRejects, IInv, RunTyped, BillingChecked
<1>2. ASSUME NEW code \in {"OML_ADAPTER_FAILED", "OML_ADAPTER_RESPONSE_INVALID"},
             AdapterFails(code)
      PROVE  IInv'
  BY <1>2, ThrowIInv, SomeCodes DEF AdapterFails, IInv, RunTyped, BillingChecked
<1>3. ASSUME NEW billing \in {"none", "consistent", "inconsistent"},
             NEW proposal \in Proposals, AdapterResponds(billing, proposal)
      PROVE  IInv'
  <2> DEFINE answered == [run EXCEPT !.adapter_status = "passed", !.billing = billing]
  <2>1. /\ answered \in Runs /\ answered.billing = billing
        /\ answered.run_status = run.run_status
    BY DEF IInv, RunTyped, Runs
  <2>2. /\ pc = "adapter" /\ written = 0 /\ ~early /\ run.run_status # "completed"
        /\ run.run_status # "cancelled"
        /\ UNCHANGED <<aborted, early, written>>
        /\ \/ billing = "inconsistent" /\ run' = Caught(answered, "OML_RECEIPT_INCONSISTENT")
              /\ pc' = "caught"
           \/ billing # "inconsistent" /\ run' = answered /\ pc' = "stderr"
    <3>1. pc = "adapter" /\ ~aborted
      BY <1>3 DEF AdapterResponds, Process!MayReturn, Process!Resolved
    <3>2. written = 0 /\ ~early /\ run.run_status # "completed" /\ run.run_status # "cancelled"
      BY <3>1 DEF IInv, EarlyExplained, StatusExplained, BillingChecked, BeforeVerdict
    <3>3. /\ UNCHANGED <<aborted, early, written>>
          /\ IF billing = "inconsistent"
               THEN run' = Caught(answered, "OML_RECEIPT_INCONSISTENT") /\ pc' = "caught"
               ELSE run' = answered /\ pc' = "stderr"
      BY <1>3 DEF AdapterResponds, Throw
    <3> QED
      BY <3>1, <3>2, <3>3
  <2> HIDE DEF answered
  <2>3. CASE billing = "inconsistent"
    <3>0. /\ Caught(answered, "OML_RECEIPT_INCONSISTENT") \in Runs
          /\ Caught(answered, "OML_RECEIPT_INCONSISTENT").run_status = "error"
      <4>1. "OML_RECEIPT_INCONSISTENT" \in Codes
        BY SomeCodes
      <4> QED
        BY <2>1, <4>1, CaughtIsRun
    <3>1. run' \in Runs /\ run'.run_status = "error" /\ pc' = "caught"
      BY <2>2, <2>3, <3>0
    <3> QED
      BY <2>2, <3>1 DEF IInv, RunTyped, EarlyExplained, StatusExplained, BillingChecked,
                        BeforeVerdict
  <2>4. CASE billing # "inconsistent"
    BY <2>1, <2>2, <2>4 DEF IInv, RunTyped, EarlyExplained, StatusExplained,
                            BillingChecked, BeforeVerdict
  <2> QED
    BY <2>3, <2>4
<1> QED
  BY <1>1, <1>2, <1>3

LEMMA ApplyIInv == ASSUME IInv, ApplyFile PROVE IInv'
<1>1. /\ pc = "apply" /\ run.billing # "inconsistent" /\ UNCHANGED <<aborted, early>>
      /\ written' \in {written, written + 1} /\ written' \in Nat
  BY DEF ApplyFile, IInv, RunTyped, BillingChecked
<1>2. CASE \E code \in {"OML_PATH_ESCAPE", "OML_INTERNAL"} : Throw(run, code)
  BY <1>1, <1>2, ThrowIInv, SomeCodes
<1>3. CASE UNCHANGED <<pc, run>>
  BY <1>1, <1>3 DEF IInv, RunTyped, EarlyExplained, StatusExplained, BillingChecked,
                    BeforeVerdict
<1> QED
  BY <1>2, <1>3 DEF ApplyFile

LEMMA ScorerIInv ==
  ASSUME IInv,
         \/ \E code \in Codes : ScorerRejects(code)
         \/ \E status \in {"passed", "failed"} : Scored(status)
  PROVE  IInv'
<1>1. ASSUME NEW code \in Codes, ScorerRejects(code)
      PROVE  IInv'
  <2>1. code = "OML_CANCELLED" => early
    BY <1>1 DEF ScorerRejects, ScorerCode, Process!MayReturn, Process!Resolved,
                Process!Rejections, IInv, EarlyExplained, BeforeVerdict
  <2> QED
    BY <1>1, <2>1, ThrowIInv DEF ScorerRejects, IInv, RunTyped, BillingChecked
<1>2. ASSUME NEW status \in {"passed", "failed"}, Scored(status)
      PROVE  IInv'
  <2>1. /\ run' \in Runs /\ run'.billing = run.billing /\ run'.run_status = run.run_status
        /\ pc = "score" /\ pc' = "stdout" /\ ~aborted
        /\ UNCHANGED <<aborted, early, written>>
    BY <1>2 DEF Scored, IInv, RunTyped, Runs, Process!MayReturn, Process!Resolved
  <2> QED
    BY <2>1 DEF IInv, RunTyped, EarlyExplained, StatusExplained, BillingChecked,
                BeforeVerdict
<1> QED
  BY <1>1, <1>2

LEMMA VerifiedIInv == ASSUME IInv, Verified PROVE IInv'
<1>1. /\ pc = "verified" /\ UNCHANGED <<aborted, early, written>>
  BY DEF Verified
<1>2. CASE Throw(run, "OML_INTERNAL")
  BY <1>1, <1>2, ThrowIInv, SomeCodes DEF IInv, RunTyped, BillingChecked
<1>3. CASE /\ run' = [run EXCEPT !.run_status = "completed",
                        !.error_codes = IF run.configured_verifier = "failed"
                                        THEN @ \cup {"OML_VERIFIER_FAILED"} ELSE @]
           /\ pc' = "finish"
  <2>1. run' \in Runs /\ run'.billing = run.billing /\ run'.run_status = "completed"
    BY <1>3 DEF IInv, RunTyped, Runs, Codes
  <2> QED
    BY <1>1, <1>3, <2>1 DEF IInv, RunTyped, EarlyExplained, StatusExplained,
                            BillingChecked, BeforeVerdict
<1> QED
  BY <1>2, <1>3 DEF Verified

(* Outside of the try block a step moves on, to the end at worst.          *)
LEMMA OuterIInv ==
  ASSUME IInv,
         \/ Started \/ ErrorTraced \/ Finished
         \/ VerifyTrace \/ OpenReceipt \/ WriteReceipt \/ Crash
  PROVE  IInv'
<1>1. /\ UNCHANGED <<run, written, aborted, early>>
      /\ \/ pc = "start" /\ pc' = "request"
         \/ pc' \in {"finish", "verify", "receipt", "write"} \cup Ended
  BY DEF Started, ErrorTraced, Finished, Event, VerifyTrace, OpenReceipt, WriteReceipt,
         Crash, Ended
<1>2. CASE pc = "start" /\ pc' = "request"
  BY <1>1, <1>2, MoveIInv
<1>3. CASE pc' \in {"finish", "verify", "receipt", "write"} \cup Ended
  BY <1>1, <1>3, MoveIInv
<1> QED
  BY <1>1, <1>2, <1>3

LEMMA AbortIInv == ASSUME IInv, Abort PROVE IInv'
<1> USE DEF Abort, IInv
<1>1. RunTyped' /\ BillingChecked'
  BY DEF RunTyped, BillingChecked
<1>2. ~early /\ (early' <=> pc \in BeforeVerdict) /\ aborted'
  BY DEF RunTyped, EarlyExplained
<1>3. EarlyExplained'
  BY <1>2 DEF EarlyExplained, BeforeVerdict
<1>4. StatusExplained'
  BY <1>2 DEF StatusExplained
<1> QED
  BY <1>1, <1>3, <1>4

LEMMA NextIInv == IInv /\ [Next]_vars => IInv'
<1>1. IInv /\ UNCHANGED vars => IInv'
  BY DEF vars, IInv, RunTyped, EarlyExplained, StatusExplained, BillingChecked
<1> QED
  BY <1>1, TriedIInv, AdapterIInv, ApplyIInv, ScorerIInv, VerifiedIInv, OuterIInv,
     AbortIInv DEF Next, Step

LEMMA AlwaysIInv == Spec => []IInv
  BY InitIInv, NextIInv, PTL DEF Spec

(* A run aborted before its verifier had ended is never completed, and a   *)
(* run is cancelled only if it was (runner.ts:143,168).                    *)
THEOREM CancelledNotCompleted == Spec => []CancelledNeverCompletes
<1>1. IInv => CancelledNeverCompletes
  BY DEF IInv, StatusExplained, CancelledNeverCompletes, Says
<1> QED
  BY <1>1, AlwaysIInv, PTL

(* No file of a response whose billing does not add up is applied          *)
(* (runner.ts:149).                                                        *)
THEOREM UnbilledNotApplied == Spec => []OnlyBilledFilesApplied
<1>1. IInv => OnlyBilledFilesApplied
  BY DEF IInv, BillingChecked, OnlyBilledFilesApplied
<1> QED
  BY <1>1, AlwaysIInv, PTL

-----------------------------------------------------------------------------
(* The trace as a record of typed lines, and the control points.           *)
Traces == [sequence : Nat, lines : Seq(Lines(EventTypes))]

TraceTyped == trace \in Traces /\ trace.sequence <= Len(trace.lines)

Points ==
  BeforeVerdict \cup Ended \cup
    {"stdout", "verified", "caught", "finish", "verify", "receipt", "write"}

ControlTyped == pc \in Points /\ receipt \in {"none", "partial", "whole"}

TInv == TraceTyped /\ ControlTyped

(* An event appended, a failed append and a torn line keep a trace typed.  *)
LEMMA AppendTyped ==
  ASSUME TraceTyped, NEW type \in EventTypes,
         \/ trace' = Appended(trace, type)
         \/ trace' \in AppendFails(trace, type)
         \/ trace' = [trace EXCEPT !.lines = Append(@, Torn)]
         \/ trace' = trace
  PROVE  TraceTyped'
<1> DEFINE n == trace.sequence
           ls == trace.lines
<1>1. n \in Nat /\ ls \in Seq(Lines(EventTypes)) /\ n <= Len(ls)
      /\ trace = [sequence |-> n, lines |-> ls]
  BY DEF TraceTyped, Traces
<1>2. EventLine(trace, type) \in Lines(EventTypes) /\ Torn \in Lines(EventTypes)
  BY <1>1 DEF EventLine, Torn, Lines
<1>3. ASSUME NEW line \in Lines(EventTypes)
      PROVE  /\ Append(ls, line) \in Seq(Lines(EventTypes))
             /\ Len(Append(ls, line)) = Len(ls) + 1
  BY <1>1
<1>4. /\ trace' \in Traces
      /\ \/ trace'.sequence = n + 1 /\ Len(trace'.lines) = Len(ls) + 1
         \/ trace'.sequence = n /\ Len(trace'.lines) \in {Len(ls), Len(ls) + 1}
  <2>1. CASE trace' = Appended(trace, type)
    BY <1>1, <1>2, <1>3, <2>1 DEF Appended, Traces
  <2>2. CASE trace' \in AppendFails(trace, type)
    BY <1>1, <1>2, <1>3, <2>2 DEF AppendFails, Traces
  <2>3. CASE trace' = [trace EXCEPT !.lines = Append(@, Torn)]
    BY <1>1, <1>2, <1>3, <2>3 DEF Traces
  <2>4. CASE trace' = trace
    BY <1>1, <2>4 DEF Traces
  <2> QED
    BY <2>1, <2>2, <2>3, <2>4
<1>5. Len(ls) \in Nat
  BY <1>1
<1> HIDE DEF n, ls
<1> QED
  BY <1>1, <1>4, <1>5 DEF TraceTyped

LEMMA EventTInv ==
  ASSUME TInv, NEW type \in EventTypes, pc' \in Points, receipt' = receipt,
         trace' = Appended(trace, type) \/ trace' \in AppendFails(trace, type)
  PROVE  TInv'
  BY AppendTyped DEF TInv, ControlTyped, Points, BeforeVerdict, Ended

LEMMA QuietTInv ==
  ASSUME TInv, pc' \in Points, receipt' \in {"none", "partial", "whole"}, trace' = trace
  PROVE  TInv'
  BY DEF TInv, TraceTyped, ControlTyped, Points, BeforeVerdict, Ended

LEMMA StepTInv == ASSUME TInv, Step PROVE TInv'
<1>0. receipt \in {"none", "partial", "whole"} /\ pc \in Points
  BY DEF TInv, ControlTyped
<1>1. CASE Started \/ ErrorTraced \/ Finished
  BY <1>1, EventTInv
  DEF Started, ErrorTraced, Finished, Event, EventTypes, Points, BeforeVerdict, Ended
<1>2. CASE Requested \/ Responded \/ WorkspaceChanged \/ Verified
  <2>1. /\ \E type \in EventTypes :
             trace' = Appended(trace, type) \/ trace' \in AppendFails(trace, type)
        /\ pc' \in {"adapter", "apply", "score", "finish", "caught"}
        /\ receipt' = receipt
    BY <1>2 DEF Requested, Responded, WorkspaceChanged, Verified, TriedEvent, Throw, EventTypes
  <2> QED
    BY <2>1, EventTInv DEF Points, BeforeVerdict
<1>3. CASE \/ \E outcome \in Process!Rejections : AdapterRejects(outcome)
           \/ \E code \in {"OML_ADAPTER_FAILED", "OML_ADAPTER_RESPONSE_INVALID"} :
                AdapterFails(code)
           \/ \E code \in Codes : ScorerRejects(code)
  BY <1>0, <1>3, QuietTInv DEF AdapterRejects, AdapterFails, ScorerRejects, Throw, Points
<1>4. CASE \E billing \in {"none", "consistent", "inconsistent"}, proposal \in Proposals :
             AdapterResponds(billing, proposal)
  <2>1. pc' \in {"caught", "stderr"} /\ trace' = trace /\ receipt' = receipt
    BY <1>4 DEF AdapterResponds, Throw
  <2> QED
    BY <1>0, <2>1, QuietTInv DEF Points, BeforeVerdict
<1>5. CASE StderrKept \/ OutputKept \/ ApplyFile \/ \E status \in {"passed", "failed"} : Scored(status)
  <2>1. /\ pc' \in {"caught", "respond", "verified", "stdout", pc}
        /\ trace' = trace /\ receipt' = receipt
    BY <1>5 DEF StderrKept, OutputKept, Put, ApplyFile, Scored, Throw
  <2> QED
    BY <1>0, <2>1, QuietTInv DEF Points, BeforeVerdict
<1>6. CASE VerifyTrace \/ OpenReceipt \/ WriteReceipt
  BY <1>0, <1>6, QuietTInv DEF VerifyTrace, OpenReceipt, WriteReceipt, Points, Ended
<1> QED
  BY <1>1, <1>2, <1>3, <1>4, <1>5, <1>6 DEF Step

LEMMA InitTInv == Init => TInv
<1> SUFFICES ASSUME Init PROVE TInv
  OBVIOUS
<1>1. TraceTyped
  BY DEF Init, NewTrace, TraceTyped, Traces
<1> QED
  BY <1>1 DEF Init, TInv, ControlTyped, Points, BeforeVerdict

LEMMA NextTInv == TInv /\ [Next]_vars => TInv'
<1> SUFFICES ASSUME TInv, [Next]_vars PROVE TInv'
  OBVIOUS
<1>1. CASE Step
  BY <1>1, StepTInv
<1>2. CASE Abort
  BY <1>2, QuietTInv DEF Abort, TInv, ControlTyped
<1>3. CASE Crash
  <2>1. pc' = "crashed" /\ receipt' = receipt
    BY <1>3 DEF Crash
  <2>2. TraceTyped'
    BY <1>3, AppendTyped DEF Crash, TInv, EventTypes
  <2> QED
    BY <2>1, <2>2 DEF TInv, ControlTyped, Points, Ended
<1>4. CASE UNCHANGED vars
  BY <1>4 DEF vars, TInv, TraceTyped, ControlTyped
<1> QED
  BY <1>1, <1>2, <1>3, <1>4 DEF Next

(* The state of a run keeps its types, for any proposals.                  *)
THEOREM TypeCorrect == Spec => []TypeOK
<1>1. IInv /\ TInv => TypeOK
  BY DEF IInv, RunTyped, TInv, TraceTyped, Traces, ControlTyped, Points, TypeOK
<1> QED
  BY <1>1, AlwaysIInv, InitTInv, NextTInv, PTL DEF Spec

-----------------------------------------------------------------------------
(***************************************************************************)
(* The trace of a run with a receipt.  Between its first and its last      *)
(* event a trace may hold torn and doubled lines: only verifyTrace tells,  *)
(* and from then on nothing is appended.                                   *)
(***************************************************************************)
Tried == EventTypes \ {"run.started", "run.finished"}

Opened(lines) ==
  /\ Len(lines) >= 1 /\ lines[1].type = "run.started"
  /\ \A i \in 2..Len(lines) : lines[i].type \notin {"run.started", "run.finished"}

Closed(lines) ==
  /\ Len(lines) >= 2
  /\ lines[1].type = "run.started" /\ lines[Len(lines)].type = "run.finished"
  /\ \A i \in 2..(Len(lines) - 1) : lines[i].type \notin {"run.started", "run.finished"}

TornMarked(lines) ==
  \A i \in 1..Len(lines) : lines[i].type = "torn" => lines[i].sequence = -1

Whole(lines) ==
  lines \in Seq(Lines(EventTypes)) /\ Closed(lines) /\ TornMarked(lines) /\ Verifies(lines)

TraceKept ==
  /\ TornMarked(trace.lines)
  /\ pc = "start" => Len(trace.lines) = 0
  /\ pc \in (BeforeVerdict \ {"start"}) \cup {"stdout", "verified", "caught", "finish"} =>
       Opened(trace.lines)
  /\ pc = "verify" => Closed(trace.lines)
  /\ pc \in {"receipt", "write", "returned"} => Whole(trace.lines)
  /\ receipt = "none" \/ pc \in {"write", "returned", "rejected", "crashed"}
  /\ receipt # "none" /\ pc = "rejected" => Whole(trace.lines)
  /\ receipt # "none" /\ pc = "crashed" =>
       \/ Whole(trace.lines)
       \/ \E lines : Whole(lines) /\ trace.lines = Append(lines, Torn)

(* What one more line does to a trace.                                     *)
LEMMA AppendLine ==
  ASSUME NEW lines \in Seq(Lines(EventTypes)), NEW line \in Lines(EventTypes)
  PROVE  /\ Append(lines, line) \in Seq(Lines(EventTypes))
         /\ Len(lines) \in Nat
         /\ Len(Append(lines, line)) = Len(lines) + 1
         /\ \A i \in 1..Len(lines) : Append(lines, line)[i] = lines[i]
         /\ Append(lines, line)[Len(lines) + 1] = line
  OBVIOUS

LEMMA EventLines ==
  ASSUME TraceTyped, NEW type \in EventTypes,
         trace' = Appended(trace, type) \/ trace' \in AppendFails(trace, type)
  PROVE  /\ trace.lines \in Seq(Lines(EventTypes))
         /\ EventLine(trace, type) \in Lines(EventTypes) /\ Torn \in Lines(EventTypes)
         /\ EventLine(trace, type).type = type /\ type # "torn"
         /\ \/ trace'.lines = Append(trace.lines, EventLine(trace, type))
            \/ /\ trace' \in AppendFails(trace, type)
               /\ trace'.lines \in {trace.lines, Append(trace.lines, Torn)}
  BY DEF TraceTyped, Traces, Appended, AppendFails, EventLine, EventTypes, Lines, Torn

LEMMA TornStaysMarked ==
  ASSUME TraceTyped, TornMarked(trace.lines), NEW type \in EventTypes,
         trace' = Appended(trace, type) \/ trace' \in AppendFails(trace, type)
  PROVE  TornMarked(trace'.lines)
<1> DEFINE ls == trace.lines
<1>1. ASSUME NEW line \in Lines(EventTypes), line.type = "torn" => line.sequence = -1
      PROVE  TornMarked(Append(ls, line))
  <2>1. ls \in Seq(Lines(EventTypes))
    BY DEF TraceTyped, Traces
  <2> HIDE DEF ls
  <2>2. SUFFICES ASSUME NEW i \in 1..(Len(ls) + 1), Append(ls, line)[i].type = "torn"
                 PROVE  Append(ls, line)[i].sequence = -1
    BY <2>1, AppendLine DEF TornMarked
  <2>3. CASE i \in 1..Len(ls)
    BY <2>1, <2>2, <2>3, AppendLine DEF TornMarked, ls
  <2>4. CASE i = Len(ls) + 1
    BY <1>1, <2>1, <2>2, <2>4, AppendLine
  <2> QED
    BY <2>1, <2>3, <2>4, AppendLine
<1>2. Torn.sequence = -1
  BY DEF Torn
<1> QED
  BY <1>1, <1>2, EventLines

LEMMA OpenedKept ==
  ASSUME TraceTyped, Opened(trace.lines), NEW type \in Tried,
         trace' = Appended(trace, type) \/ trace' \in AppendFails(trace, type)
  PROVE  Opened(trace'.lines)
<1> DEFINE ls == trace.lines
<1>1. ls \in Seq(Lines(EventTypes)) /\ Opened(ls)
  BY DEF TraceTyped, Traces
<1>2. ASSUME NEW line \in Lines(EventTypes), line.type \notin {"run.started", "run.finished"}
      PROVE  Opened(Append(ls, line))
  <2> HIDE DEF ls
  <2>1. /\ Len(ls) \in Nat /\ Len(Append(ls, line)) = Len(ls) + 1
        /\ \A i \in 1..Len(ls) : Append(ls, line)[i] = ls[i]
        /\ Append(ls, line)[Len(ls) + 1] = line
    BY <1>1, AppendLine
  <2>2. \A i \in 2..(Len(ls) + 1) :
          Append(ls, line)[i].type \notin {"run.started", "run.finished"}
    <3> TAKE i \in 2..(Len(ls) + 1)
    <3>1. i = Len(ls) + 1 \/ i \in 2..Len(ls)
      BY <2>1
    <3> QED
      BY <1>1, <1>2, <2>1, <3>1 DEF Opened
  <2> QED
    BY <1>1, <2>1, <2>2 DEF Opened
<1>3. Torn.type = "torn"
  BY DEF Torn
<1> QED
  BY <1>1, <1>2, <1>3, EventLines DEF Tried

(* The first event opens a trace, and the last closes it.                  *)
LEMMA FirstOpens ==
  ASSUME TraceTyped, Len(trace.lines) = 0, trace' = Appended(trace, "run.started")
  PROVE  Opened(trace'.lines)
<1> DEFINE ls == trace.lines
           line == EventLine(trace, "run.started")
<1>1. "run.started" \in EventTypes
  BY DEF EventTypes
<1>2. /\ ls \in Seq(Lines(EventTypes)) /\ line \in Lines(EventTypes)
      /\ line.type = "run.started" /\ trace'.lines = Append(ls, line)
      /\ Len(ls) = 0
  BY <1>1, EventLines DEF Appended
<1> HIDE DEF ls, line
<1>3. Len(Append(ls, line)) = 1 /\ Append(ls, line)[1] = line
  BY <1>2, AppendLine
<1> QED
  BY <1>2, <1>3 DEF Opened

LEMMA LastCloses ==
  ASSUME TraceTyped, Opened(trace.lines), trace' = Appended(trace, "run.finished")
  PROVE  Closed(trace'.lines)
<1> DEFINE ls == trace.lines
           line == EventLine(trace, "run.finished")
<1>1. "run.finished" \in EventTypes
  BY DEF EventTypes
<1>2. /\ ls \in Seq(Lines(EventTypes)) /\ line \in Lines(EventTypes)
      /\ line.type = "run.finished" /\ trace'.lines = Append(ls, line)
      /\ Opened(ls)
  BY <1>1, EventLines DEF Appended
<1> HIDE DEF ls, line
<1>3. /\ Len(ls) \in Nat /\ Len(Append(ls, line)) = Len(ls) + 1
      /\ \A i \in 1..Len(ls) : Append(ls, line)[i] = ls[i]
      /\ Append(ls, line)[Len(ls) + 1] = line
  BY <1>2, AppendLine
<1> DEFINE longer == Append(ls, line)
<1>4. Len(longer) = Len(ls) + 1 /\ Len(ls) \in Nat /\ Len(ls) >= 1
  BY <1>2, <1>3 DEF Opened
<1>5. longer[1].type = "run.started" /\ longer[Len(longer)].type = "run.finished"
  <2>1. longer[1] = ls[1] /\ longer[Len(longer)] = line
    BY <1>3, <1>4
  <2> QED
    BY <1>2, <2>1 DEF Opened
<1>6. ASSUME NEW i \in 2..Len(longer) - 1
      PROVE  longer[i].type \notin {"run.started", "run.finished"}
  <2>1. i \in 2..Len(ls) /\ i \in 1..Len(ls)
    BY <1>4
  <2>2. longer[i] = ls[i]
    BY <1>3, <2>1
  <2> QED
    BY <1>2, <2>1, <2>2 DEF Opened
<1> HIDE DEF longer
<1>7. trace'.lines = longer
  BY <1>2 DEF longer
<1> QED
  BY <1>4, <1>5, <1>6, <1>7 DEF Closed

LEMMA InitTraceKept == Init => TraceKept
<1> SUFFICES ASSUME Init PROVE TraceKept
  OBVIOUS
<1>1. Len(trace.lines) = 0 /\ pc = "start" /\ receipt = "none"
  BY DEF Init, NewTrace
<1>2. TornMarked(trace.lines)
  BY <1>1 DEF TornMarked
<1> QED
  BY <1>1, <1>2 DEF TraceKept, BeforeVerdict

(* Where a step that leaves the trace alone may lead.                      *)
LEMMA QuietTraceKept ==
  ASSUME TraceKept, trace' = trace, receipt' = receipt,
         \/ pc' = pc
         \/ /\ pc \in {"adapter", "stderr", "respond", "apply", "score", "stdout", "verified"}
            /\ pc' \in {"stderr", "respond", "stdout", "verified", "caught"}
         \/ pc' = "rejected" /\ receipt = "none"
  PROVE  TraceKept'
<1> QED
  BY DEF TraceKept, BeforeVerdict

LEMMA TriedTraceKept ==
  ASSUME TraceTyped, TraceKept, receipt' = receipt, NEW type \in Tried,
         trace' = Appended(trace, type) \/ trace' \in AppendFails(trace, type),
         pc \in {"request", "respond", "apply", "verified", "caught"},
         pc' \in {"adapter", "apply", "score", "finish", "caught", "rejected"}
  PROVE  TraceKept'
<1>1. Opened(trace.lines) /\ receipt = "none" /\ TornMarked(trace.lines)
  BY DEF TraceKept, BeforeVerdict
<1>2. Opened(trace'.lines) /\ TornMarked(trace'.lines)
  BY <1>1, OpenedKept, TornStaysMarked DEF Tried
<1> QED
  BY <1>1, <1>2 DEF TraceKept, BeforeVerdict

LEMMA OuterTraceKept ==
  ASSUME TraceTyped, TraceKept, Started \/ Finished
  PROVE  TraceKept'
<1>0. "run.started" \in EventTypes /\ "run.finished" \in EventTypes
  BY DEF EventTypes
<1>1. CASE Started
  <2>1. /\ pc = "start" /\ receipt = "none" /\ receipt' = receipt
        /\ Len(trace.lines) = 0 /\ TornMarked(trace.lines)
        /\ \/ trace' = Appended(trace, "run.started") /\ pc' = "request"
           \/ trace' \in AppendFails(trace, "run.started") /\ pc' = "rejected"
    BY <1>1 DEF Started, Event, TraceKept
  <2>2. TornMarked(trace'.lines)
    BY <1>0, <2>1, TornStaysMarked
  <2>3. pc' = "request" => Opened(trace'.lines)
    BY <2>1, FirstOpens
  <2> QED
    BY <2>1, <2>2, <2>3 DEF TraceKept, BeforeVerdict
<1>2. CASE Finished
  <2>1. /\ pc = "finish" /\ receipt = "none" /\ receipt' = receipt
        /\ Opened(trace.lines) /\ TornMarked(trace.lines)
        /\ \/ trace' = Appended(trace, "run.finished") /\ pc' = "verify"
           \/ trace' \in AppendFails(trace, "run.finished") /\ pc' = "rejected"
    BY <1>2 DEF Finished, Event, TraceKept
  <2>2. TornMarked(trace'.lines)
    BY <1>0, <2>1, TornStaysMarked
  <2>3. pc' = "verify" => Closed(trace'.lines)
    BY <2>1, LastCloses
  <2> QED
    BY <2>1, <2>2, <2>3 DEF TraceKept, BeforeVerdict
<1> QED
  BY <1>1, <1>2

(* verifyTrace makes a closed trace a whole one; the receipt follows.      *)
LEMMA ReceiptTraceKept ==
  ASSUME TraceTyped, TraceKept, VerifyTrace \/ OpenReceipt \/ WriteReceipt
  PROVE  TraceKept'
<1>1. CASE VerifyTrace
  <2>1. /\ pc = "verify" /\ UNCHANGED <<trace, receipt>>
        /\ pc' \in {"receipt", "rejected"}
        /\ pc' = "receipt" => Verifies(trace.lines)
    BY <1>1 DEF VerifyTrace
  <2>2. receipt = "none" /\ Closed(trace.lines) /\ TornMarked(trace.lines)
    BY <2>1 DEF TraceKept
  <2>3. pc' = "receipt" => Whole(trace.lines)
    BY <2>1, <2>2 DEF Whole, TraceTyped, Traces
  <2> QED
    BY <2>1, <2>2, <2>3 DEF TraceKept, BeforeVerdict
<1>2. CASE OpenReceipt \/ WriteReceipt
  <2>1. /\ pc \in {"receipt", "write"} /\ trace' = trace
        /\ pc' \in {"write", "rejected", "returned"}
    BY <1>2 DEF OpenReceipt, WriteReceipt
  <2>2. Whole(trace.lines) /\ TornMarked(trace.lines)
    BY <2>1 DEF TraceKept
  <2> QED
    BY <2>1, <2>2 DEF TraceKept, BeforeVerdict
<1> QED
  BY <1>1, <1>2

LEMMA CrashTraceKept == ASSUME TraceTyped, TraceKept, Crash PROVE TraceKept'
<1>1. /\ pc \notin Ended /\ pc' = "crashed" /\ receipt' = receipt
      /\ trace' = trace \/ trace' = [trace EXCEPT !.lines = Append(@, Torn)]
  BY DEF Crash
<1>2. /\ trace.lines \in Seq(Lines(EventTypes))
      /\ trace' = trace \/ trace'.lines = Append(trace.lines, Torn)
      /\ Torn \in Lines(EventTypes) /\ Torn.sequence = -1
  BY <1>1 DEF TraceTyped, Traces, Torn, Lines
<1>3. TornMarked(trace'.lines)
  <2>1. CASE trace' = trace
    BY <2>1 DEF TraceKept
  <2>2. CASE trace'.lines = Append(trace.lines, Torn)
    <3> DEFINE ls == trace.lines
    <3>1. TornMarked(ls) /\ ls \in Seq(Lines(EventTypes))
      BY <1>2 DEF TraceKept
    <3> HIDE DEF ls
    <3>2. TornMarked(Append(ls, Torn))
      <4>1. SUFFICES ASSUME NEW i \in 1..(Len(ls) + 1), Append(ls, Torn)[i].type = "torn"
                     PROVE  Append(ls, Torn)[i].sequence = -1
        BY <1>2, <3>1, AppendLine DEF TornMarked
      <4>2. CASE i \in 1..Len(ls)
        BY <1>2, <3>1, <4>1, <4>2, AppendLine DEF TornMarked
      <4>3. CASE i = Len(ls) + 1
        BY <1>2, <3>1, <4>3, AppendLine
      <4> QED
        BY <1>2, <3>1, <4>2, <4>3, AppendLine
    <3> QED
      BY <2>2, <3>2 DEF ls
  <2> QED
    BY <1>2, <2>1, <2>2
<1>4. receipt # "none" => pc = "write" /\ Whole(trace.lines)
  BY <1>1 DEF TraceKept, Ended
<1> QED
  BY <1>1, <1>2, <1>3, <1>4 DEF TraceKept, BeforeVerdict

LEMMA NextTraceKept == TInv /\ TraceKept /\ [Next]_vars => TraceKept'
<1> SUFFICES ASSUME TInv, TraceKept, [Next]_vars PROVE TraceKept'
  OBVIOUS
<1>0. TraceTyped
  BY DEF TInv
<1>1. CASE Started \/ Finished
  BY <1>0, <1>1, OuterTraceKept
<1>2. CASE Requested \/ Responded \/ WorkspaceChanged \/ Verified \/ ErrorTraced
  <2>1. \E type \in Tried :
          /\ trace' = Appended(trace, type) \/ trace' \in AppendFails(trace, type)
          /\ receipt' = receipt
          /\ pc \in {"request", "respond", "apply", "verified", "caught"}
          /\ pc' \in {"adapter", "apply", "score", "finish", "caught", "rejected"}
    BY <1>2 DEF Requested, Responded, WorkspaceChanged, Verified, ErrorTraced, TriedEvent,
                Event, Throw, Tried, EventTypes
  <2> QED
    BY <1>0, <2>1, TriedTraceKept
<1>3. CASE \/ \E outcome \in Process!Rejections : AdapterRejects(outcome)
           \/ \E code \in {"OML_ADAPTER_FAILED", "OML_ADAPTER_RESPONSE_INVALID"} :
                AdapterFails(code)
           \/ \E billing \in {"none", "consistent", "inconsistent"}, proposal \in Proposals :
                AdapterResponds(billing, proposal)
  <2>1. pc = "adapter" /\ pc' \in {"caught", "stderr"} /\ trace' = trace /\ receipt' = receipt
    BY <1>3 DEF AdapterRejects, AdapterFails, AdapterResponds, Throw
  <2> QED
    BY <2>1, QuietTraceKept
<1>4. CASE \/ \E code \in Codes : ScorerRejects(code)
           \/ \E status \in {"passed", "failed"} : Scored(status)
           \/ StderrKept \/ OutputKept \/ ApplyFile
  <2>1. /\ trace' = trace /\ receipt' = receipt
        /\ pc \in {"stderr", "apply", "score", "stdout"}
        /\ pc' = pc \/ pc' \in {"respond", "stdout", "verified", "caught"}
    BY <1>4 DEF ScorerRejects, Scored, StderrKept, OutputKept, Put, ApplyFile, Throw
  <2> QED
    BY <2>1, QuietTraceKept
<1>5. CASE VerifyTrace \/ OpenReceipt \/ WriteReceipt
  BY <1>0, <1>5, ReceiptTraceKept
<1>6. CASE Crash
  BY <1>0, <1>6, CrashTraceKept
<1>7. CASE Abort \/ UNCHANGED vars
  BY <1>7, QuietTraceKept DEF Abort, vars
<1> QED
  BY <1>1, <1>2, <1>3, <1>4, <1>5, <1>6, <1>7 DEF Next, Step

(* A receipt is written only for a trace without a gap, a torn or a        *)
(* doubled line, from run.started to run.finished (runner.ts:216), and     *)
(* only a crash can add a torn line to it.                                 *)
THEOREM ReceiptsHaveWholeTraces == Spec => []ReceiptHasWholeTrace
<1>1. TInv /\ TraceKept => ReceiptHasWholeTrace
  <2> DEFINE lines == trace.lines
             whole == IF pc = "crashed" /\ lines[Len(lines)] = Torn
                      THEN SubSeq(lines, 1, Len(lines) - 1) ELSE lines
  <2> SUFFICES ASSUME TInv, TraceKept, receipt # "none" PROVE Whole(whole)
    <3>1. ASSUME NEW ls, Whole(ls)
          PROVE  /\ \A i \in 1..Len(ls) : ls[i].sequence = i - 1
                 /\ ls[1].type = "run.started"
                 /\ ls[Len(ls)].type = "run.finished"
                 /\ \A i \in 2..(Len(ls) - 1) :
                      ls[i].type \notin {"run.started", "run.finished", "torn"}
      BY <3>1 DEF Whole, Closed, Verifies, TornMarked
    <3> QED
      BY <3>1 DEF ReceiptHasWholeTrace
  <2>1. ASSUME NEW ls, Whole(ls)
        PROVE  ls[Len(ls)] # Torn
    BY <2>1 DEF Whole, Closed, Torn
  <2>2. ASSUME NEW ls, Whole(ls)
        PROVE  LET more == Append(ls, Torn)
               IN  more[Len(more)] = Torn /\ SubSeq(more, 1, Len(more) - 1) = ls
    BY <2>2 DEF Whole, Torn, Lines
  <2>3. pc \in {"write", "returned", "rejected"} => Whole(trace.lines)
    BY DEF TraceKept
  <2>4. pc \in {"write", "returned", "rejected", "crashed"}
    BY DEF TraceKept
  <2>5. pc = "crashed" =>
          Whole(trace.lines) \/ \E ls : Whole(ls) /\ trace.lines = Append(ls, Torn)
    BY DEF TraceKept
  <2> QED
    BY <2>1, <2>2, <2>3, <2>4, <2>5
<1> QED
  BY <1>1, InitTInv, NextTInv, InitTraceKept, NextTraceKept, PTL DEF Spec

-----------------------------------------------------------------------------
(***************************************************************************)
(* A completed run.  As long as nothing has been thrown the trace holds    *)
(* the events up to where the run is, and a run that was caught cannot     *)
(* become completed again.                                                 *)
(***************************************************************************)
Story == <<"run.started", "adapter.requested", "adapter.responded",
           "workspace.changed", "configured_verifier.finished", "run.finished">>

Follows(n) ==
  Len(trace.lines) = n /\ \A i \in 1..n : trace.lines[i].type = Story[i]

Unthrown ==
  /\ pc = "start" => Follows(0)
  /\ pc = "request" => Follows(1)
  /\ pc \in {"adapter", "stderr", "respond"} => Follows(2)
  /\ pc = "apply" => Follows(3)
  /\ pc \in {"score", "stdout", "verified"} => Follows(4)
  /\ pc \in BeforeVerdict \cup {"stdout", "verified"} => run.error_codes = {}
  /\ pc \in {"stderr", "respond", "apply", "score", "stdout", "verified"} =>
       run.adapter_status = "passed"
  /\ pc \in {"score", "stdout", "verified"} => files = <<>>
  /\ pc \in {"stdout", "verified"} => run.configured_verifier # "not_run"

EarnedSo ==
  /\ files = <<>>
  /\ run.adapter_status = "passed"
  /\ run.billing # "inconsistent"
  /\ run.configured_verifier # "not_run"
  /\ run.error_codes = IF run.configured_verifier = "failed"
                        THEN {"OML_VERIFIER_FAILED"} ELSE {}

Completed ==
  run.run_status = "completed" =>
    /\ pc \in {"finish", "verify", "receipt", "write"} \cup Ended
    /\ EarnedSo
    /\ pc = "finish" => Follows(5)
    /\ pc \in {"verify", "receipt", "write", "returned"} => Follows(6)

EInv == Unthrown /\ Completed /\ (receipt = "whole" => pc = "returned")

(* The next event of the story.                                            *)
LEMMA FollowsOn ==
  ASSUME TraceTyped, NEW n \in 0..5, Follows(n), trace' = Appended(trace, Story[n + 1])
  PROVE  Follows(n + 1)'
<1> DEFINE ls == trace.lines
           line == EventLine(trace, Story[n + 1])
<1>1. Story[n + 1] \in EventTypes
  BY DEF Story, EventTypes
<1>2. /\ ls \in Seq(Lines(EventTypes)) /\ line \in Lines(EventTypes)
      /\ line.type = Story[n + 1] /\ trace'.lines = Append(ls, line)
  BY <1>1, EventLines DEF Appended
<1>3. Len(ls) = n /\ \A i \in 1..n : ls[i].type = Story[i]
  BY DEF Follows
<1> HIDE DEF ls, line
<1>4. /\ Len(Append(ls, line)) = n + 1
      /\ \A i \in 1..n : Append(ls, line)[i] = ls[i]
      /\ Append(ls, line)[n + 1] = line
  BY <1>2, <1>3, AppendLine
<1>5. \A i \in 1..(n + 1) : Append(ls, line)[i].type = Story[i]
  <2> TAKE i \in 1..(n + 1)
  <2>1. i \in 1..n \/ i = n + 1
    OBVIOUS
  <2> QED
    BY <1>2, <1>3, <1>4, <2>1
<1> QED
  BY <1>2, <1>4, <1>5 DEF Follows

(* What was thrown is caught with an error or a cancellation.              *)
LEMMA ThrowEInv ==
  ASSUME EInv, NEW r \in Runs, NEW code \in Codes, Throw(r, code), receipt' = receipt,
         pc \in BeforeVerdict \cup {"stdout", "verified"}
  PROVE  EInv'
<1>1. run'.run_status # "completed" /\ pc' = "caught" /\ receipt # "whole"
  BY CaughtIsRun DEF Throw, EInv, BeforeVerdict
<1> QED
  BY <1>1 DEF EInv, Unthrown, Completed, BeforeVerdict

(* A step of the try block that says nothing new about the run.            *)
LEMMA TriedEInv ==
  ASSUME IInv, TraceTyped, EInv, Requested \/ Responded \/ WorkspaceChanged \/ StderrKept \/ OutputKept
  PROVE  EInv'
<1>1. /\ run \in Runs /\ receipt' = receipt /\ files' = files
      /\ pc \in BeforeVerdict \cup {"stdout", "verified"}
  BY DEF IInv, RunTyped, Requested, Responded, WorkspaceChanged, StderrKept, OutputKept,
         TriedEvent, Put, BeforeVerdict
<1>2. CASE Throw(run, "OML_INTERNAL")
  BY <1>1, <1>2, SomeCodes, ThrowEInv
<1>3. CASE Requested /\ ~Throw(run, "OML_INTERNAL")
  <2>1. /\ pc = "request" /\ pc' = "adapter" /\ run' = run
        /\ trace' = Appended(trace, Story[1 + 1]) /\ Follows(1)
    BY <1>3 DEF Requested, TriedEvent, Story, EInv, Unthrown
  <2>2. Follows(2)'
    BY <2>1, FollowsOn
  <2> QED
    BY <1>1, <2>1, <2>2 DEF EInv, Unthrown, Completed, BeforeVerdict, Ended
<1>4. CASE Responded /\ ~Throw(run, "OML_INTERNAL")
  <2>1. /\ pc = "respond" /\ pc' = "apply" /\ run' = run
        /\ trace' = Appended(trace, Story[2 + 1]) /\ Follows(2)
    BY <1>4 DEF Responded, TriedEvent, Story, EInv, Unthrown
  <2>2. Follows(3)'
    BY <2>1, FollowsOn
  <2> QED
    BY <1>1, <2>1, <2>2 DEF EInv, Unthrown, Completed, BeforeVerdict, Ended
<1>5. CASE WorkspaceChanged /\ ~Throw(run, "OML_INTERNAL")
  <2>1. /\ pc = "apply" /\ pc' = "score" /\ run' = run /\ files = <<>>
        /\ trace' = Appended(trace, Story[3 + 1]) /\ Follows(3)
    BY <1>5 DEF WorkspaceChanged, TriedEvent, Story, EInv, Unthrown
  <2>2. Follows(4)'
    BY <2>1, FollowsOn
  <2> QED
    BY <1>1, <2>1, <2>2 DEF EInv, Unthrown, Completed, BeforeVerdict, Ended
<1>6. CASE (StderrKept \/ OutputKept) /\ ~Throw(run, "OML_INTERNAL")
  <2>1. /\ run' = run /\ trace' = trace
        /\ \/ pc = "stderr" /\ pc' = "respond"
           \/ pc = "stdout" /\ pc' = "verified"
    BY <1>6 DEF StderrKept, OutputKept, Put
  <2> QED
    BY <1>1, <2>1 DEF EInv, Unthrown, Completed, Follows, BeforeVerdict, Ended
<1> QED
  BY <1>2, <1>3, <1>4, <1>5, <1>6

LEMMA AdapterEInv ==
  ASSUME IInv, EInv,
         \/ \E outcome \in Process!Rejections : AdapterRejects(outcome)
         \/ \E code \in {"OML_ADAPTER_FAILED", "OML_ADAPTER_RESPONSE_INVALID"} :
              AdapterFails(code)
         \/ \E billing \in {"none", "consistent", "inconsistent"}, proposal \in Proposals :
              AdapterResponds(billing, proposal)
  PROVE  EInv'
<1>1. pc = "adapter" /\ run \in Runs /\ receipt' = receipt /\ trace' = trace
  BY DEF AdapterRejects, AdapterFails, AdapterResponds, IInv, RunTyped
<1>2. CASE \E code \in Codes : Throw(run, code)
  BY <1>1, <1>2, ThrowEInv DEF BeforeVerdict
<1>3. ASSUME NEW billing \in {"none", "consistent", "inconsistent"},
             NEW proposal \in Proposals, AdapterResponds(billing, proposal)
      PROVE  EInv'
  <2> DEFINE answered == [run EXCEPT !.adapter_status = "passed", !.billing = billing]
  <2>1. /\ answered \in Runs /\ answered.adapter_status = "passed"
        /\ answered.run_status = run.run_status /\ answered.error_codes = run.error_codes
    BY <1>1 DEF Runs
  <2>2. \/ Throw(answered, "OML_RECEIPT_INCONSISTENT")
        \/ run' = answered /\ pc' = "stderr"
    BY <1>3 DEF AdapterResponds
  <2> HIDE DEF answered
  <2>3. CASE Throw(answered, "OML_RECEIPT_INCONSISTENT")
    BY <1>1, <2>1, <2>3, ThrowEInv, SomeCodes DEF BeforeVerdict
  <2>4. CASE run' = answered /\ pc' = "stderr"
    <3>1. run.error_codes = {} /\ run.run_status # "completed" /\ Follows(2)
      BY <1>1 DEF EInv, Unthrown, Completed, Ended, BeforeVerdict
    <3> QED
      BY <1>1, <2>1, <2>4, <3>1 DEF EInv, Unthrown, Completed, Follows, BeforeVerdict
  <2> QED
    BY <2>2, <2>3, <2>4
<1> QED
  BY <1>2, <1>3, SomeCodes DEF AdapterRejects, AdapterFails

LEMMA ApplyScoreEInv ==
  ASSUME IInv, EInv,
         \/ ApplyFile
         \/ \E code \in Codes : ScorerRejects(code)
         \/ \E status \in {"passed", "failed"} : Scored(status)
  PROVE  EInv'
<1>1. /\ pc \in {"apply", "score"} /\ run \in Runs
      /\ receipt' = receipt /\ trace' = trace
  BY DEF ApplyFile, ScorerRejects, Scored, IInv, RunTyped
<1>2. CASE \E code \in Codes : Throw(run, code)
  BY <1>1, <1>2, ThrowEInv DEF BeforeVerdict
<1>3. CASE ApplyFile /\ UNCHANGED <<pc, run>>
  BY <1>1, <1>3 DEF ApplyFile, EInv, Unthrown, Completed, Follows, BeforeVerdict, Ended
<1>4. ASSUME NEW status \in {"passed", "failed"}, Scored(status)
      PROVE  EInv'
  <2>1. /\ pc = "score" /\ pc' = "stdout" /\ files' = files
        /\ run' = [run EXCEPT !.configured_verifier = status]
    BY <1>4 DEF Scored
  <2>2. /\ run'.configured_verifier = status /\ run'.error_codes = run.error_codes
        /\ run'.adapter_status = run.adapter_status /\ run'.run_status = run.run_status
    BY <1>1, <2>1 DEF Runs
  <2> QED
    BY <1>1, <2>1, <2>2 DEF EInv, Unthrown, Completed, Follows, BeforeVerdict, Ended
<1> QED
  BY <1>2, <1>3, <1>4, SomeCodes DEF ApplyFile, ScorerRejects

LEMMA VerifiedEInv == ASSUME IInv, TraceTyped, EInv, Verified PROVE EInv'
<1>1. pc = "verified" /\ run \in Runs /\ receipt' = receipt /\ files' = files
  BY DEF Verified, IInv, RunTyped
<1>2. CASE Throw(run, "OML_INTERNAL")
  BY <1>1, <1>2, ThrowEInv, SomeCodes
<1>3. CASE /\ trace' = Appended(trace, "configured_verifier.finished")
           /\ run' = [run EXCEPT !.run_status = "completed",
                        !.error_codes = IF run.configured_verifier = "failed"
                                        THEN @ \cup {"OML_VERIFIER_FAILED"} ELSE @]
           /\ pc' = "finish"
  <2>1. /\ run.error_codes = {} /\ run.adapter_status = "passed" /\ files = <<>>
        /\ run.configured_verifier # "not_run" /\ run.billing # "inconsistent"
        /\ Follows(4) /\ receipt # "whole"
    BY <1>1 DEF EInv, Unthrown, IInv, BillingChecked
  <2>2. /\ run'.adapter_status = run.adapter_status /\ run'.billing = run.billing
        /\ run'.configured_verifier = run.configured_verifier
        /\ run'.error_codes = IF run.configured_verifier = "failed"
                               THEN run.error_codes \cup {"OML_VERIFIER_FAILED"}
                               ELSE run.error_codes
    BY <1>1, <1>3 DEF Runs
  <2>3. Follows(5)'
    BY <1>3, <2>1, FollowsOn DEF Story
  <2>4. EarnedSo'
    BY <1>1, <2>1, <2>2 DEF EarnedSo
  <2> QED
    BY <1>1, <1>3, <2>1, <2>3, <2>4 DEF EInv, Unthrown, Completed, BeforeVerdict
<1> QED
  BY <1>2, <1>3 DEF Verified

LEMMA OuterEInv ==
  ASSUME TraceTyped, EInv,
         \/ Started \/ ErrorTraced \/ Finished
         \/ VerifyTrace \/ OpenReceipt \/ WriteReceipt \/ Crash \/ Abort
  PROVE  EInv'
<1>1. run' = run /\ files' = files /\ (EarnedSo' <=> EarnedSo)
  BY DEF Started, ErrorTraced, Finished, Event, VerifyTrace, OpenReceipt, WriteReceipt,
         Crash, Abort, EarnedSo
<1>2. CASE Started \/ ErrorTraced \/ Finished
  <2>1. CASE pc' = "rejected"
    BY <1>1, <1>2, <2>1
    DEF Started, ErrorTraced, Finished, Event, EInv, Unthrown, Completed, BeforeVerdict, Ended
  <2>2. CASE Started /\ pc' # "rejected"
    <3>1. /\ pc = "start" /\ pc' = "request" /\ receipt' = receipt
          /\ trace' = Appended(trace, Story[0 + 1]) /\ Follows(0)
      BY <2>2 DEF Started, Event, Story, EInv, Unthrown
    <3>2. Follows(1)'
      BY <3>1, FollowsOn
    <3> QED
      BY <1>1, <3>1, <3>2 DEF EInv, Unthrown, Completed, BeforeVerdict, Ended
  <2>3. CASE ErrorTraced /\ pc' # "rejected"
    BY <1>1, <2>3 DEF ErrorTraced, Event, EInv, Unthrown, Completed, BeforeVerdict, Ended
  <2>4. CASE Finished /\ pc' # "rejected"
    <3>1. /\ pc = "finish" /\ pc' = "verify" /\ receipt' = receipt
          /\ trace' = Appended(trace, Story[5 + 1])
          /\ run.run_status = "completed" => Follows(5)
      BY <2>4 DEF Finished, Event, Story, EInv, Completed
    <3>2. run.run_status = "completed" => Follows(6)'
      BY <3>1, FollowsOn
    <3> QED
      BY <1>1, <3>1, <3>2 DEF EInv, Unthrown, Completed, BeforeVerdict
  <2> QED
    BY <1>2, <2>1, <2>2, <2>3, <2>4
<1>3. CASE VerifyTrace \/ OpenReceipt \/ WriteReceipt
  BY <1>1, <1>3 DEF VerifyTrace, OpenReceipt, WriteReceipt, EInv, Unthrown, Completed,
                    Follows, BeforeVerdict, Ended
<1>4. CASE Crash
  BY <1>1, <1>4 DEF Crash, EInv, Unthrown, Completed, BeforeVerdict, Ended
<1>5. CASE Abort
  BY <1>1, <1>5 DEF Abort, EInv, Unthrown, Completed, Follows, Ended
<1> QED
  BY <1>2, <1>3, <1>4, <1>5

LEMMA NextEInv == IInv /\ TInv /\ EInv /\ [Next]_vars => EInv'
<1>1. IInv /\ TInv /\ EInv /\ UNCHANGED vars => EInv'
  BY DEF vars, EInv, Unthrown, Completed, EarnedSo, Follows
<1> QED
  BY <1>1, TriedEInv, AdapterEInv, ApplyScoreEInv, VerifiedEInv, OuterEInv
  DEF Next, Step, TInv

(* A completed run has every event of its story in the trace, its files in *)
(* the workspace, a bill that adds up and a verdict (runner.ts:188-189).   *)
THEOREM CompletedRunsAreEarned == Spec => []CompletedIsEarned
<1>1. Init => EInv
  BY DEF Init, NewRun, NewTrace, EInv, Unthrown, Completed, Follows, BeforeVerdict
<1>2. TInv /\ EInv => CompletedIsEarned
  <2> SUFFICES ASSUME TInv, EInv, Says("completed") PROVE CompletedIsEarned
    BY DEF CompletedIsEarned
  <2>1. EarnedSo /\ Follows(6)
    BY DEF EInv, Completed, Says
  <2>2. TypesOf(trace.lines) = Story
    BY <2>1 DEF Follows, TypesOf, Story
  <2> QED
    BY <2>1, <2>2 DEF CompletedIsEarned, EarnedSo, Story
<1> QED
  BY <1>1, <1>2, AlwaysIInv, InitTInv, NextTInv, NextEInv, PTL DEF Spec

-----------------------------------------------------------------------------
(***************************************************************************)
(* RunPreparation.  The files as anybody may leave them, and the values a  *)
(* preparation holds of them.                                              *)
(***************************************************************************)
Records ==
  [items : SUBSET [reviewer : People, clean : BOOLEAN, level : Levels],
   author : People, dispute : Disputes,
   of : Contents, latest : Contents, final : BOOLEAN]

Packets == [content : Contents, declared : Contents, binds : Records]

Pins == [fixture : FixtureVersions, packet : Packets, review : Records]

Options == [treatment : Treatments, paths : SUBSET Paths, design : Designs,
            withFreeze : BOOLEAN, pinned : Pins \cup {NoFile}]

Preparations ==
  [pc : {"idle", "fixture", "freeze", "load", "judge", "prepared", "rejected"},
   opt : Options \cup {NoOptions},
   fixture : FixtureVersions \cup {NoFile}, freeze : Pins \cup {NoFile},
   packet : Packets \cup {NoFile}, review : Records \cup {NoFile},
   assistance : Contents \cup {NoFile}]

(* Whoever signed a record was shown what it is of, or the record was      *)
(* brought there with the signature.                                       *)
AnsweredFor(r) == \A i \in r.items : <<i.reviewer, r.of>> \in shown \cup carried

SignaturesKnown == \A r \in bound \cup {review} : AnsweredFor(r)

FilesTyped ==
  /\ packet \in Packets /\ review \in Records /\ fixture \in FixtureVersions
  /\ freeze \in Pins \cup {NoFile}
  /\ packet.binds \in bound
  /\ SignaturesKnown
  /\ freeze = NoFile \/ freeze \in snapshots

(* What is known of a preparation that got past the options.               *)
Loading ==
  /\ prep.opt \in Options
  /\ prep.opt.withFreeze => prep.freeze \in snapshots
  /\ prep.opt.paths # {} => Given /\ prep.opt.treatment \notin Controls

PacketHeld == prep.packet \in Packets /\ prep.packet.binds \in bound
PairHeld == PacketHeld /\ prep.review \in Records

Judged ==
  /\ Given => /\ PairHeld
              /\ Bindings(prep.packet, prep.review, prep.opt.treatment, prep.opt.design)
              /\ ~prep.packet.content.leaks
  /\ prep.assistance = IF Given THEN prep.packet.content ELSE NoFile
  /\ prep.opt.withFreeze => RunMatchesFreeze
  /\ prep.opt.treatment \in Levels => Given

PInv ==
  /\ prep \in Preparations
  /\ FilesTyped
  /\ prep.pc \in {"fixture", "freeze"} => prep.opt \in Options
  /\ prep.pc \in {"idle", "fixture", "freeze"} => prep.packet = NoFile
  /\ prep.pc \in {"load", "judge", "prepared"} => Loading
  /\ prep.pc = "load" => Given /\ (prep.packet # NoFile => PacketHeld)
  /\ prep.pc = "judge" /\ Given => PairHeld
  /\ prep.pc = "prepared" => Judged

LEMMA InitPInv == PrepInit => PInv
<1> SUFFICES ASSUME PrepInit PROVE PInv
  OBVIOUS
<1>1. review \in Records /\ packet \in Packets /\ packet.binds = review /\ AnsweredFor(review)
  <2>1. PICK c \in Contents, who \in People, author \in People :
          /\ review = [items |-> {[reviewer |-> who, clean |-> TRUE, level |-> c.level]},
                       author |-> author, dispute |-> "none",
                       of |-> c, latest |-> c, final |-> TRUE]
          /\ shown = {<<who, c>>}
    BY DEF PrepInit
  <2>3. c.level \in Levels
    BY PreparationAssumption
  <2>2. review \in Records /\ review.of \in Contents /\ AnsweredFor(review)
    BY <2>1, <2>3 DEF Records, Disputes, AnsweredFor
  <2> QED
    BY <2>2 DEF PrepInit, Packets
<1>2. freeze \in Pins \cup {NoFile} /\ (freeze = NoFile \/ freeze \in snapshots)
  <2>1. Pinned \in Pins
    BY <1>1 DEF PrepInit, Pinned, Pins
  <2>2. freeze \in {NoFile, Pinned} /\ snapshots = {freeze} \ {NoFile}
    BY DEF PrepInit
  <2> QED
    BY <2>1, <2>2
<1>5. SignaturesKnown
  BY <1>1 DEF PrepInit, SignaturesKnown
<1>3. FilesTyped
  BY <1>1, <1>2, <1>5 DEF PrepInit, FilesTyped
<1>4. prep \in Preparations /\ prep.pc = "idle" /\ prep.packet = NoFile
  BY DEF PrepInit, Unprepared, Preparations
<1> QED
  BY <1>3, <1>4 DEF PInv

LEMMA FilesKeep == FilesTyped /\ FilesStay => FilesTyped' /\ UNCHANGED <<bound, snapshots>>
<1> SUFFICES ASSUME FilesTyped, FilesStay PROVE FilesTyped' /\ UNCHANGED <<bound, snapshots>>
  OBVIOUS
<1>1. UNCHANGED <<packet, review, fixture, freeze, bound, shown, carried, snapshots>>
  BY DEF FilesStay, historyVars
<1>2. SignaturesKnown'
  BY <1>1 DEF FilesTyped, SignaturesKnown, AnsweredFor
<1> QED
  BY <1>1, <1>2 DEF FilesTyped

(* A rejected preparation has nothing.                                     *)
LEMMA RejectPInv == ASSUME PInv, Reject, FilesStay PROVE PInv'
<1>1. prep' \in Preparations /\ prep'.pc = "rejected"
  BY DEF Reject, Unprepared, Preparations
<1>2. FilesTyped'
  BY FilesKeep DEF PInv
<1> QED
  BY <1>1, <1>2 DEF PInv

LEMMA BeginPInv == ASSUME PInv, BeginPreparation PROVE PInv'
<1>1. FilesTyped' /\ FilesTyped
  BY FilesKeep DEF PInv, BeginPreparation
<1>2. PICK opt \in Options : prep' = [prep EXCEPT !.pc = "fixture", !.opt = opt]
  <2>1. PICK t \in Treatments, ps \in SUBSET Paths, d \in Designs, f \in BOOLEAN, pin \in {NoFile, Pinned} :
          prep' = [prep EXCEPT !.pc = "fixture",
                     !.opt = [treatment |-> t, paths |-> ps, withFreeze |-> f, pinned |-> pin,
                              design |-> IF t = "verification_gap" THEN "independent" ELSE d]]
    BY DEF BeginPreparation
  <2>2. Pinned \in Pins
    BY <1>1 DEF FilesTyped, Pinned, Pins
  <2>3. [treatment |-> t, paths |-> ps, withFreeze |-> f, pinned |-> pin,
         design |-> IF t = "verification_gap" THEN "independent" ELSE d] \in Options
    BY <2>2 DEF Options, Designs
  <2> QED
    BY <2>1, <2>3
<1>3. /\ prep' \in Preparations /\ prep'.pc = "fixture" /\ prep'.opt \in Options
      /\ prep'.packet = prep.packet /\ prep.pc = "idle"
  BY <1>2 DEF PInv, Preparations, BeginPreparation
<1> QED
  BY <1>1, <1>3 DEF PInv

LEMMA LoadFixturePInv == ASSUME PInv, LoadFixture PROVE PInv'
<1>1. CASE Reject
  BY <1>1, RejectPInv DEF LoadFixture
<1>2. CASE prep' = [prep EXCEPT !.pc = "freeze", !.fixture = fixture]
  <2>1. FilesTyped' /\ fixture \in FixtureVersions /\ prep.pc = "fixture"
    BY FilesKeep DEF PInv, FilesTyped, LoadFixture
  <2>2. /\ prep' \in Preparations /\ prep'.pc = "freeze" /\ prep'.opt = prep.opt
        /\ prep'.packet = prep.packet
    BY <1>2, <2>1 DEF PInv, Preparations
  <2> QED
    BY <2>1, <2>2 DEF PInv
<1> QED
  BY <1>1, <1>2 DEF LoadFixture

LEMMA LoadFreezePInv == ASSUME PInv, LoadFreeze PROVE PInv'
<1>1. CASE Reject
  BY <1>1, RejectPInv DEF LoadFreeze
<1>2. CASE ~Reject
  <2>1. /\ FilesTyped' /\ FilesTyped /\ prep.pc = "freeze" /\ prep.opt \in Options
        /\ prep.packet = NoFile /\ UNCHANGED <<bound, snapshots>>
    BY FilesKeep DEF PInv, LoadFreeze
  <2>2. /\ prep.opt.withFreeze => freeze # NoFile
        /\ prep.opt.paths # {} => Given /\ prep.opt.treatment \notin Controls
        /\ prep' = [prep EXCEPT !.pc = IF Given THEN "load" ELSE "judge",
                      !.freeze = IF prep.opt.withFreeze THEN freeze ELSE NoFile]
    BY <1>2 DEF LoadFreeze, Given
  <2>3. /\ prep' \in Preparations /\ prep'.pc = IF Given THEN "load" ELSE "judge"
        /\ prep'.freeze = IF prep.opt.withFreeze THEN freeze ELSE NoFile
        /\ prep'.opt = prep.opt /\ prep'.packet = NoFile
    BY <2>1, <2>2 DEF PInv, Preparations, FilesTyped
  <2>4. Given' <=> Given
    BY <2>3 DEF Given
  <2>5. Loading'
    <3>1. prep'.opt.withFreeze => prep'.freeze \in snapshots'
      BY <2>1, <2>2, <2>3 DEF FilesTyped
    <3> QED
      BY <2>1, <2>2, <2>3, <2>4, <3>1 DEF Loading
  <2> QED
    BY <2>1, <2>3, <2>4, <2>5 DEF PInv
<1> QED
  BY <1>1, <1>2

LEMMA LoadPairPInv == ASSUME PInv, LoadPacket \/ LoadReview PROVE PInv'
<1>1. /\ FilesTyped' /\ packet \in Packets /\ packet.binds \in bound /\ review \in Records
      /\ prep.pc = "load" /\ Loading /\ Given /\ UNCHANGED <<bound, snapshots>>
      /\ prep.packet # NoFile => PacketHeld
  BY FilesKeep DEF PInv, FilesTyped, LoadPacket, LoadReview
<1>2. CASE LoadPacket
  <2>1. /\ prep' \in Preparations /\ prep'.opt = prep.opt /\ prep'.freeze = prep.freeze
        /\ prep'.packet = packet /\ prep'.review = prep.review
        /\ prep'.pc = IF prep.review = NoFile THEN "load" ELSE "judge"
        /\ prep.review \in Records \cup {NoFile}
    BY <1>1, <1>2 DEF PInv, LoadPacket, Preparations
  <2>2. Loading' /\ Given' /\ PacketHeld' /\ (prep'.pc = "judge" => PairHeld')
    BY <1>1, <2>1 DEF Loading, Given, PacketHeld, PairHeld
  <2> QED
    BY <1>1, <2>1, <2>2 DEF PInv
<1>3. CASE LoadReview
  <2>1. /\ prep' \in Preparations /\ prep'.opt = prep.opt /\ prep'.freeze = prep.freeze
        /\ prep'.packet = prep.packet /\ prep'.review = review
        /\ prep'.pc = IF prep.packet = NoFile THEN "load" ELSE "judge"
    BY <1>1, <1>3 DEF PInv, LoadReview, Preparations
  <2>2. Loading' /\ Given' /\ (prep'.packet # NoFile => PacketHeld')
    BY <1>1, <2>1 DEF Loading, Given, PacketHeld
  <2>3. prep'.pc = "judge" => PairHeld'
    BY <1>1, <2>1, <2>2 DEF PairHeld
  <2> QED
    BY <1>1, <2>1, <2>2, <2>3 DEF PInv
<1> QED
  BY <1>2, <1>3

LEMMA JudgePInv == ASSUME PInv, Judge PROVE PInv'
<1>1. CASE Reject
  BY <1>1, RejectPInv DEF Judge
<1>2. CASE ~Reject
  <2>1. /\ FilesTyped' /\ prep.pc = "judge" /\ Loading /\ (Given => PairHeld)
        /\ UNCHANGED <<bound, snapshots>>
    BY FilesKeep DEF PInv, Judge
  <2>2. /\ Given => InterventionLoads
        /\ prep.opt.withFreeze => RunMatchesFreeze
        /\ prep.opt.treatment \in Levels => Given
        /\ prep' = [prep EXCEPT !.pc = "prepared",
                      !.assistance = IF Given THEN prep.packet.content ELSE NoFile]
    BY <1>2 DEF Judge
  <2>3. Given => prep.packet.content \in Contents
    BY <2>1 DEF PairHeld, PacketHeld, Packets
  <2>4. /\ prep' \in Preparations /\ prep'.pc = "prepared"
        /\ prep'.opt = prep.opt /\ prep'.freeze = prep.freeze /\ prep'.fixture = prep.fixture
        /\ prep'.packet = prep.packet /\ prep'.review = prep.review
        /\ prep'.assistance = IF Given THEN prep.packet.content ELSE NoFile
    BY <2>2, <2>3 DEF PInv, Preparations
  <2>5. /\ Given' <=> Given
        /\ PairHeld' <=> PairHeld
        /\ RunMatchesFreeze' <=> RunMatchesFreeze
        /\ Loading'
    BY <2>1, <2>4 DEF Given, PairHeld, PacketHeld, RunMatchesFreeze, Loading
  <2>6. Judged'
    <3>1. Given => /\ Bindings(prep.packet, prep.review, prep.opt.treatment, prep.opt.design)
                   /\ ~prep.packet.content.leaks
      BY <2>2 DEF InterventionLoads
    <3> QED
      BY <2>1, <2>2, <2>4, <2>5, <3>1 DEF Judged
  <2> QED
    BY <2>1, <2>4, <2>5, <2>6 DEF PInv
<1> QED
  BY <1>1, <1>2

(* Whatever becomes of the files, what was read stays as it is, and the    *)
(* histories only grow.                                                    *)
LEMMA HeldPInv ==
  ASSUME PInv, FilesTyped', prep' = prep, bound \subseteq bound', snapshots \subseteq snapshots'
  PROVE  PInv'
<1>1. /\ Given' <=> Given
      /\ Loading => Loading'
      /\ PacketHeld => PacketHeld'
      /\ PairHeld => PairHeld'
      /\ RunMatchesFreeze' <=> RunMatchesFreeze
  BY DEF Given, Loading, PacketHeld, PairHeld, RunMatchesFreeze
<1>2. Judged => Judged'
  BY <1>1 DEF Judged
<1> QED
  BY <1>1, <1>2 DEF PInv

LEMMA EditPInv ==
  ASSUME PInv, Revise \/ Sign \/ Dispute \/ Record \/ Bind \/ EditFixture \/ FreezeExperiment
  PROVE  PInv'
<1>0. FilesTyped /\ SignaturesKnown
  BY DEF PInv, FilesTyped
<1>1. /\ prep' = prep /\ bound \subseteq bound' /\ snapshots \subseteq snapshots'
      /\ shown \subseteq shown' /\ carried \subseteq carried'
  BY DEF PrepEdit, Revise, Sign, Dispute, Record, Bind, EditFixture, FreezeExperiment, historyVars
<1>8. ASSUME NEW r \in bound \cup {review} PROVE AnsweredFor(r)'
  BY <1>0, <1>1, <1>8 DEF SignaturesKnown, AnsweredFor
<1>9. ASSUME bound' \subseteq bound \cup {review}, AnsweredFor(review)' PROVE SignaturesKnown'
  BY <1>8, <1>9 DEF SignaturesKnown, AnsweredFor
<1>10. ASSUME bound' \subseteq bound \cup {review}, review' = review PROVE SignaturesKnown'
  BY <1>8, <1>10 DEF SignaturesKnown, AnsweredFor
<1>2. CASE Revise
  <2>1. PICK c \in Contents, rehash \in BOOLEAN :
          packet' = [packet EXCEPT !.content = c, !.declared = IF rehash THEN c ELSE @]
    BY <1>2 DEF Revise
  <2>2. packet' \in Packets /\ packet'.binds = packet.binds
    BY <1>0, <2>1 DEF FilesTyped, Packets
  <2>3. UNCHANGED <<review, fixture, freeze, bound, snapshots>>
    BY <1>2 DEF Revise, historyVars
  <2>4. SignaturesKnown'
    BY <1>10, <2>3
  <2>5. FilesTyped'
    BY <1>0, <2>2, <2>3, <2>4 DEF FilesTyped
  <2> QED
    BY <1>1, <2>5, HeldPInv
<1>3. CASE Sign
  <2>1. PICK who \in People, clean \in BOOLEAN, level \in {c.level : c \in Contents} :
          /\ review' = [review EXCEPT
               !.items = @ \cup {[reviewer |-> who, clean |-> clean, level |-> level]}]
          /\ IF review.of = packet.content
             THEN shown' = shown \cup {<<who, review.of>>} /\ UNCHANGED carried
             ELSE carried' = carried \cup {<<who, review.of>>} /\ UNCHANGED shown
    BY <1>3 DEF Sign
  <2>2. level \in Levels
    BY <2>1, PreparationAssumption
  <2>3. /\ review' \in Records /\ review'.of = review.of
        /\ review'.items = review.items \cup {[reviewer |-> who, clean |-> clean, level |-> level]}
    BY <1>0, <2>1, <2>2 DEF FilesTyped, Records
  <2>4. UNCHANGED <<packet, fixture, freeze, bound, snapshots>>
    BY <1>3 DEF Sign
  <2>5. AnsweredFor(review)'
    <3>1. <<who, review.of>> \in shown' \cup carried'
      BY <2>1
    <3>2. \A i \in review.items : <<i.reviewer, review.of>> \in shown' \cup carried'
      BY <1>0, <1>1 DEF SignaturesKnown, AnsweredFor
    <3> QED
      BY <2>3, <3>1, <3>2 DEF AnsweredFor
  <2>6. FilesTyped'
    BY <1>0, <1>9, <2>3, <2>4, <2>5 DEF FilesTyped
  <2> QED
    BY <1>1, <2>6, HeldPInv
<1>11. CASE Dispute
  <2>1. PICK state \in Disputes : review' = [review EXCEPT !.dispute = state]
    BY <1>11 DEF Dispute
  <2>2. review' \in Records /\ review'.of = review.of /\ review'.items = review.items
    BY <1>0, <2>1 DEF FilesTyped, Records
  <2>3. UNCHANGED <<packet, fixture, freeze, bound, shown, carried, snapshots>>
    BY <1>11 DEF Dispute, historyVars
  <2>4. AnsweredFor(review)'
    BY <1>0, <2>2, <2>3 DEF SignaturesKnown, AnsweredFor
  <2>5. FilesTyped'
    BY <1>0, <1>9, <2>2, <2>3, <2>4 DEF FilesTyped
  <2> QED
    BY <1>1, <2>5, HeldPInv
<1>4. CASE Record
  <2>1. /\ carried' = carried \cup {<<i.reviewer, packet.content>> : i \in review.items}
        /\ UNCHANGED <<packet, fixture, freeze, bound, shown, snapshots>>
    BY <1>4 DEF Record
  <2>2. PICK final \in BOOLEAN, revision \in BOOLEAN :
          review' = [review EXCEPT !.of = packet.content, !.final = final,
                       !.latest = IF revision THEN packet.content ELSE @]
    BY <1>4 DEF Record
  <2>3. packet.content \in Contents
    BY <1>0 DEF FilesTyped, Packets
  <2>4. review' \in Records /\ review'.of = packet.content /\ review'.items = review.items
    BY <1>0, <2>2, <2>3 DEF FilesTyped, Records
  <2>5. AnsweredFor(review)'
    BY <2>1, <2>4 DEF AnsweredFor
  <2>6. FilesTyped'
    BY <1>0, <1>9, <2>1, <2>4, <2>5 DEF FilesTyped
  <2> QED
    BY <1>1, <2>6, HeldPInv
<1>5. CASE Bind
  <2>1. packet' \in Packets /\ packet'.binds \in bound'
    BY <1>0, <1>5 DEF Bind, FilesTyped, Packets
  <2>2. UNCHANGED <<review, fixture, freeze, snapshots>> /\ bound' = bound \cup {review}
    BY <1>5 DEF Bind
  <2>3. FilesTyped'
    BY <1>0, <1>10, <2>1, <2>2 DEF FilesTyped
  <2> QED
    BY <1>1, <2>3, HeldPInv
<1>6. CASE EditFixture
  <2>1. UNCHANGED <<packet, review, freeze, bound, snapshots>> /\ fixture' \in FixtureVersions
    BY <1>6 DEF EditFixture, historyVars
  <2>2. FilesTyped'
    BY <1>0, <1>10, <2>1 DEF FilesTyped
  <2> QED
    BY <1>1, <2>2, HeldPInv
<1>7. CASE FreezeExperiment
  <2>1. freeze' \in Pins /\ freeze' \in snapshots'
    BY <1>0, <1>7 DEF FreezeExperiment, FilesTyped, Pinned, Pins
  <2>2. UNCHANGED <<packet, review, fixture, bound>>
    BY <1>7 DEF FreezeExperiment
  <2>3. FilesTyped'
    BY <1>0, <1>10, <2>1, <2>2 DEF FilesTyped
  <2> QED
    BY <1>1, <2>3, HeldPInv
<1> QED
  BY <1>2, <1>3, <1>4, <1>5, <1>6, <1>7, <1>11

LEMMA AlwaysPInv == PrepSpec => []PInv
<1>1. PInv /\ UNCHANGED prepVars => PInv'
  <2>1. UNCHANGED prepVars => FilesStay /\ prep' = prep
    BY DEF prepVars, FilesStay, historyVars
  <2> QED
    BY <2>1, FilesKeep, HeldPInv DEF PInv
<1>2. PInv /\ [PrepNext]_prepVars => PInv'
  BY <1>1, BeginPInv, LoadFixturePInv, LoadFreezePInv, LoadPairPInv, JudgePInv, EditPInv
  DEF PrepNext
<1> QED
  BY <1>2, InitPInv, PTL DEF PrepSpec

(* A run under an experiment freeze has what one freeze was taken of,      *)
(* whatever is edited while it is prepared (freezes.ts:30-62).             *)
THEOREM RunsAreFrozen == PrepSpec => []PreparedIsFrozen
<1>1. PInv => PreparedIsFrozen
  <2> SUFFICES ASSUME PInv, prep.pc = "prepared", prep.opt.withFreeze
               PROVE  /\ prep.freeze \in snapshots
                      /\ prep.fixture = prep.freeze.fixture
                      /\ prep.assistance # NoFile =>
                           /\ prep.assistance = prep.freeze.packet.content
                           /\ prep.review = prep.freeze.review
    BY DEF PreparedIsFrozen
  <2>1. Loading /\ Judged /\ RunMatchesFreeze
    BY DEF PInv, Judged
  <2>2. prep.opt.treatment \in Controls \cup Levels
    BY <2>1, PreparationAssumption DEF Loading, Options
  <2>3. prep.assistance # NoFile => Given /\ prep.opt.treatment \in Levels
    BY <2>1, <2>2 DEF Judged, Loading, Given, Paths
  <2> QED
    BY <2>1, <2>3 DEF Loading, Judged, RunMatchesFreeze
<1> QED
  BY <1>1, AlwaysPInv, PTL

(* What assists a run is what one bound record is of, with as many people  *)
(* on it besides the author it names as were asked for, all in approval of *)
(* the arm's level, no disagreement open, and each of them shown this very *)
(* content or answered for by whoever brought the record to it; nothing    *)
(* assists an arm that is to have no help (interventions.ts:139-177,       *)
(* 213-234).                                                               *)
THEOREM AssistanceReviewed == PrepSpec => []AssistanceIsReviewed
<1>1. PInv => AssistanceIsReviewed
  <2> SUFFICES ASSUME PInv, prep.pc = "prepared" PROVE AssistanceIsReviewed
    BY DEF AssistanceIsReviewed
  <2>1. Loading /\ Judged
    BY DEF PInv
  <2>2. prep.opt.treatment \in Controls \cup Levels
    BY <2>1, PreparationAssumption DEF Loading, Options
  <2>3. Controls \cap Levels = {}
    BY DEF Controls, Levels, COMPONENTS
  <2>4. Given => prep.assistance = prep.packet.content /\ prep.assistance \in Contents
    BY <2>1 DEF Judged, PairHeld, PacketHeld, Packets
  <2>5. Given <=> prep.opt.treatment \in Levels
    BY <2>1, <2>2, <2>3 DEF Judged, Loading, Given, Paths
  <2>6. prep.assistance = NoFile <=> prep.opt.treatment \in Controls
    BY <2>1, <2>2, <2>3, <2>4, <2>5, PreparationAssumption DEF Judged
  <2>7. ASSUME Given
        PROVE  LET c == prep.assistance
                   r == prep.review
                   others == {i.reviewer : i \in r.items} \ {r.author}
               IN  /\ r \in bound
                   /\ r.of = c /\ r.dispute # "open"
                   /\ Cardinality(others) >= MinReviewers
                   /\ \A i \in r.items :
                        /\ i.clean /\ i.level = prep.opt.treatment
                        /\ <<i.reviewer, c>> \in shown \cup carried
                   /\ c.level = prep.opt.treatment
                   /\ c.parts = ComponentsOf(c)
                   /\ ~c.leaks
    <3> DEFINE r == prep.review
               signed == {i.reviewer : i \in r.items}
    <3>1. Bindings(prep.packet, r, prep.opt.treatment, prep.opt.design)
          /\ ~prep.packet.content.leaks /\ prep.packet.binds \in bound
      BY <2>1, <2>7 DEF Judged, PairHeld, PacketHeld
    <3>2. /\ r \in bound /\ r.of = prep.packet.content
          /\ prep.packet.content.level = prep.opt.treatment
          /\ prep.packet.content.parts = ComponentsOf(prep.packet.content)
          /\ ReviewValid(r)
      BY <3>1 DEF Bindings, ComponentSetValid
    <3>3. /\ signed \ {r.author} = signed /\ Cardinality(signed) >= MinReviewers
          /\ r.dispute # "open"
          /\ \A i \in r.items : i.clean /\ i.level = r.of.level
      BY <3>2 DEF ReviewValid
    <3>4. \A i \in r.items : <<i.reviewer, r.of>> \in shown \cup carried
      BY <3>2 DEF PInv, FilesTyped, SignaturesKnown, AnsweredFor
    <3> QED
      BY <2>4, <2>7, <3>1, <3>2, <3>3, <3>4
  <2> QED
    BY <2>1, <2>6, <2>7 DEF AssistanceIsReviewed, Judged
<1> QED
  BY <1>1, AlwaysPInv, PTL

-----------------------------------------------------------------------------
(***************************************************************************)
(* HeldoutSufficiency.                                                     *)
(*                                                                         *)
(* A prompt is whole when every opener in it is followed by its file and   *)
(* the closer.  Texts without markers are whole, a file's block is, and so *)
(* is what is put together of whole texts: the prompt of an attempt that   *)
(* is not Marked.  From a whole prompt the parser takes files of the task  *)
(* and nothing else, and each whose opener is there.                       *)
(***************************************************************************)
SourceFiles == [path : STRING, lines : Seq(TextLines)]

SourceBlock(s) == <<Opener(s.path)>> \o s.lines \o <<Closer(s.path)>>

PathsIn(sources) == {sources[k].path : k \in DOMAIN sources}

(* No line of a text is a marker of one of these files.                    *)
Unmarked(text, sources) ==
  \A i \in 1..Len(text), p \in PathsIn(sources) : text[i] \notin {Opener(p), Closer(p)}

(* Files that can be told apart in a prompt: each path once, two markers   *)
(* of its own, none of them among the files' lines.                        *)
Separable(sources) ==
  /\ sources \in Seq(SourceFiles)
  /\ \A j, k \in 1..Len(sources) : sources[j].path = sources[k].path => j = k
  /\ \A p, q \in PathsIn(sources) :
       /\ Opener(p) \in TextLines /\ Closer(p) \in TextLines /\ Opener(p) # Closer(q)
       /\ Opener(p) = Opener(q) \/ Closer(p) = Closer(q) => p = q
  /\ \A k \in 1..Len(sources) : Unmarked(sources[k].lines, sources)

(* What follows an opener is the file's lines and its closer.              *)
FollowedBy(text, i, s) ==
  /\ i + Len(s.lines) + 1 <= Len(text)
  /\ \A m \in 1..Len(s.lines) : text[i + m] = s.lines[m]
  /\ text[i + Len(s.lines) + 1] = Closer(s.path)

WholeBlocks(text, sources) ==
  \A i \in 1..Len(text), k \in 1..Len(sources) :
    text[i] = Opener(sources[k].path) => FollowedBy(text, i, sources[k])

LEMMA SourceFacts ==
  ASSUME NEW sources, Separable(sources)
  PROVE  /\ Len(sources) \in Nat /\ DOMAIN sources = 1..Len(sources)
         /\ \A k \in 1..Len(sources) :
              /\ sources[k] \in SourceFiles
              /\ sources[k].path \in PathsIn(sources)
              /\ sources[k].lines \in Seq(TextLines) /\ Len(sources[k].lines) \in Nat
              /\ Opener(sources[k].path) \in TextLines /\ Closer(sources[k].path) \in TextLines
<1>1. sources \in Seq(SourceFiles)
  BY DEF Separable
<1>2. Len(sources) \in Nat /\ DOMAIN sources = 1..Len(sources)
  BY <1>1
<1>3. ASSUME NEW k \in 1..Len(sources)
      PROVE  /\ sources[k] \in SourceFiles
             /\ sources[k].path \in PathsIn(sources)
             /\ sources[k].lines \in Seq(TextLines) /\ Len(sources[k].lines) \in Nat
  <2>1. sources[k] \in SourceFiles
    BY <1>1
  <2>2. sources[k].path \in PathsIn(sources)
    BY <1>2 DEF PathsIn
  <2> QED BY <2>1, <2>2 DEF SourceFiles
<1> QED BY <1>2, <1>3 DEF Separable

LEMMA UnmarkedIsWhole ==
  ASSUME NEW sources, Separable(sources), NEW text \in Seq(TextLines), Unmarked(text, sources)
  PROVE  WholeBlocks(text, sources)
BY SourceFacts DEF Unmarked, WholeBlocks

(* The three parts of a file's block, by position.                         *)
LEMMA SourceBlockParts ==
  ASSUME NEW s \in SourceFiles, Opener(s.path) \in TextLines, Closer(s.path) \in TextLines
  PROVE  /\ SourceBlock(s) \in Seq(TextLines)
         /\ Len(SourceBlock(s)) = Len(s.lines) + 2
         /\ SourceBlock(s)[1] = Opener(s.path)
         /\ \A m \in 1..Len(s.lines) : SourceBlock(s)[1 + m] = s.lines[m]
         /\ SourceBlock(s)[Len(s.lines) + 2] = Closer(s.path)
<1> DEFINE a == <<Opener(s.path)>>
           b == s.lines
           c == <<Closer(s.path)>>
<1>1. a \in Seq(TextLines) /\ b \in Seq(TextLines) /\ c \in Seq(TextLines)
      /\ Len(a) = 1 /\ Len(c) = 1 /\ a[1] = Opener(s.path) /\ c[1] = Closer(s.path)
      /\ Len(b) \in Nat
  BY DEF SourceFiles
<1>2. SourceBlock(s) = (a \o b) \o c
  BY DEF SourceBlock
<1>3. s.lines = b
  OBVIOUS
<1> HIDE DEF a, b, c
<1>4. /\ a \o b \in Seq(TextLines) /\ Len(a \o b) = Len(a) + Len(b)
      /\ \A i \in 1..Len(a) : (a \o b)[i] = a[i]
      /\ \A i \in 1..Len(b) : (a \o b)[Len(a) + i] = b[i]
  BY <1>1, ConcatMembers
<1> DEFINE d == a \o b
<1>5. d \in Seq(TextLines) /\ Len(d) = 1 + Len(b) /\ d[1] = Opener(s.path)
      /\ \A i \in 1..Len(b) : d[1 + i] = b[i]
  BY <1>1, <1>4
<1> HIDE DEF d
<1>6. /\ d \o c \in Seq(TextLines) /\ Len(d \o c) = Len(d) + Len(c)
      /\ \A i \in 1..Len(d) : (d \o c)[i] = d[i]
      /\ \A i \in 1..Len(c) : (d \o c)[Len(d) + i] = c[i]
  BY <1>1, <1>5, ConcatMembers
<1>7. SourceBlock(s) = d \o c
  BY <1>2 DEF d
<1>8. Len(d \o c) = Len(b) + 2 /\ (d \o c)[1] = Opener(s.path)
      /\ (d \o c)[Len(b) + 2] = Closer(s.path)
  <2>1. 1 \in 1..Len(d) /\ 1 \in 1..Len(c) /\ Len(d) + 1 = Len(b) + 2
    BY <1>1, <1>5
  <2> QED BY <1>1, <1>5, <1>6, <2>1
<1>9. \A i \in 1..Len(b) : (d \o c)[1 + i] = b[i]
  <2> SUFFICES ASSUME NEW i \in 1..Len(b) PROVE (d \o c)[1 + i] = b[i]
    OBVIOUS
  <2>1. 1 + i \in 1..Len(d)
    BY <1>1, <1>5
  <2> QED BY <1>5, <1>6, <2>1
<1> QED BY <1>3, <1>6, <1>7, <1>8, <1>9

LEMMA SourceBlockIsWhole ==
  ASSUME NEW sources, Separable(sources), NEW j \in 1..Len(sources)
  PROVE  SourceBlock(sources[j]) \in Seq(TextLines) /\ WholeBlocks(SourceBlock(sources[j]), sources)
<1> DEFINE s == sources[j]
           text == SourceBlock(s)
           n == Len(s.lines)
<1>1. s \in SourceFiles /\ s.path \in PathsIn(sources) /\ n \in Nat
      /\ Opener(s.path) \in TextLines /\ Closer(s.path) \in TextLines
      /\ s.lines \in Seq(TextLines)
  BY SourceFacts
<1>2. /\ text \in Seq(TextLines) /\ Len(text) = n + 2 /\ text[1] = Opener(s.path)
      /\ \A m \in 1..n : text[1 + m] = s.lines[m]
      /\ text[n + 2] = Closer(s.path)
  <2> HIDE DEF s
  <2> QED BY <1>1, SourceBlockParts
<1>3. Unmarked(s.lines, sources)
  BY DEF Separable
<1>4. ASSUME NEW i \in 1..Len(text), NEW k \in 1..Len(sources), text[i] = Opener(sources[k].path)
      PROVE  FollowedBy(text, i, sources[k])
  <2>1. sources[k].path \in PathsIn(sources)
    BY SourceFacts
  <2> HIDE DEF text, s, n
  <2>2. i = 1
    <3>1. CASE i = n + 2
      <4>1. Opener(sources[k].path) = Closer(s.path)
        BY <1>2, <1>4, <3>1
      <4> QED BY <4>1, <1>1, <2>1 DEF Separable
    <3>2. CASE i \in 2..(n + 1)
      <4>1. (i - 1) \in 1..n /\ 1 + (i - 1) = i
        BY <1>1, <3>2
      <4>2. s.lines[i - 1] = Opener(sources[k].path)
        BY <1>2, <1>4, <4>1
      <4>3. (i - 1) \in 1..Len(s.lines)
        BY <4>1 DEF n
      <4> QED BY <1>3, <2>1, <4>2, <4>3 DEF Unmarked
    <3> QED BY <1>1, <1>2, <3>1, <3>2
  <2>3. s.path = sources[k].path
    <3>1. Opener(s.path) = Opener(sources[k].path)
      BY <1>2, <1>4, <2>2
    <3> QED BY <3>1, <1>1, <2>1 DEF Separable
  <2>4. j = k
    <3>1. sources[j].path = sources[k].path
      BY <2>3 DEF s
    <3> QED BY <3>1 DEF Separable
  <2>5. s = sources[k] /\ n = Len(sources[k].lines)
    BY <2>4 DEF s, n
  <2>6. i + n + 1 = n + 2 /\ \A m \in 1..n : text[i + m] = s.lines[m]
    BY <1>1, <1>2, <2>2
  <2>7. i + n + 1 <= Len(text) /\ text[i + n + 1] = Closer(s.path)
    BY <1>1, <1>2, <2>6
  <2> QED BY <2>5, <2>6, <2>7 DEF FollowedBy
<1> QED BY <1>2, <1>4 DEF WholeBlocks

LEMMA WholeConcat ==
  ASSUME NEW sources, Separable(sources), NEW a \in Seq(TextLines), NEW b \in Seq(TextLines),
         WholeBlocks(a, sources), WholeBlocks(b, sources)
  PROVE  WholeBlocks(a \o b, sources)
<1> DEFINE c == a \o b
<1>1. /\ c \in Seq(TextLines) /\ Len(c) = Len(a) + Len(b)
      /\ \A i \in 1..Len(a) : c[i] = a[i]
      /\ \A i \in 1..Len(b) : c[Len(a) + i] = b[i]
  BY ConcatMembers
<1>2. Len(a) \in Nat /\ Len(b) \in Nat
  OBVIOUS
<1> HIDE DEF c
<1>3. ASSUME NEW i \in 1..Len(c), NEW k \in 1..Len(sources), c[i] = Opener(sources[k].path)
      PROVE  FollowedBy(c, i, sources[k])
  <2> DEFINE s == sources[k]
             n == Len(s.lines)
  <2>1. n \in Nat
    BY SourceFacts
  <2>2. CASE i \in 1..Len(a)
    <3>1. a[i] = Opener(s.path)
      BY <1>1, <1>3, <2>2
    <3>2. FollowedBy(a, i, s)
      BY <2>2, <3>1 DEF WholeBlocks
    <3>3. i + n + 1 <= Len(a) /\ a[i + n + 1] = Closer(s.path)
          /\ \A m \in 1..n : a[i + m] = s.lines[m]
      BY <3>2 DEF FollowedBy
    <3> HIDE DEF s, n
    <3>4. i + n + 1 \in 1..Len(a) /\ \A m \in 1..n : i + m \in 1..Len(a)
      BY <1>2, <2>1, <2>2, <3>3
    <3>5. i + n + 1 <= Len(c) /\ c[i + n + 1] = Closer(s.path)
      BY <1>1, <1>2, <2>1, <2>2, <3>3, <3>4
    <3>6. \A m \in 1..n : c[i + m] = s.lines[m]
      BY <1>1, <3>3, <3>4
    <3> QED BY <3>5, <3>6 DEF FollowedBy, s, n
  <2>3. CASE i \notin 1..Len(a)
    <3> DEFINE h == i - Len(a)
    <3>1. h \in 1..Len(b) /\ i = Len(a) + h
      BY <1>1, <1>2, <2>3
    <3> HIDE DEF h
    <3>2. b[h] = Opener(s.path)
      BY <1>1, <1>3, <3>1
    <3>3. FollowedBy(b, h, s)
      BY <3>1, <3>2 DEF WholeBlocks
    <3>4. h + n + 1 <= Len(b) /\ b[h + n + 1] = Closer(s.path)
          /\ \A m \in 1..n : b[h + m] = s.lines[m]
      BY <3>3 DEF FollowedBy
    <3> HIDE DEF s, n
    <3>5. h + n + 1 \in 1..Len(b) /\ \A m \in 1..n : h + m \in 1..Len(b)
      BY <1>2, <2>1, <3>1, <3>4
    <3>6. i + n + 1 = Len(a) + (h + n + 1) /\ \A m \in 1..n : i + m = Len(a) + (h + m)
      BY <1>2, <2>1, <3>1
    <3>7. i + n + 1 <= Len(c) /\ c[i + n + 1] = Closer(s.path)
      BY <1>1, <1>2, <2>1, <3>1, <3>4, <3>5, <3>6
    <3>8. \A m \in 1..n : c[i + m] = s.lines[m]
      BY <1>1, <3>4, <3>5, <3>6
    <3> QED BY <3>7, <3>8 DEF FollowedBy, s, n
  <2> QED BY <2>2, <2>3
<1> QED BY <1>3 DEF WholeBlocks, c

(* Texts put together of texts with whole blocks have whole blocks.        *)
LEMMA WholeFlatten ==
  ASSUME NEW sources, Separable(sources), NEW texts \in Seq(Seq(TextLines)),
         \A i \in 1..Len(texts) : WholeBlocks(texts[i], sources)
  PROVE  FlattenSeq(texts) \in Seq(TextLines) /\ WholeBlocks(FlattenSeq(texts), sources)
<1> DEFINE T == {q \in Seq(TextLines) : WholeBlocks(q, sources)}
<1>1. <<>> \in T
  <2>1. <<>> \in Seq(TextLines) /\ \A i \in 1..Len(<<>>) : FALSE
    OBVIOUS
  <2> QED BY <2>1 DEF WholeBlocks
<1>2. \A a, b \in T : a \o b \in T
  <2> SUFFICES ASSUME NEW a \in T, NEW b \in T PROVE a \o b \in T
    OBVIOUS
  <2>1. a \o b \in Seq(TextLines)
    OBVIOUS
  <2> QED BY <2>1, WholeConcat
<1>3. texts \in Seq(T)
  OBVIOUS
<1>4. T \in SUBSET Seq(TextLines)
  OBVIOUS
<1>5. FlattenSeq(texts) \in T
  <2> HIDE DEF T
  <2> QED BY <1>1, <1>2, <1>3, <1>4, FlattenClosed
<1> QED BY <1>5

(* The first of some positions after i, and where the parser goes on.      *)
Ends(text, paths, i) ==
  {j \in (i + 1)..Len(text) : \E p \in {p \in paths : text[i] = Opener(p)} : text[j] = Closer(p)}
End(text, paths, i) ==
  CHOOSE j \in Ends(text, paths, i) : \A k \in Ends(text, paths, i) : j <= k
BlockAt(text, paths, i) ==
  [path |-> CHOOSE p \in {p \in paths : text[i] = Opener(p)} : TRUE,
   lines |-> SubSeq(text, i + 1, End(text, paths, i) - 1)]

(* The values of the parser's recursive function.                          *)
ParsesTo(h, text, paths) ==
  /\ h[Len(text) + 1] = <<>>
  /\ \A i \in 1..Len(text) :
       h[i] = IF Ends(text, paths, i) = {} THEN h[i + 1]
              ELSE <<BlockAt(text, paths, i)>> \o h[End(text, paths, i) + 1]

LEMMA EndIsFirst ==
  ASSUME NEW text \in Seq(TextLines), NEW paths, NEW i \in 1..Len(text), Ends(text, paths, i) # {}
  PROVE  /\ End(text, paths, i) \in Ends(text, paths, i)
         /\ \A k \in Ends(text, paths, i) : End(text, paths, i) <= k
         /\ End(text, paths, i) \in (i + 1)..Len(text)
<1> DEFINE E == Ends(text, paths, i)
<1>1. E \in SUBSET Nat /\ E \subseteq (i + 1)..Len(text)
  BY DEF Ends
<1>2. \E x \in E : \A y \in E : x <= y
  <2> HIDE DEF E
  <2>1. E # {}
    BY DEF E
  <2> QED BY <1>1, <2>1, LeastNatural
<1> QED BY <1>1, <1>2 DEF End

LEMMA ParserParses ==
  ASSUME NEW text \in Seq(TextLines), NEW paths
  PROVE  \E h : ParsesTo(h, text, paths) /\ ParseSourceBlocks(text, paths) = h[1]
<1> DEFINE n == Len(text)
           Eq(f) == f = [i \in 1..(n + 1) |->
                           IF i = n + 1 THEN <<>>
                           ELSE IF Ends(text, paths, i) = {} THEN f[i + 1]
                                ELSE <<BlockAt(text, paths, i)>> \o f[End(text, paths, i) + 1]]
<1>0. n \in Nat
  OBVIOUS
<1>1. \E f : Eq(f)
  <2> DEFINE B == {BlockAt(text, paths, i) : i \in 1..n}
             D == Seq(B)
             jump == [i \in 1..n |-> IF Ends(text, paths, i) = {} THEN i + 1
                                     ELSE End(text, paths, i) + 1]
             g == [w \in (1..n) \X D |-> IF Ends(text, paths, w[1]) = {} THEN w[2]
                                         ELSE <<BlockAt(text, paths, w[1])>> \o w[2]]
  <2>1. <<>> \in D
    OBVIOUS
  <2>2. \A i \in 1..n : jump[i] \in (i + 1)..(n + 1)
    <3> SUFFICES ASSUME NEW i \in 1..n PROVE jump[i] \in (i + 1)..(n + 1)
      OBVIOUS
    <3>1. CASE Ends(text, paths, i) = {}
      BY <3>1
    <3>2. CASE Ends(text, paths, i) # {}
      <4>1. End(text, paths, i) \in (i + 1)..n
        BY <3>2, EndIsFirst
      <4> QED BY <3>2, <4>1
    <3> QED BY <3>1, <3>2
  <2>3. g \in [(1..n) \X D -> D]
    <3> SUFFICES ASSUME NEW i \in 1..n, NEW x \in D
                 PROVE  <<BlockAt(text, paths, i)>> \o x \in D
      OBVIOUS
    <3>1. BlockAt(text, paths, i) \in B
      OBVIOUS
    <3> HIDE DEF B
    <3> QED BY <3>1
  <2>4. \A i \in 1..n, x \in D : g[<<i, x>>] = IF Ends(text, paths, i) = {} THEN x
                                               ELSE <<BlockAt(text, paths, i)>> \o x
    <3> HIDE DEF D
    <3> QED OBVIOUS
  <2> HIDE DEF D, g
  <2> DEFINE d == <<>>
  <2>5. PICK f : FromTheEnd(f, D, d, n, jump, g)
    <3> HIDE DEF jump, n, d
    <3> QED BY <1>0, <2>1, <2>2, <2>3, DownwardIteration DEF d
  <2>6. \A i \in 1..(n + 1) :
          f[i] = IF i = n + 1 THEN <<>>
                 ELSE IF Ends(text, paths, i) = {} THEN f[i + 1]
                      ELSE <<BlockAt(text, paths, i)>> \o f[End(text, paths, i) + 1]
    <3> SUFFICES ASSUME NEW i \in 1..n
                 PROVE  f[i] = IF Ends(text, paths, i) = {} THEN f[i + 1]
                               ELSE <<BlockAt(text, paths, i)>> \o f[End(text, paths, i) + 1]
      <4>1. \A i \in 1..(n + 1) : i = n + 1 \/ (i \in 1..n /\ i # n + 1)
        BY <1>0
      <4>2. f[n + 1] = <<>>
        BY <2>5 DEF FromTheEnd
      <4> HIDE DEF n
      <4> QED BY <4>1, <4>2
    <3>1. jump[i] \in 1..(n + 1)
      BY <1>0, <2>2
    <3>2. f[jump[i]] \in D
      BY <2>5, <3>1 DEF FromTheEnd
    <3>3. f[i] = IF Ends(text, paths, i) = {} THEN f[jump[i]]
                 ELSE <<BlockAt(text, paths, i)>> \o f[jump[i]]
      BY <2>4, <2>5, <3>2 DEF FromTheEnd
    <3> QED BY <3>3
  <2>7. Eq(f)
    <3> HIDE DEF n
    <3> QED BY <2>5, <2>6 DEF FromTheEnd
  <2> QED BY <2>7
<1> DEFINE h == CHOOSE f : Eq(f)
<1>2. Eq(h)
  <2> HIDE DEF Eq
  <2> QED BY <1>1
<1>3. ParseSourceBlocks(text, paths) = h[1]
  BY DEF ParseSourceBlocks, Ends, End, BlockAt
<1> HIDE DEF h
<1>4. \A i \in 1..(n + 1) :
        h[i] = IF i = n + 1 THEN <<>>
               ELSE IF Ends(text, paths, i) = {} THEN h[i + 1]
                    ELSE <<BlockAt(text, paths, i)>> \o h[End(text, paths, i) + 1]
  BY <1>2
<1>5. n + 1 \in 1..(n + 1) /\ \A i \in 1..n : i \in 1..(n + 1) /\ i # n + 1
  BY <1>0
<1>6. ParsesTo(h, text, paths)
  <2>1. h[n + 1] = <<>>
    BY <1>4, <1>5
  <2>2. ASSUME NEW i \in 1..n
        PROVE  h[i] = IF Ends(text, paths, i) = {} THEN h[i + 1]
                      ELSE <<BlockAt(text, paths, i)>> \o h[End(text, paths, i) + 1]
    BY <1>4, <1>5
  <2> QED BY <2>1, <2>2 DEF ParsesTo
<1> QED BY <1>3, <1>6

(* At an opener the parser takes the file and goes on behind its block.    *)
LEMMA BlockIsFile ==
  ASSUME NEW sources, Separable(sources), NEW text \in Seq(TextLines), WholeBlocks(text, sources),
         NEW i \in 1..Len(text), NEW k \in 1..Len(sources), text[i] = Opener(sources[k].path)
  PROVE  /\ Ends(text, PathsIn(sources), i) # {}
         /\ End(text, PathsIn(sources), i) = i + Len(sources[k].lines) + 1
         /\ BlockAt(text, PathsIn(sources), i) = sources[k]
         /\ \A j \in (i + 1)..End(text, PathsIn(sources), i), m \in 1..Len(sources) :
              text[j] # Opener(sources[m].path)
<1> DEFINE paths == PathsIn(sources)
           s == sources[k]
           n == Len(s.lines)
           e == i + n + 1
<1>1. n \in Nat /\ s \in SourceFiles /\ s.path \in paths /\ s.lines \in Seq(TextLines)
      /\ Len(text) \in Nat
  BY SourceFacts
<1>2. FollowedBy(text, i, s)
  BY DEF WholeBlocks
<1>3. e \in (i + 1)..Len(text) /\ text[e] = Closer(s.path)
      /\ \A m \in 1..n : text[i + m] = s.lines[m]
  <2>1. /\ e <= Len(text) /\ text[e] = Closer(s.path)
        /\ \A m \in 1..n : text[i + m] = s.lines[m]
    BY ONLY <1>2 DEF FollowedBy
  <2>2. i \in Nat /\ e \in Nat /\ i + 1 <= e
    BY <1>1
  <2> HIDE DEF e
  <2>3. e \in (i + 1)..Len(text)
    BY <1>1, <2>1, <2>2
  <2> QED BY <2>1, <2>3
<1>4. ASSUME NEW p \in paths PROVE text[i] = Opener(p) <=> p = s.path
  <2> HIDE DEF paths, s
  <2>1. text[i] = Opener(s.path)
    BY DEF s
  <2> QED BY <1>1, <2>1 DEF Separable, paths
<1>5. {p \in paths : text[i] = Opener(p)} = {s.path}
  BY <1>1, <1>4
<1>6. \A j \in (i + 1)..(i + n) : \A p \in paths : text[j] \notin {Opener(p), Closer(p)}
  <2> SUFFICES ASSUME NEW j \in (i + 1)..(i + n), NEW p \in paths
               PROVE  text[j] \notin {Opener(p), Closer(p)}
    OBVIOUS
  <2>1. j - i \in 1..n /\ i + (j - i) = j
    BY <1>1
  <2>2. text[j] = s.lines[j - i]
    BY <1>3, <2>1
  <2>3. Unmarked(s.lines, sources)
    BY DEF Separable
  <2> HIDE DEF s
  <2> QED BY <2>1, <2>2, <2>3 DEF Unmarked
<1> DEFINE E == Ends(text, paths, i)
<1>7. E = {j \in (i + 1)..Len(text) : text[j] = Closer(s.path)}
  <2> HIDE DEF paths, s
  <2> QED BY <1>5, Zenon DEF Ends
<1>8. e \in E
  <2> HIDE DEF e
  <2> QED BY <1>3, <1>7
<1>9. \A j \in E : e <= j
  <2> SUFFICES ASSUME NEW j \in E, j < e PROVE FALSE
    <3>1. \A j \in E : j \in Int
      BY <1>7
    <3>2. e \in Int
      BY <1>1
    <3> HIDE DEF e, E
    <3> QED BY <3>1, <3>2
  <2>1. j \in (i + 1)..(i + n) /\ text[j] = Closer(s.path)
    BY <1>1, <1>7
  <2> HIDE DEF s, paths
  <2> QED BY <1>1, <1>6, <2>1
<1>10. End(text, paths, i) \in E /\ \A j \in E : End(text, paths, i) <= j
  BY <1>8, EndIsFirst
<1>11. End(text, paths, i) = e
  <2>1. e \in Int /\ End(text, paths, i) \in Int
    BY <1>1, <1>7, <1>10
  <2> HIDE DEF e, E
  <2> QED BY <1>8, <1>9, <1>10, <2>1
<1>12. SubSeq(text, i + 1, e - 1) = s.lines
  <2>1. e - 1 = i + n /\ i + n <= Len(text)
    BY <1>1, <1>3
  <2> DEFINE u == SubSeq(text, i + 1, i + n)
             v == s.lines
  <2>2. i + 1 \in 1..(Len(text) + 1) /\ i + n \in (i + 1 - 1)..Len(text)
    BY <1>1, <2>1
  <2>3. /\ u \in Seq(TextLines) /\ Len(u) = n
        /\ \A m \in 1..n : u[m] = text[i + m]
    <3> HIDE DEF s
    <3> QED BY <1>1, <2>1
  <2>4. v \in Seq(TextLines) /\ Len(v) = n /\ \A m \in 1..n : v[m] = text[i + m]
    BY <1>1, <1>3
  <2> HIDE DEF u, v, n
  <2>5. \A a, b \in Seq(TextLines) :
          Len(a) = Len(b) /\ (\A m \in 1 .. Len(a) : a[m] = b[m]) => a = b
    BY SeqEqual
  <2>6. u = v
    BY <2>3, <2>4, <2>5
  <2> QED BY <2>1, <2>6 DEF u, v
<1>13. BlockAt(text, paths, i) = s
  <2>1. (CHOOSE p \in {p \in paths : text[i] = Opener(p)} : TRUE) = s.path
    <3> HIDE DEF s, paths
    <3> QED BY <1>5
  <2>2. BlockAt(text, paths, i) = [path |-> s.path, lines |-> s.lines]
    <3> HIDE DEF s, paths, e
    <3> QED BY <1>11, <1>12, <2>1 DEF BlockAt
  <2>3. [path |-> s.path, lines |-> s.lines] = s
    <3> HIDE DEF s
    <3> QED BY <1>1 DEF SourceFiles
  <2> QED BY <2>2, <2>3
<1>14. ASSUME NEW j \in (i + 1)..e, NEW m \in 1..Len(sources)
       PROVE  text[j] # Opener(sources[m].path)
  <2>1. sources[m].path \in paths
    BY SourceFacts
  <2>2. j \in (i + 1)..(i + n) \/ j = e
    BY <1>1
  <2>3. CASE j = e
    <3> HIDE DEF e, s
    <3> QED BY <1>1, <1>3, <2>1, <2>3 DEF Separable
  <2>4. CASE j \in (i + 1)..(i + n)
    <3> HIDE DEF s, n
    <3> QED BY <1>6, <2>1, <2>4
  <2> QED BY <2>2, <2>3, <2>4
<1> HIDE DEF E
<1>15. E # {}
  BY <1>8
<1>16. \A j \in (i + 1)..End(text, paths, i), m \in 1..Len(sources) :
         text[j] # Opener(sources[m].path)
  <2> HIDE DEF e, s, paths
  <2> QED BY <1>11, <1>14
<1> QED BY <1>11, <1>13, <1>15, <1>16 DEF E

(* Elsewhere it goes on with the next line.                                *)
LEMMA NoBlock ==
  ASSUME NEW sources, Separable(sources), NEW text,
         NEW i, \A k \in 1..Len(sources) : text[i] # Opener(sources[k].path)
  PROVE  Ends(text, PathsIn(sources), i) = {}
<1>1. {p \in PathsIn(sources) : text[i] = Opener(p)} = {}
  BY SourceFacts DEF PathsIn
<1> QED BY <1>1 DEF Ends

(* What the parser has found from some line on.                            *)
FilesFrom(blocks, text, sources, i) ==
  /\ blocks \in Seq(ToSet(sources))
  /\ \A j \in i..Len(text), k \in 1..Len(sources) :
       text[j] = Opener(sources[k].path) => \E m \in 1..Len(blocks) : blocks[m] = sources[k]

LEMMA ParserFindsFiles ==
  ASSUME NEW sources, Separable(sources), NEW text \in Seq(TextLines), WholeBlocks(text, sources)
  PROVE  FilesFrom(ParseSourceBlocks(text, PathsIn(sources)), text, sources, 1)
<1> DEFINE n == Len(text)
           paths == PathsIn(sources)
           M == ToSet(sources)
<1>0. n \in Nat
  OBVIOUS
<1>1. PICK h : ParsesTo(h, text, paths) /\ ParseSourceBlocks(text, paths) = h[1]
  BY ParserParses
<1>2. FilesFrom(h[n + 1], text, sources, n + 1)
  <2>1. h[n + 1] = <<>>
    BY <1>1 DEF ParsesTo
  <2>2. (n + 1)..n = {}
    BY <1>0
  <2>3. h[n + 1] \in Seq(M)
    <3> HIDE DEF M
    <3> QED BY <2>1
  <2> HIDE DEF n
  <2> QED BY <2>2, <2>3 DEF FilesFrom, n
<1>3. ASSUME NEW i \in 1..n, \A j \in (i + 1)..(n + 1) : FilesFrom(h[j], text, sources, j)
      PROVE  FilesFrom(h[i], text, sources, i)
  <2>1. CASE \E k \in 1..Len(sources) : text[i] = Opener(sources[k].path)
    <3>1. PICK k \in 1..Len(sources) : text[i] = Opener(sources[k].path)
      BY <2>1
    <3> DEFINE e == End(text, paths, i)
               rest == h[e + 1]
               s == sources[k]
    <3>2. Ends(text, paths, i) # {} /\ BlockAt(text, paths, i) = s
          /\ \A j \in (i + 1)..e, m \in 1..Len(sources) : text[j] # Opener(sources[m].path)
      BY <3>1, BlockIsFile
    <3>3. e \in (i + 1)..n
      BY <3>2, EndIsFirst
    <3>4. h[i] = <<s>> \o rest
      <4> HIDE DEF n, paths
      <4> QED BY <1>1, <3>2 DEF ParsesTo, n
    <3>5. FilesFrom(rest, text, sources, e + 1)
      <4>1. e + 1 \in (i + 1)..(n + 1)
        BY <3>3
      <4> QED BY <1>3, <4>1
    <3>6. rest \in Seq(M) /\ s \in M
      <4>1. s \in M
        BY SourceFacts DEF ToSet
      <4> QED BY <3>5, <4>1 DEF FilesFrom
    <3> HIDE DEF rest, e, s, M
    <3>7. <<s>> \in Seq(M) /\ Len(<<s>>) = 1 /\ <<s>>[1] = s
      BY <3>6
    <3>8. /\ h[i] \in Seq(M) /\ Len(h[i]) = 1 + Len(rest)
          /\ h[i][1] = s /\ \A m \in 1..Len(rest) : h[i][1 + m] = rest[m]
      <4> DEFINE a == <<s>>
      <4>1. a \in Seq(M) /\ Len(a) = 1 /\ a[1] = s /\ h[i] = a \o rest
        BY <3>4, <3>7
      <4> HIDE DEF a
      <4>2. /\ a \o rest \in Seq(M) /\ Len(a \o rest) = Len(a) + Len(rest)
            /\ \A m \in 1..Len(a) : (a \o rest)[m] = a[m]
            /\ \A m \in 1..Len(rest) : (a \o rest)[Len(a) + m] = rest[m]
        <5>1. a \in Seq(M) /\ rest \in Seq(M)
          BY <3>6, <4>1
        <5> QED BY <5>1, ConcatMembers
      <4> QED BY <4>1, <4>2
    <3>9. ASSUME NEW j \in i..n, NEW m \in 1..Len(sources), text[j] = Opener(sources[m].path)
          PROVE  \E x \in 1..Len(h[i]) : h[i][x] = sources[m]
      <4>0. Len(rest) \in Nat
        BY <3>6
      <4>1. CASE j = i
        <5>1. m = k
          <6>1. sources[m].path \in PathsIn(sources) /\ sources[k].path \in PathsIn(sources)
            BY SourceFacts
          <6> QED BY <3>1, <3>9, <4>1, <6>1 DEF Separable
        <5>2. 1 \in 1..Len(h[i])
          BY <3>8, <4>0
        <5> QED BY <3>8, <5>1, <5>2 DEF s
      <4>2. CASE j \in (i + 1)..e
        BY <3>2, <3>9, <4>2
      <4>3. CASE j \in (e + 1)..n
        <5>1. PICK x \in 1..Len(rest) : rest[x] = sources[m]
          <6> HIDE DEF n
          <6> QED BY <3>5, <3>9, <4>3 DEF FilesFrom, n
        <5>2. 1 + x \in 1..Len(h[i])
          BY <3>8, <4>0
        <5> QED BY <3>8, <5>1, <5>2
      <4> QED BY <1>0, <3>3, <4>1, <4>2, <4>3
    <3> QED BY <3>8, <3>9 DEF FilesFrom, M
  <2>2. CASE \A k \in 1..Len(sources) : text[i] # Opener(sources[k].path)
    <3>1. Ends(text, paths, i) = {}
      BY <2>2, NoBlock
    <3>2. h[i] = h[i + 1]
      <4> HIDE DEF n, paths
      <4> QED BY <1>1, <3>1 DEF ParsesTo, n
    <3>3. FilesFrom(h[i + 1], text, sources, i + 1)
      <4>1. i + 1 \in (i + 1)..(n + 1)
        BY <1>0
      <4> QED BY <1>3, <4>1
    <3>4. \A j \in i..n : j = i \/ j \in (i + 1)..n
      BY <1>0
    <3> QED BY <2>2, <3>2, <3>3, <3>4 DEF FilesFrom
  <2> QED BY <2>1, <2>2
<1> DEFINE N == {d \in Nat : \A j \in 1..(n + 1) : (n + 1) - d <= j => FilesFrom(h[j], text, sources, j)}
<1>4. 0 \in N
  <2>1. \A j \in 1..(n + 1) : (n + 1) - 0 <= j => j = n + 1
    BY <1>0
  <2> HIDE DEF n
  <2> QED BY <1>2, <2>1
<1>5. ASSUME NEW d \in Nat, d \in N PROVE d + 1 \in N
  <2> SUFFICES ASSUME NEW j \in 1..(n + 1), (n + 1) - (d + 1) <= j
               PROVE  FilesFrom(h[j], text, sources, j)
    OBVIOUS
  <2>1. CASE (n + 1) - d <= j
    <3> HIDE DEF n
    <3> QED BY <1>5, <2>1
  <2>2. CASE ~((n + 1) - d <= j)
    <3>1. j \in 1..n /\ \A m \in (j + 1)..(n + 1) : m \in 1..(n + 1) /\ (n + 1) - d <= m
      BY <1>0, <2>2
    <3>2. \A m \in (j + 1)..(n + 1) : FilesFrom(h[m], text, sources, m)
      <4> HIDE DEF n
      <4> QED BY <1>5, <3>1
    <3> QED BY <1>3, <3>1, <3>2
  <2> QED BY <2>1, <2>2
<1>6. \A d \in Nat : d \in N
  <2> HIDE DEF N
  <2> QED BY <1>4, <1>5, NaturalInduction
<1>7. FilesFrom(h[1], text, sources, 1)
  <2>1. n \in N /\ 1 \in 1..(n + 1) /\ (n + 1) - n <= 1
    <3>1. n \in N
      BY <1>0, <1>6
    <3> HIDE DEF N
    <3> QED BY <1>0, <3>1
  <2> HIDE DEF n
  <2> QED BY <2>1
<1> QED BY <1>1, <1>7

(* A prompt that has all files gives them all back.                        *)
LEMMA NoopGivesFilesBack ==
  ASSUME NEW sources, Separable(sources), NEW text \in Seq(TextLines), WholeBlocks(text, sources),
         \A k \in 1..Len(sources) : \E i \in 1..Len(text) : text[i] = Opener(sources[k].path)
  PROVE  NoopStub(text, PathsIn(sources)) = ToSet(sources)
<1> DEFINE paths == PathsIn(sources)
           blocks == ParseSourceBlocks(text, paths)
           last(p) == CHOOSE i \in DOMAIN blocks : blocks[i].path = p
                         /\ \A j \in DOMAIN blocks : blocks[j].path = p => j <= i
<1>1. FilesFrom(blocks, text, sources, 1)
  BY ParserFindsFiles
<1>2. blocks \in Seq(ToSet(sources)) /\ DOMAIN blocks = 1..Len(blocks) /\ Len(blocks) \in Nat
      /\ \A k \in 1..Len(sources) : \E m \in 1..Len(blocks) : blocks[m] = sources[k]
  BY <1>1 DEF FilesFrom
<1> HIDE DEF blocks
<1>3. ASSUME NEW p \in paths
      PROVE  last(p) \in DOMAIN blocks /\ blocks[last(p)].path = p
  <2> DEFINE T == {i \in 1..Len(blocks) : blocks[i].path = p}
  <2>1. PICK k \in 1..Len(sources) : sources[k].path = p
    BY SourceFacts DEF PathsIn
  <2>2. T # {} /\ T \in SUBSET (0..Len(blocks))
    <3>1. PICK m \in 1..Len(blocks) : blocks[m] = sources[k]
      BY <1>2
    <3>2. m \in T
      BY <2>1, <3>1
    <3>3. 1..Len(blocks) \subseteq 0..Len(blocks)
      <4>1. Len(blocks) \in Nat
        BY <1>2
      <4> QED BY <4>1
    <3>4. T \subseteq 1..Len(blocks)
      BY Zenon
    <3> HIDE DEF T
    <3> QED BY <3>2, <3>3, <3>4, Zenon
  <2>3. \E i \in T : \A j \in T : j <= i
    <3> HIDE DEF T
    <3> QED BY <1>2, <2>2, Greatest
  <2>4. \E i \in DOMAIN blocks : blocks[i].path = p
                         /\ \A j \in DOMAIN blocks : blocks[j].path = p => j <= i
    BY <1>2, <2>3
  <2> QED BY <2>4
<1>4. ASSUME NEW k \in 1..Len(sources) PROVE blocks[last(sources[k].path)] = sources[k]
  <2> DEFINE p == sources[k].path
             b == blocks[last(p)]
  <2>1. p \in paths
    BY SourceFacts
  <2>2. last(p) \in DOMAIN blocks /\ b.path = p
    BY <1>3, <2>1
  <2>3. b \in ToSet(sources)
    <3> HIDE DEF last
    <3> QED BY <1>2, <2>2
  <2>4. PICK m \in 1..Len(sources) : b = sources[m]
    BY <2>3, SourceFacts DEF ToSet
  <2>5. sources[m].path = sources[k].path
    BY <2>2, <2>4
  <2>6. m = k
    BY <2>5 DEF Separable
  <2> QED BY <2>4, <2>6
<1>5. \A p \in paths : \E i \in DOMAIN blocks : blocks[i].path = p
  BY <1>3
<1>6. NoopStub(text, paths) = {blocks[last(p)] : p \in paths}
  <2> HIDE DEF paths
  <2> QED BY <1>5 DEF NoopStub, blocks
<1> HIDE DEF last
<1>7. {blocks[last(p)] : p \in paths} = ToSet(sources)
  <2>1. ASSUME NEW p \in paths PROVE blocks[last(p)] \in ToSet(sources)
    BY <1>2, <1>3
  <2>2. ASSUME NEW x \in ToSet(sources) PROVE \E p \in paths : x = blocks[last(p)]
    <3>1. PICK k \in 1..Len(sources) : x = sources[k]
      BY SourceFacts DEF ToSet
    <3> QED BY <1>4, <3>1, SourceFacts
  <2> QED BY <2>1, <2>2
<1> QED BY <1>6, <1>7

-----------------------------------------------------------------------------
(* The prompt of a task of the corpus.                                     *)
OfCorpus(task) == \E c \in TaskCorpora : task \in ToSet(c)

Distinct(sources) ==
  /\ sources \in Seq(SourceFiles)
  /\ \A j, k \in 1..Len(sources) : sources[j].path = sources[k].path => j = k
  /\ \A p, q \in PathsIn(sources) :
       /\ Opener(p) \in TextLines /\ Closer(p) \in TextLines /\ Opener(p) # Closer(q)
       /\ Opener(p) = Opener(q) \/ Closer(p) = Closer(q) => p = q

LEMMA TaskFacts ==
  ASSUME NEW task, OfCorpus(task)
  PROVE  /\ task \in Task
         /\ Distinct(task.sources)
         /\ PathsOf(task) = PathsIn(task.sources)
         /\ PathsOf(task) \subseteq TaskPaths
<1>1. PICK c \in TaskCorpora : task \in ToSet(c)
  BY DEF OfCorpus
<1>2. c \in Seq(Task)
  BY <1>1, CorporaAssumption
<1>3. task \in Task
  BY <1>1, <1>2 DEF ToSet
<1>4. task.sources \in Seq(SourceFiles)
  BY <1>3 DEF Task, SourceFiles
<1>5. \A j, k \in 1..Len(task.sources) : task.sources[j].path = task.sources[k].path => j = k
  <2>1. DOMAIN task.sources = 1..Len(task.sources)
    BY <1>4
  <2>2. \A j, k \in DOMAIN task.sources : task.sources[j].path = task.sources[k].path => j = k
    BY <1>1, CorporaAssumption
  <2> QED BY <2>1, <2>2
<1>6. PathsOf(task) = PathsIn(task.sources)
  BY DEF PathsOf, PathsIn
<1>7. PathsOf(task) \subseteq TaskPaths
  <2> DEFINE U == {PathsOf(t) : t \in ToSet(c)}
  <2>1. PathsOf(task) \in U
    BY <1>1
  <2>2. PathsOf(task) \subseteq UNION U
    <3> HIDE DEF U
    <3> QED BY <2>1
  <2>3. UNION U \in {UNION {PathsOf(t) : t \in ToSet(d)} : d \in TaskCorpora}
    BY <1>1
  <2> HIDE DEF U
  <2> QED BY <2>2, <2>3 DEF TaskPaths
<1>8. \A p, q \in PathsIn(task.sources) :
       /\ Opener(p) \in TextLines /\ Closer(p) \in TextLines /\ Opener(p) # Closer(q)
       /\ Opener(p) = Opener(q) \/ Closer(p) = Closer(q) => p = q
  BY <1>6, <1>7, MarkersAssumption
<1> QED BY <1>3, <1>4, <1>5, <1>6, <1>7, <1>8 DEF Distinct

LEMMA DistinctFacts ==
  ASSUME NEW sources, Distinct(sources)
  PROVE  /\ sources \in Seq(SourceFiles)
         /\ Len(sources) \in Nat /\ DOMAIN sources = 1..Len(sources)
         /\ \A k \in 1..Len(sources) :
              /\ sources[k] \in SourceFiles
              /\ sources[k].path \in PathsIn(sources)
              /\ sources[k].lines \in Seq(TextLines) /\ Len(sources[k].lines) \in Nat
              /\ Opener(sources[k].path) \in TextLines /\ Closer(sources[k].path) \in TextLines
<1>1. sources \in Seq(SourceFiles)
  BY DEF Distinct
<1>2. Len(sources) \in Nat /\ DOMAIN sources = 1..Len(sources)
  BY <1>1
<1>3. ASSUME NEW k \in 1..Len(sources)
      PROVE  /\ sources[k] \in SourceFiles
             /\ sources[k].path \in PathsIn(sources)
             /\ sources[k].lines \in Seq(TextLines) /\ Len(sources[k].lines) \in Nat
  <2>1. sources[k] \in SourceFiles
    BY <1>1
  <2>2. sources[k].path \in PathsIn(sources)
    BY <1>2 DEF PathsIn
  <2> QED BY <2>1, <2>2 DEF SourceFiles
<1> QED BY <1>1, <1>2, <1>3 DEF Distinct

LEMMA UnmarkedByMembers ==
  ASSUME NEW sources, NEW text \in Seq(TextLines),
         \A p \in PathsIn(sources) : {Opener(p), Closer(p)} \cap ToSet(text) = {}
  PROVE  Unmarked(text, sources)
<1>1. \A i \in 1..Len(text) : text[i] \in ToSet(text)
  BY DEF ToSet
<1> QED BY <1>1 DEF Unmarked

LEMMA ToSetConcat ==
  ASSUME NEW S, NEW a \in Seq(S), NEW b \in Seq(S)
  PROVE  ToSet(a) \cup ToSet(b) \subseteq ToSet(a \o b)
<1> DEFINE c == a \o b
<1>1. /\ c \in Seq(S) /\ Len(c) = Len(a) + Len(b)
      /\ \A i \in 1..Len(a) : c[i] = a[i]
      /\ \A i \in 1..Len(b) : c[Len(a) + i] = b[i]
  BY ConcatMembers
<1>2. Len(a) \in Nat /\ Len(b) \in Nat /\ DOMAIN a = 1..Len(a) /\ DOMAIN b = 1..Len(b)
  OBVIOUS
<1> HIDE DEF c
<1>3. DOMAIN c = 1..Len(c)
  BY <1>1
<1>4. ASSUME NEW i \in 1..Len(a) PROVE a[i] \in ToSet(c)
  <2>1. i \in DOMAIN c
    BY <1>1, <1>2, <1>3
  <2> QED BY <1>1, <2>1 DEF ToSet
<1>5. ASSUME NEW i \in 1..Len(b) PROVE b[i] \in ToSet(c)
  <2>1. Len(a) + i \in DOMAIN c
    BY <1>1, <1>2, <1>3
  <2> QED BY <1>1, <2>1 DEF ToSet
<1>6. \A x \in ToSet(a) : x \in ToSet(c)
  BY <1>2, <1>4 DEF ToSet
<1>7. \A x \in ToSet(b) : x \in ToSet(c)
  BY <1>2, <1>5 DEF ToSet
<1> QED BY <1>6, <1>7 DEF c

(* None of the texts of an attempt has a marker unless it is Marked.       *)
LEMMA UnmarkedTexts ==
  ASSUME NEW task, OfCorpus(task), NEW promptArm \in PromptArms, ~Marked(task, promptArm)
  PROVE  /\ Unmarked(task.issue, task.sources)
         /\ Separable(task.sources)
         /\ promptArm # "T0" => Unmarked(task.assistance[promptArm], task.sources)
<1> DEFINE a == task.issue
           f == [i \in DOMAIN task.sources |-> task.sources[i].lines]
           b == FlattenSeq(f)
           c == IF promptArm = "T0" THEN <<>> ELSE task.assistance[promptArm]
           texts == (a \o b) \o c
<1>1. task \in Task /\ Distinct(task.sources) /\ PathsOf(task) = PathsIn(task.sources)
  BY TaskFacts
<1>2. a \in Seq(TextLines) /\ c \in Seq(TextLines)
  <2>1. promptArm # "T0" => task.assistance[promptArm] \in Seq(TextLines)
    BY <1>1 DEF Task
  <2>2. <<>> \in Seq(TextLines) /\ task.issue \in Seq(TextLines)
    BY <1>1 DEF Task
  <2> QED BY <2>1, <2>2
<1>3. f \in Seq(Seq(TextLines)) /\ Len(f) = Len(task.sources)
      /\ \A k \in 1..Len(task.sources) : f[k] = task.sources[k].lines
  <2>1. Len(task.sources) \in Nat /\ DOMAIN task.sources = 1..Len(task.sources)
        /\ \A k \in 1..Len(task.sources) : task.sources[k].lines \in Seq(TextLines)
    BY <1>1, DistinctFacts
  <2> QED BY <2>1
<1>4. b \in Seq(TextLines) /\ FlatMembers(b, f, Len(f))
  <2> HIDE DEF f
  <2> QED BY <1>3, FlattenMembers
<1>5. \A p \in PathsIn(task.sources) : {Opener(p), Closer(p)} \cap ToSet(texts) = {}
  <2> HIDE DEF texts
  <2>1. Marked(task, promptArm) <=> \E p \in PathsOf(task) : {Opener(p), Closer(p)} \cap ToSet(texts) # {}
    BY DEF Marked, texts
  <2> QED BY <1>1, <2>1
<1> HIDE DEF a, b, c, f
<1>6. a \o b \in Seq(TextLines)
  BY <1>2, <1>4
<1>7. ToSet(a) \cup ToSet(b) \subseteq ToSet(a \o b)
  BY <1>2, <1>4, ToSetConcat
<1>8. ToSet(a \o b) \cup ToSet(c) \subseteq ToSet(texts)
  BY <1>2, <1>6, ToSetConcat
<1> HIDE DEF texts
<1>9. \A p \in PathsIn(task.sources) :
        /\ {Opener(p), Closer(p)} \cap ToSet(a) = {}
        /\ {Opener(p), Closer(p)} \cap ToSet(b) = {}
        /\ {Opener(p), Closer(p)} \cap ToSet(c) = {}
  BY <1>5, <1>7, <1>8
<1>10. Unmarked(a, task.sources) /\ Unmarked(b, task.sources) /\ Unmarked(c, task.sources)
  BY <1>2, <1>4, <1>9, UnmarkedByMembers
<1>11. ASSUME NEW k \in 1..Len(task.sources)
       PROVE  Unmarked(task.sources[k].lines, task.sources)
  <2> DEFINE l == task.sources[k].lines
  <2>1. \A m \in 1..Len(l) : \E i \in 1..Len(b) : b[i] = l[m]
    <3>1. k \in 1..Len(f) /\ f[k] = l
      BY <1>3
    <3> HIDE DEF l
    <3> QED BY <1>4, <3>1 DEF FlatMembers
  <2> QED BY <1>10, <2>1 DEF Unmarked
<1>12. Separable(task.sources)
  BY <1>1, <1>11 DEF Distinct, Separable
<1>13. promptArm # "T0" => Unmarked(task.assistance[promptArm], task.sources)
  BY <1>10 DEF c
<1> QED BY <1>10, <1>12, <1>13 DEF a

(* What comes in place of a line of the template.                          *)
Piece(line, task, promptArm) ==
  CASE line = "{{ISSUE}}" -> task.issue
    [] line = "{{SOURCE}}" -> RenderSourceBlock(task.sources)
    [] line = "{{ASSISTANCE}}" -> IF promptArm = "T0" THEN <<>> ELSE RenderAssistance(task.assistance[promptArm])
    [] OTHER -> <<line>>

Pieces(task, promptArm) == [i \in DOMAIN protocol.template |-> Piece(protocol.template[i], task, promptArm)]

LEMMA PromptOfPieces ==
  ASSUME NEW task, NEW promptArm
  PROVE  BuildTaskPrompt(task, promptArm) = FlattenSeq(Pieces(task, promptArm))
BY DEF BuildTaskPrompt, FillTemplate, Pieces, Piece

Blocks(sources) == [i \in DOMAIN sources |-> SourceBlock(sources[i])]

LEMMA RenderedBlocks ==
  ASSUME NEW sources, Distinct(sources)
  PROVE  /\ RenderSourceBlock(sources) = FlattenSeq(Blocks(sources))
         /\ Blocks(sources) \in Seq(Seq(TextLines)) /\ Len(Blocks(sources)) = Len(sources)
         /\ \A k \in 1..Len(sources) : Blocks(sources)[k] = SourceBlock(sources[k])
         /\ RenderSourceBlock(sources) \in Seq(TextLines)
<1>1. RenderSourceBlock(sources) = FlattenSeq(Blocks(sources))
  BY DEF RenderSourceBlock, Blocks, SourceBlock
<1>2. sources \in Seq(SourceFiles) /\ DOMAIN sources = 1..Len(sources) /\ Len(sources) \in Nat
  BY DEF Distinct
<1>3. ASSUME NEW k \in 1..Len(sources) PROVE SourceBlock(sources[k]) \in Seq(TextLines)
  <2>1. sources[k] \in SourceFiles /\ sources[k].path \in PathsIn(sources)
    BY <1>2 DEF PathsIn
  <2>2. Opener(sources[k].path) \in TextLines /\ Closer(sources[k].path) \in TextLines
    BY <2>1 DEF Distinct
  <2> QED BY <2>1, <2>2, SourceBlockParts
<1>4. /\ Blocks(sources) \in Seq(Seq(TextLines)) /\ Len(Blocks(sources)) = Len(sources)
      /\ \A k \in 1..Len(sources) : Blocks(sources)[k] = SourceBlock(sources[k])
  BY <1>2, <1>3 DEF Blocks
<1>5. FlattenSeq(Blocks(sources)) \in Seq(TextLines)
  BY <1>4, FlattenMembers
<1> QED BY <1>1, <1>4, <1>5

(* The tags of the assistance are markers of no file.                      *)
LEMMA AssistanceText ==
  ASSUME NEW payload \in Seq(TextLines)
  PROVE  /\ RenderAssistance(payload) \in Seq(TextLines)
         /\ \A i \in 1..Len(RenderAssistance(payload)) :
              \/ RenderAssistance(payload)[i] \in {"<assistance>", "</assistance>"}
              \/ \E m \in 1..Len(payload) : RenderAssistance(payload)[i] = payload[m]
<1> DEFINE a == <<"<assistance>">>
           c == <<"</assistance>">>
           d == a \o payload
           t == d \o c
<1>1. a \in Seq(TextLines) /\ c \in Seq(TextLines) /\ Len(a) = 1 /\ Len(c) = 1
      /\ a[1] = "<assistance>" /\ c[1] = "</assistance>"
  <2>1. "<assistance>" \in TextLines /\ "</assistance>" \in TextLines
    BY MarkersAssumption
  <2>2. \A S, x : x \in S => <<x>> \in Seq(S) /\ Len(<<x>>) = 1 /\ <<x>>[1] = x
    OBVIOUS
  <2> QED BY <2>1, <2>2, Zenon
<1>2. RenderAssistance(payload) = t
  BY DEF RenderAssistance
<1> HIDE DEF a, c
<1>3. /\ d \in Seq(TextLines) /\ Len(d) = Len(a) + Len(payload)
      /\ \A i \in 1..Len(a) : d[i] = a[i]
      /\ \A i \in 1..Len(d) : i \in 1..Len(a) \/ (i - Len(a) \in 1..Len(payload) /\ d[i] = payload[i - Len(a)])
  BY <1>1, ConcatMembers
<1> HIDE DEF d
<1>4. /\ t \in Seq(TextLines) /\ Len(t) = Len(d) + Len(c)
      /\ \A i \in 1..Len(d) : t[i] = d[i]
      /\ \A i \in 1..Len(t) : i \in 1..Len(d) \/ (i - Len(d) \in 1..Len(c) /\ t[i] = c[i - Len(d)])
  <2>1. d \in Seq(TextLines) /\ c \in Seq(TextLines)
    BY <1>1, <1>3
  <2> QED BY <2>1, ConcatMembers
<1> HIDE DEF t
<1>5. \A i \in 1..Len(c) : c[i] = "</assistance>"
  BY <1>1
<1>6. \A i \in 1..Len(a) : a[i] = "<assistance>"
  BY <1>1
<1>7. ASSUME NEW i \in 1..Len(t)
      PROVE  t[i] \in {"<assistance>", "</assistance>"} \/ \E m \in 1..Len(payload) : t[i] = payload[m]
  <2>1. CASE i \in 1..Len(d)
    BY <1>3, <1>4, <1>6, <2>1
  <2>2. CASE i - Len(d) \in 1..Len(c) /\ t[i] = c[i - Len(d)]
    BY <1>5, <2>2
  <2> QED BY <1>4, <2>1, <2>2
<1> QED BY <1>2, <1>4, <1>7

LEMMA TemplateFacts ==
  ASSUME protocol \in Protocols
  PROVE  /\ protocol.template \in Seq(TextLines)
         /\ DOMAIN protocol.template = 1..Len(protocol.template)
         /\ Len(protocol.template) \in Nat
         /\ \A i \in 1..Len(protocol.template) :
              /\ protocol.template[i] \in TextLines
              /\ \A p \in TaskPaths : protocol.template[i] \notin {Opener(p), Closer(p)}
<1>1. protocol.template \in Seq(TextLines)
  BY SufficiencyAssumption
<1>2. DOMAIN protocol.template = 1..Len(protocol.template) /\ Len(protocol.template) \in Nat
      /\ \A i \in 1..Len(protocol.template) : protocol.template[i] \in TextLines
  BY <1>1
<1>3. ASSUME NEW i \in 1..Len(protocol.template), NEW p \in TaskPaths
      PROVE  protocol.template[i] \notin {Opener(p), Closer(p)}
  <2>1. protocol.template[i] \in ToSet(protocol.template)
    BY <1>2 DEF ToSet
  <2>2. protocol.template[i] \in UNION {ToSet(x.template) : x \in Protocols}
    BY <2>1
  <2> QED BY <2>2, MarkersAssumption
<1> QED BY <1>1, <1>2, <1>3

LEMMA PieceTyped ==
  ASSUME NEW task, OfCorpus(task), NEW promptArm \in PromptArms, NEW line \in TextLines
  PROVE  Piece(line, task, promptArm) \in Seq(TextLines)
<1>1. task \in Task /\ Distinct(task.sources)
  BY TaskFacts
<1>2. task.issue \in Seq(TextLines)
  BY <1>1 DEF Task
<1>3. RenderSourceBlock(task.sources) \in Seq(TextLines)
  BY <1>1, RenderedBlocks
<1>4. ASSUME promptArm # "T0" PROVE RenderAssistance(task.assistance[promptArm]) \in Seq(TextLines)
  <2>1. task.assistance[promptArm] \in Seq(TextLines)
    BY <1>1, <1>4 DEF Task
  <2> QED BY <2>1, AssistanceText
<1>5. <<>> \in Seq(TextLines) /\ <<line>> \in Seq(TextLines)
  OBVIOUS
<1> QED BY <1>2, <1>3, <1>4, <1>5, Zenon DEF Piece

LEMMA PiecesTyped ==
  ASSUME protocol \in Protocols, NEW task, OfCorpus(task), NEW promptArm \in PromptArms
  PROVE  /\ Pieces(task, promptArm) \in Seq(Seq(TextLines))
         /\ Len(Pieces(task, promptArm)) = Len(protocol.template)
         /\ \A i \in 1..Len(protocol.template) :
              Pieces(task, promptArm)[i] = Piece(protocol.template[i], task, promptArm)
         /\ BuildTaskPrompt(task, promptArm) \in Seq(TextLines)
         /\ FlatMembers(BuildTaskPrompt(task, promptArm), Pieces(task, promptArm), Len(Pieces(task, promptArm)))
<1>1. \A i \in 1..Len(protocol.template) :
        Piece(protocol.template[i], task, promptArm) \in Seq(TextLines)
  BY TemplateFacts, PieceTyped
<1>2. /\ Pieces(task, promptArm) \in Seq(Seq(TextLines))
      /\ Len(Pieces(task, promptArm)) = Len(protocol.template)
      /\ \A i \in 1..Len(protocol.template) :
           Pieces(task, promptArm)[i] = Piece(protocol.template[i], task, promptArm)
  <2>1. DOMAIN protocol.template = 1..Len(protocol.template) /\ Len(protocol.template) \in Nat
    BY TemplateFacts
  <2> QED BY <1>1, <2>1 DEF Pieces
<1>3. /\ FlattenSeq(Pieces(task, promptArm)) \in Seq(TextLines)
      /\ FlatMembers(FlattenSeq(Pieces(task, promptArm)), Pieces(task, promptArm), Len(Pieces(task, promptArm)))
  BY <1>2, FlattenMembers
<1> QED BY <1>2, <1>3, PromptOfPieces

(* The prompt of an attempt that is not Marked carries the files whole.    *)
LEMMA PromptIsWhole ==
  ASSUME protocol \in Protocols, NEW task, OfCorpus(task), NEW promptArm \in PromptArms,
         ~Marked(task, promptArm)
  PROVE  WholeBlocks(BuildTaskPrompt(task, promptArm), task.sources)
<1> DEFINE sources == task.sources
<1>1. /\ task \in Task /\ Distinct(sources) /\ Separable(sources)
      /\ Unmarked(task.issue, sources)
      /\ promptArm # "T0" => Unmarked(task.assistance[promptArm], sources)
      /\ PathsIn(sources) \subseteq TaskPaths
  BY TaskFacts, UnmarkedTexts
<1>2. WholeBlocks(task.issue, sources)
  <2>1. task.issue \in Seq(TextLines)
    BY <1>1 DEF Task
  <2> QED BY <1>1, <2>1, UnmarkedIsWhole
<1>3. WholeBlocks(RenderSourceBlock(sources), sources)
  <2>1. /\ RenderSourceBlock(sources) = FlattenSeq(Blocks(sources))
        /\ Blocks(sources) \in Seq(Seq(TextLines)) /\ Len(Blocks(sources)) = Len(sources)
        /\ \A k \in 1..Len(sources) : Blocks(sources)[k] = SourceBlock(sources[k])
    BY <1>1, RenderedBlocks
  <2>2. \A k \in 1..Len(sources) : WholeBlocks(SourceBlock(sources[k]), sources)
    BY <1>1, SourceBlockIsWhole
  <2> HIDE DEF sources
  <2>3. \A k \in 1..Len(Blocks(sources)) : WholeBlocks(Blocks(sources)[k], sources)
    BY <2>1, <2>2
  <2> QED BY <1>1, <2>1, <2>3, WholeFlatten
<1>4. ASSUME promptArm # "T0" PROVE WholeBlocks(RenderAssistance(task.assistance[promptArm]), sources)
  <2> DEFINE payload == task.assistance[promptArm]
             t == RenderAssistance(payload)
  <2>1. payload \in Seq(TextLines)
    BY <1>1, <1>4 DEF Task
  <2>2. t \in Seq(TextLines)
        /\ \A i \in 1..Len(t) : \/ t[i] \in {"<assistance>", "</assistance>"}
                                \/ \E m \in 1..Len(payload) : t[i] = payload[m]
    BY <2>1, AssistanceText
  <2>3. Unmarked(payload, sources)
    BY <1>1, <1>4
  <2>4. ASSUME NEW p \in PathsIn(sources), NEW l \in {"<assistance>", "</assistance>"}
        PROVE  l \notin {Opener(p), Closer(p)}
    BY <1>1, <2>4, MarkersAssumption
  <2> HIDE DEF payload, t, sources
  <2>5. Unmarked(t, sources)
    BY <2>2, <2>3, <2>4 DEF Unmarked
  <2>6. WholeBlocks(t, sources)
    BY <1>1, <2>2, <2>5, UnmarkedIsWhole
  <2> QED BY <2>6 DEF t, payload
<1>5. <<>> \in Seq(TextLines) /\ WholeBlocks(<<>>, sources)
  <2>1. <<>> \in Seq(TextLines) /\ \A i \in 1..Len(<<>>) : FALSE
    OBVIOUS
  <2> QED BY <2>1 DEF WholeBlocks
<1>6. ASSUME NEW i \in 1..Len(protocol.template)
      PROVE  WholeBlocks(Piece(protocol.template[i], task, promptArm), sources)
  <2> DEFINE line == protocol.template[i]
  <2>1. WholeBlocks(<<line>>, sources)
    <3>1. line \in TextLines /\ \A p \in PathsIn(sources) : line \notin {Opener(p), Closer(p)}
      BY <1>1, TemplateFacts
    <3> HIDE DEF line, sources
    <3>2. <<line>> \in Seq(TextLines) /\ \A j \in 1..Len(<<line>>) : <<line>>[j] = line
      BY <3>1
    <3>3. Unmarked(<<line>>, sources)
      BY <3>1, <3>2 DEF Unmarked
    <3> QED BY <1>1, <3>2, <3>3, UnmarkedIsWhole
  <2> HIDE DEF line
  <2> QED BY <1>2, <1>3, <1>4, <1>5, <2>1, Zenon DEF Piece, line
<1>7. \A i \in 1..Len(Pieces(task, promptArm)) : WholeBlocks(Pieces(task, promptArm)[i], sources)
  BY <1>6, PiecesTyped
<1>8. WholeBlocks(FlattenSeq(Pieces(task, promptArm)), sources)
  <2>1. Pieces(task, promptArm) \in Seq(Seq(TextLines))
    BY PiecesTyped
  <2> HIDE DEF sources
  <2> QED BY <1>1, <1>7, <2>1, WholeFlatten
<1> QED BY <1>8, PromptOfPieces

(* Where the template has a place for the source, every prompt has each    *)
(* file's opener and lines.                                                *)
LEMMA PlacedShowsFiles ==
  ASSUME protocol \in Protocols, NEW task, OfCorpus(task), NEW promptArm \in PromptArms, Placed,
         NEW k \in 1..Len(task.sources)
  PROVE  /\ \E i \in 1..Len(BuildTaskPrompt(task, promptArm)) :
               BuildTaskPrompt(task, promptArm)[i] = Opener(task.sources[k].path)
         /\ ToSet(task.sources[k].lines) \subseteq ToSet(BuildTaskPrompt(task, promptArm))
<1> DEFINE sources == task.sources
           s == sources[k]
           n == Len(s.lines)
           block == SourceBlock(s)
           text == BuildTaskPrompt(task, promptArm)
           inPrompt == RenderSourceBlock(sources)
<1>1. Distinct(sources)
  BY TaskFacts
<1>2. s \in SourceFiles /\ Opener(s.path) \in TextLines /\ Closer(s.path) \in TextLines
      /\ n \in Nat /\ s.lines \in Seq(TextLines)
  BY <1>1, DistinctFacts
<1>3. /\ block \in Seq(TextLines) /\ Len(block) = n + 2 /\ block[1] = Opener(s.path)
      /\ \A m \in 1..n : block[1 + m] = s.lines[m]
  <2> HIDE DEF s
  <2> QED BY <1>2, SourceBlockParts
<1>4. /\ inPrompt = FlattenSeq(Blocks(sources))
      /\ Blocks(sources) \in Seq(Seq(TextLines)) /\ Len(Blocks(sources)) = Len(sources)
      /\ \A j \in 1..Len(sources) : Blocks(sources)[j] = SourceBlock(sources[j])
  BY <1>1, RenderedBlocks
<1>5. FlatMembers(inPrompt, Blocks(sources), Len(Blocks(sources)))
  <2> HIDE DEF inPrompt, sources
  <2> QED BY <1>4, FlattenMembers
<1>6. \A m \in 1..Len(block) : \E i \in 1..Len(inPrompt) : inPrompt[i] = block[m]
  <2>1. k \in 1..Len(Blocks(sources)) /\ Blocks(sources)[k] = block
    BY <1>4
  <2> HIDE DEF inPrompt, sources, block
  <2> QED BY <1>5, <2>1 DEF FlatMembers
<1>7. PICK i \in 1..Len(protocol.template) : protocol.template[i] = "{{SOURCE}}"
  BY TemplateFacts DEF Placed
<1>8. i \in 1..Len(Pieces(task, promptArm)) /\ Pieces(task, promptArm)[i] = inPrompt
  <2>1. Piece("{{SOURCE}}", task, promptArm) = inPrompt
    BY DEF Piece
  <2> HIDE DEF inPrompt
  <2> QED BY <1>7, <2>1, PiecesTyped
<1>9. text \in Seq(TextLines) /\ FlatMembers(text, Pieces(task, promptArm), Len(Pieces(task, promptArm)))
  BY PiecesTyped
<1>10. \A m \in 1..Len(inPrompt) : \E j \in 1..Len(text) : text[j] = inPrompt[m]
  <2> HIDE DEF inPrompt, text
  <2> QED BY <1>8, <1>9 DEF FlatMembers
<1>11. \A m \in 1..Len(block) : \E j \in 1..Len(text) : text[j] = block[m]
  <2> HIDE DEF inPrompt, text, block
  <2> QED BY <1>6, <1>10
<1>12. \E j \in 1..Len(text) : text[j] = Opener(s.path)
  <2>1. 1 \in 1..Len(block)
    BY <1>2, <1>3
  <2> HIDE DEF text, block, s
  <2> QED BY <1>3, <1>11, <2>1
<1>13. ASSUME NEW x \in ToSet(s.lines) PROVE x \in ToSet(text)
  <2>1. PICK m \in 1..n : x = s.lines[m]
    BY <1>2 DEF ToSet
  <2>2. 1 + m \in 1..Len(block) /\ block[1 + m] = x
    BY <1>2, <1>3, <2>1
  <2>3. PICK j \in 1..Len(text) : text[j] = x
    <3> HIDE DEF text, block
    <3> QED BY <1>11, <2>2
  <2> HIDE DEF text
  <2> QED BY <1>9, <2>3 DEF ToSet
<1> QED BY <1>12, <1>13

(* Where it has none the files make no difference.                         *)
LEMMA UnplacedIsWithout ==
  ASSUME NEW task \in Task, NEW promptArm, ~Placed
  PROVE  BuildTaskPrompt([task EXCEPT !.sources = <<>>], promptArm) = BuildTaskPrompt(task, promptArm)
<1> DEFINE bare == [task EXCEPT !.sources = <<>>]
<1>1. bare.issue = task.issue /\ bare.assistance = task.assistance
  BY DEF Task
<1> HIDE DEF bare
<1>2. ASSUME NEW i \in DOMAIN protocol.template
      PROVE  Piece(protocol.template[i], bare, promptArm) = Piece(protocol.template[i], task, promptArm)
  <2>1. protocol.template[i] # "{{SOURCE}}"
    BY DEF Placed
  <2> QED BY <1>1, <2>1 DEF Piece
<1>3. Pieces(bare, promptArm) = Pieces(task, promptArm)
  BY <1>2 DEF Pieces
<1> QED BY <1>3, PromptOfPieces DEF bare

LEMMA ProbesAreLines ==
  ASSUME NEW lines \in Seq(TextLines)
  PROVE  /\ ProbeLines(lines) \subseteq ToSet(lines)
         /\ ToSet(lines) \cap Substantial # {} => ProbeLines(lines) # {}
<1> DEFINE f == [i \in DOMAIN lines |-> IF lines[i] \in Substantial THEN <<lines[i]>> ELSE <<>>]
           c == Candidates(lines)
           n == Len(c)
<1>1. DOMAIN lines = 1..Len(lines) /\ Len(lines) \in Nat
      /\ \A i \in 1..Len(lines) : lines[i] \in TextLines
  OBVIOUS
<1>2. f \in Seq(Seq(TextLines)) /\ Len(f) = Len(lines)
      /\ \A i \in 1..Len(lines) :
           f[i] = IF lines[i] \in Substantial THEN <<lines[i]>> ELSE <<>>
  <2>1. \A i \in 1..Len(lines) :
          (IF lines[i] \in Substantial THEN <<lines[i]>> ELSE <<>>) \in Seq(TextLines)
    BY <1>1
  <2> QED BY <1>1, <2>1
<1>3. c = FlattenSeq(f)
  BY DEF Candidates
<1> HIDE DEF c, f
<1>4. c \in Seq(TextLines) /\ FlatMembers(c, f, Len(f))
  BY <1>2, <1>3, FlattenMembers
<1>5. n \in Nat /\ \A a \in 1..n : c[a] \in ToSet(lines)
  <2>1. ASSUME NEW a \in 1..n PROVE c[a] \in ToSet(lines)
    <3>1. PICK i \in 1..Len(f) : \E m \in 1..Len(f[i]) : c[a] = f[i][m]
      BY <1>4 DEF FlatMembers
    <3>2. PICK m \in 1..Len(f[i]) : c[a] = f[i][m]
      BY <3>1
    <3>3. i \in 1..Len(lines)
      BY <1>2
    <3>4. \A x : \A j \in 1..Len(<<x>>) : <<x>>[j] = x
      OBVIOUS
    <3>5. \A j \in 1..Len(<<>>) : FALSE
      OBVIOUS
    <3>6. f[i][m] = lines[i]
      BY <1>2, <3>3, <3>4, <3>5
    <3> QED BY <1>1, <3>2, <3>3, <3>6 DEF ToSet
  <2> QED BY <1>4, <2>1
<1>6. n # 0 => \A i \in 1..5 : ((i * n) \div 6) + 1 \in 1..n
  <2> SUFFICES ASSUME n # 0, NEW i \in 1..5 PROVE ((i * n) \div 6) + 1 \in 1..n
    OBVIOUS
  <2>1. n \in Nat \ {0}
    BY <1>5
  <2> HIDE DEF n
  <2>2. i = 1 \/ i = 2 \/ i = 3 \/ i = 4 \/ i = 5
    OBVIOUS
  <2> QED BY <2>1, <2>2
<1>7. ProbeLines(lines) = IF n = 0 THEN {} ELSE {c[((i * n) \div 6) + 1] : i \in 1..5}
  BY DEF ProbeLines, c
<1>8. ASSUME ToSet(lines) \cap Substantial # {} PROVE n # 0
  <2>1. PICK i \in 1..Len(lines) : lines[i] \in Substantial
    BY <1>1, <1>8 DEF ToSet
  <2>2. i \in 1..Len(f) /\ f[i] = <<lines[i]>>
    BY <1>2, <2>1
  <2>3. 1 \in 1..Len(f[i])
    <3>1. \A x : 1 \in 1..Len(<<x>>)
      OBVIOUS
    <3> QED BY <2>2, <3>1
  <2>4. \E a \in 1..Len(c) : c[a] = f[i][1]
    BY <1>4, <2>2, <2>3 DEF FlatMembers
  <2> QED BY <1>5, <2>4
<1> HIDE DEF n
<1>9. ProbeLines(lines) \subseteq ToSet(lines)
  BY <1>5, <1>6, <1>7
<1>10. n # 0 => ProbeLines(lines) # {}
  BY <1>7
<1> QED BY <1>8, <1>9, <1>10

(* A set numbered without repetition has as many members as numbers.       *)
Numbered(f, n) == {f[i] : i \in 1..n}

LEMMA NumberedCount ==
  ASSUME NEW n \in Nat, NEW f, \A i, j \in 1..n : f[i] = f[j] => i = j
  PROVE  Cardinality(Numbered(f, n)) = n
<1> DEFINE T == {f[i] : i \in 1..n}
           g == [i \in 1..n |-> f[i]]
<1>1. g \in Bijection(1..n, T)
  BY DEF Bijection, Injection, Surjection, IsInjective
<1>2. ExistsBijection(1..n, T)
  BY <1>1 DEF ExistsBijection
<1>3. IsFiniteSet(1..n) /\ Cardinality(1..n) = n
  <2>1. IsFiniteSet(1..n) /\ Cardinality(1..n) = IF 1 > n THEN 0 ELSE n - 1 + 1
    BY FS_Interval
  <2> QED BY <2>1
<1> HIDE DEF T
<1>4. Cardinality(T) = n
  BY <1>2, <1>3, FS_Bijection
<1> QED BY <1>4 DEF T, Numbered

-----------------------------------------------------------------------------
(* The rows of the checks tell of the tasks measured so far; the exit code *)
(* is what the rows say; the dry run is what the stub makes of the prompts.*)

Unfiltered == filter = ""

Stubbed(t, promptArm) == NoopStub(BuildTaskPrompt(corpus[t], promptArm), PathsOf(corpus[t]))
Measured(t) == CapRow(t, RequiredOutputTokens(corpus[t].sources))

SufInv ==
  /\ corpus \in TaskCorpora /\ protocol \in Protocols
  /\ measured \in 0..Len(corpus)
  /\ missing = {} <=> \A t \in 1..measured : Unreadable(corpus[t]) = {}
  /\ missing = {} => caps = {Measured(t) : t \in 1..measured}
  /\ \A r \in completeness :
       \E t \in 1..measured, a \in PromptArms :
         \E s \in ToSet(corpus[t].sources) : r = CompletenessRow(t, a, s)
  /\ missing = {} =>
       \A t \in 1..measured, a \in PromptArms :
         \A s \in ToSet(corpus[t].sources) : CompletenessRow(t, a, s) \in completeness
  /\ sufExit = -1 => dryRun = {}
  /\ sufExit # -1 => measured = Len(corpus) /\ sufExit = ReportedExit
  /\ \A d \in dryRun :
       /\ sufExit = 0
       /\ d.task \in DOMAIN corpus /\ d.arm \in PromptArms
       /\ d.files = Stubbed(d.task, d.arm)

LEMMA CorpusFacts ==
  ASSUME corpus \in TaskCorpora
  PROVE  /\ Len(corpus) \in Nat /\ DOMAIN corpus = 1..Len(corpus)
         /\ \A t \in 1..Len(corpus) : OfCorpus(corpus[t])
<1>1. corpus \in Seq(Task)
  BY CorporaAssumption
<1>2. Len(corpus) \in Nat /\ DOMAIN corpus = 1..Len(corpus)
  BY <1>1
<1> QED BY <1>2 DEF OfCorpus, ToSet

(* What each exit code is given for.                                       *)
LEMMA ExitReasons ==
  /\ ReportedExit \in {0, 6, 7, 8, 9, 71}
  /\ ReportedExit = 7 <=> missing # {} \/ Cardinality(caps) # Len(corpus)
  /\ ReportedExit = 6 => ~CheckPromptCompleteness
  /\ ReportedExit = 0 /\ Unfiltered => CheckPromptCompleteness
<1> DEFINE asked == {i \in DOMAIN Checks : filter \in {"", Checks[i]}}
           failed == {i \in asked : ~Passes(Checks[i])}
           first == CHOOSE i \in failed : \A j \in failed : i <= j
<1>1. DOMAIN Checks = 1..4 /\ Checks[1] = "prompt_completeness" /\ Checks[2] = "output_cap_headroom"
      /\ Checks[3] = "template_claim_audit" /\ Checks[4] = "stub_realism"
  BY DEF Checks
<1>2. ExitOf["prompt_completeness"] = 6 /\ ExitOf["output_cap_headroom"] = 8
      /\ ExitOf["template_claim_audit"] = 9
  BY DEF ExitOf
<1>3. asked \subseteq 1..4 /\ (Unfiltered => 1 \in asked)
  <2>1. asked \subseteq DOMAIN Checks
    BY Zenon
  <2>2. 1 \in DOMAIN Checks
    BY <1>1
  <2>3. Unfiltered => 1 \in asked
    BY <2>2, Zenon DEF Unfiltered
  <2> HIDE DEF asked
  <2> QED BY <1>1, <2>1, <2>3
<1>4. \A i : i \in failed <=> i \in asked /\ ~Passes(Checks[i])
  BY Zenon
<1>5. ExitCodeFor(asked) = IF failed = {} THEN 0 ELSE ExitOf[Checks[first]]
  BY Zenon DEF ExitCodeFor
<1>6. Passes("prompt_completeness") <=> CheckPromptCompleteness
  BY DEF Passes
<1>9. ReportedExit = IF missing # {} \/ Cardinality(caps) # Len(corpus) THEN 7
                     ELSE IF asked = {} THEN 71 ELSE ExitCodeFor(asked)
  BY Zenon DEF ReportedExit
<1> HIDE DEF asked, failed
<1>10. failed \subseteq 1..3
  <2>1. Passes("stub_realism")
    BY DEF Passes
  <2>2. \A i \in 1..4 : i \in 1..3 \/ i = 4
    OBVIOUS
  <2> QED BY <1>1, <1>3, <1>4, <2>1, <2>2
<1>11. failed # {} => first \in failed
  <2> SUFFICES ASSUME failed # {} PROVE \E i \in failed : \A j \in failed : i <= j
    BY Zenon
  <2>1. failed \in SUBSET Nat
    BY <1>10
  <2> QED BY <2>1, LeastNatural
<1> HIDE DEF first
<1>7. 1 \in failed => ~CheckPromptCompleteness
  BY <1>1, <1>4, <1>6
<1>8. Unfiltered /\ failed = {} => CheckPromptCompleteness
  BY <1>1, <1>3, <1>4, <1>6
<1> DEFINE cut == missing # {} \/ Cardinality(caps) # Len(corpus)
           code == ExitCodeFor(asked)
<1>12. ReportedExit = IF cut THEN 7 ELSE IF asked = {} THEN 71 ELSE code
  BY <1>9
<1>13. CASE failed = {}
  <2>1. code = 0
    BY <1>5, <1>13
  <2> HIDE DEF code
  <2>2. ReportedExit = IF cut THEN 7 ELSE IF asked = {} THEN 71 ELSE 0
    BY <1>12, <2>1
  <2> HIDE DEF cut
  <2>3. ReportedExit \in {0, 6, 7, 8, 9, 71} /\ ReportedExit # 6
    BY <2>2
  <2>4. ReportedExit = 7 <=> cut
    BY <2>2
  <2> QED BY <1>8, <1>13, <2>3, <2>4, Zenon DEF cut
<1>14. CASE failed # {}
  <2>1. first \in failed
    BY <1>11, <1>14
  <2>2. first = 1 \/ first = 2 \/ first = 3
    BY <1>10, <2>1
  <2>3. code = ExitOf[Checks[first]]
    BY <1>5, <1>14
  <2> HIDE DEF code
  <2>4. (first = 1 /\ code = 6) \/ (first = 2 /\ code = 8) \/ (first = 3 /\ code = 9)
    BY <1>1, <1>2, <2>2, <2>3, Zenon
  <2> HIDE DEF cut
  <2>5. ReportedExit \in {0, 6, 7, 8, 9, 71}
    BY <1>12, <2>4
  <2>6. ReportedExit = 7 <=> cut
    BY <1>12, <2>4
  <2>7. ReportedExit = 6 => first = 1
    BY <1>12, <2>4
  <2>8. ReportedExit = 6 => ~CheckPromptCompleteness
    BY <1>7, <2>1, <2>7, Zenon
  <2>9. ReportedExit # 0
    BY <1>12, <2>4
  <2> QED BY <2>5, <2>6, <2>8, <2>9, Zenon DEF cut
<1> QED BY <1>13, <1>14, Zenon

LEMMA SufInitInv == SufInit => SufInv
<1> SUFFICES ASSUME SufInit PROVE SufInv
  OBVIOUS
<1>1. corpus \in TaskCorpora /\ protocol \in Protocols /\ measured = 0 /\ completeness = {}
      /\ caps = {} /\ missing = {} /\ sufExit = -1 /\ dryRun = {}
  BY DEF SufInit
<1>2. 1..measured = {} /\ measured \in 0..Len(corpus)
  BY <1>1, CorpusFacts
<1> QED BY <1>1, <1>2 DEF SufInv

LEMMA MeasureKeepsInv ==
  ASSUME SufInv, MeasureTask
  PROVE  SufInv'
<1> DEFINE t == measured + 1
           task == corpus[t]
<1>1. /\ corpus' = corpus /\ protocol' = protocol /\ filter' = filter
      /\ sufExit' = sufExit /\ dryRun' = dryRun /\ sufExit = -1 /\ measured' = measured + 1
      /\ measured < Len(corpus)
      /\ missing' = missing \cup {[task |-> t, path |-> p] : p \in Unreadable(task)}
  BY DEF MeasureTask
<1>2. measured \in 0..Len(corpus) /\ corpus \in TaskCorpora /\ protocol \in Protocols
      /\ Len(corpus) \in Nat /\ DOMAIN corpus = 1..Len(corpus)
  BY CorpusFacts DEF SufInv
<1>3. t \in 1..Len(corpus) /\ 1..measured' = 1..measured \cup {t} /\ measured' \in 0..Len(corpus)
  BY <1>1, <1>2
<1>4. \A i : Measured(i)' = Measured(i)
  BY <1>1 DEF Measured, CapRow
<1>5. \A i, a, s : CompletenessRow(i, a, s)' = CompletenessRow(i, a, s)
  BY <1>1 DEF CompletenessRow, BuildTaskPrompt
<1>6. missing' = {} <=> \A i \in 1..measured' : Unreadable(corpus[i]) = {}
  <2>1. missing' = {} <=> missing = {} /\ Unreadable(task) = {}
    BY <1>1
  <2>2. missing = {} <=> \A i \in 1..measured : Unreadable(corpus[i]) = {}
    BY DEF SufInv
  <2> QED BY <1>3, <2>1, <2>2
<1>9. /\ \A r \in completeness' :
           \E i \in 1..measured', a \in PromptArms :
             \E s \in ToSet(corpus[i].sources) : r = CompletenessRow(i, a, s)
      /\ missing' = {} =>
           \A i \in 1..measured', a \in PromptArms :
             \A s \in ToSet(corpus[i].sources) : CompletenessRow(i, a, s) \in completeness'
      /\ missing' = {} => caps' = {Measured(i) : i \in 1..measured'}
  <2>1. CASE Unreadable(task) # {}
    <3>1. caps' = caps /\ completeness' = completeness
      BY <2>1 DEF MeasureTask
    <3>2. missing' # {}
      BY <1>1, <2>1
    <3>3. \A r \in completeness' :
            \E i \in 1..measured', a \in PromptArms :
              \E s \in ToSet(corpus[i].sources) : r = CompletenessRow(i, a, s)
      BY <1>3, <3>1 DEF SufInv
    <3> QED BY <3>2, <3>3
  <2>2. CASE Unreadable(task) = {}
    <3>1. /\ caps' = caps \cup {Measured(t)}
          /\ completeness' = completeness \cup
               {CompletenessRow(t, a, s) : a \in PromptArms, s \in ToSet(task.sources)}
      BY <2>2 DEF MeasureTask, Measured
    <3>2. missing' = missing
      BY <1>1, <2>2
    <3>3. \A r \in completeness' :
            \E i \in 1..measured', a \in PromptArms :
              \E s \in ToSet(corpus[i].sources) : r = CompletenessRow(i, a, s)
      <4>1. ASSUME NEW r \in completeness
            PROVE  \E i \in 1..measured', a \in PromptArms :
                     \E s \in ToSet(corpus[i].sources) : r = CompletenessRow(i, a, s)
        BY <1>3 DEF SufInv
      <4>2. ASSUME NEW a \in PromptArms, NEW s \in ToSet(task.sources)
            PROVE  \E i \in 1..measured', b \in PromptArms :
                     \E x \in ToSet(corpus[i].sources) : CompletenessRow(t, a, s) = CompletenessRow(i, b, x)
        BY <1>3
      <4> QED BY <3>1, <4>1, <4>2
    <3>4. missing' = {} =>
            \A i \in 1..measured', a \in PromptArms :
              \A s \in ToSet(corpus[i].sources) : CompletenessRow(i, a, s) \in completeness'
      <4> SUFFICES ASSUME missing' = {}, NEW i \in 1..measured', NEW a \in PromptArms,
                          NEW s \in ToSet(corpus[i].sources)
                   PROVE  CompletenessRow(i, a, s) \in completeness'
        OBVIOUS
      <4>1. CASE i = t
        BY <3>1, <4>1
      <4>2. CASE i \in 1..measured
        BY <3>1, <3>2, <4>2 DEF SufInv
      <4> QED BY <1>3, <4>1, <4>2
    <3>5. missing' = {} => caps' = {Measured(i) : i \in 1..measured'}
      <4> SUFFICES ASSUME missing' = {} PROVE caps' = {Measured(i) : i \in 1..measured'}
        OBVIOUS
      <4>1. caps = {Measured(i) : i \in 1..measured}
        BY <3>2 DEF SufInv
      <4> QED BY <1>3, <3>1, <4>1
    <3> QED BY <3>3, <3>4, <3>5
  <2> QED BY <2>1, <2>2
<1>10. \A r \in completeness' :
         \E i \in 1..measured', a \in PromptArms :
           \E s \in ToSet(corpus'[i].sources) : r = CompletenessRow(i, a, s)'
  BY <1>1, <1>5, <1>9
<1>11. missing' = {} =>
         \A i \in 1..measured', a \in PromptArms :
           \A s \in ToSet(corpus'[i].sources) : CompletenessRow(i, a, s)' \in completeness'
  BY <1>1, <1>5, <1>9
<1>12. missing' = {} => caps' = {Measured(i)' : i \in 1..measured'}
  BY <1>4, <1>9
<1>13. missing' = {} <=> \A i \in 1..measured' : Unreadable(corpus'[i]) = {}
  BY <1>1, <1>6
<1>14. dryRun' = {}
  BY <1>1 DEF SufInv
<1> QED BY <1>1, <1>2, <1>3, <1>10, <1>11, <1>12, <1>13, <1>14 DEF SufInv

LEMMA SufRestKeepsInv ==
  ASSUME SufInv, Report \/ DryRunAttempt \/ UNCHANGED sufVars
  PROVE  SufInv'
<1>1. /\ corpus' = corpus /\ protocol' = protocol /\ filter' = filter /\ measured' = measured
      /\ completeness' = completeness /\ caps' = caps /\ missing' = missing
  BY DEF Report, DryRunAttempt, sufVars
<1>2. \A i : Measured(i)' = Measured(i)
  BY <1>1 DEF Measured, CapRow
<1>3. \A i, a, s : CompletenessRow(i, a, s)' = CompletenessRow(i, a, s)
  BY <1>1 DEF CompletenessRow, BuildTaskPrompt
<1>4. ReportedExit' = ReportedExit
  BY <1>1 DEF ReportedExit, ExitCodeFor, Passes, CheckPromptCompleteness, CheckOutputCapHeadroom,
              AuditTemplateClaims
<1>5. \A t, a : Stubbed(t, a)' = Stubbed(t, a)
  BY <1>1 DEF Stubbed, BuildTaskPrompt
<1>6. /\ corpus' \in TaskCorpora /\ protocol' \in Protocols
      /\ measured' \in 0..Len(corpus')
      /\ missing' = {} <=> \A t \in 1..measured' : Unreadable(corpus'[t]) = {}
      /\ missing' = {} => caps' = {Measured(t)' : t \in 1..measured'}
      /\ \A r \in completeness' :
           \E t \in 1..measured', a \in PromptArms :
             \E s \in ToSet(corpus'[t].sources) : r = CompletenessRow(t, a, s)'
      /\ missing' = {} =>
           \A t \in 1..measured', a \in PromptArms :
             \A s \in ToSet(corpus'[t].sources) : CompletenessRow(t, a, s)' \in completeness'
  BY <1>1, <1>2, <1>3 DEF SufInv
<1>7. /\ sufExit' = -1 => dryRun' = {}
      /\ sufExit' # -1 => measured' = Len(corpus') /\ sufExit' = ReportedExit'
      /\ \A d \in dryRun' :
           /\ sufExit' = 0
           /\ d.task \in DOMAIN corpus' /\ d.arm \in PromptArms
           /\ d.files = Stubbed(d.task, d.arm)
  <2>1. CASE Report
    <3>1. sufExit = -1 /\ measured = Len(corpus) /\ sufExit' = ReportedExit /\ dryRun' = dryRun
      BY <2>1 DEF Report
    <3>2. dryRun = {}
      BY <3>1 DEF SufInv
    <3> QED BY <1>1, <1>4, <3>1, <3>2
  <2>2. CASE DryRunAttempt
    <3>1. PICK t \in DOMAIN corpus, a \in PromptArms :
            dryRun' = dryRun \cup {[task |-> t, arm |-> a, files |-> Stubbed(t, a)]}
      BY <2>2 DEF DryRunAttempt, Stubbed
    <3>2. sufExit = 0 /\ sufExit' = sufExit
      BY <2>2 DEF DryRunAttempt
    <3>3. ASSUME NEW d \in dryRun'
          PROVE  /\ d.task \in DOMAIN corpus /\ d.arm \in PromptArms
                 /\ d.files = Stubbed(d.task, d.arm)
      <4>1. CASE d \in dryRun
        BY <4>1 DEF SufInv
      <4>2. CASE d \notin dryRun
        BY <3>1, <4>2
      <4> QED BY <4>1, <4>2
    <3>4. measured = Len(corpus) /\ sufExit = ReportedExit
      BY <3>2 DEF SufInv
    <3> QED BY <1>1, <1>4, <1>5, <3>2, <3>3, <3>4
  <2>3. CASE UNCHANGED sufVars
    <3>1. sufExit' = sufExit /\ dryRun' = dryRun
      BY <2>3 DEF sufVars
    <3> QED BY <1>1, <1>4, <1>5, <3>1 DEF SufInv
  <2> QED BY <2>1, <2>2, <2>3
<1> QED BY <1>5, <1>6, <1>7 DEF SufInv

LEMMA SufficiencyInvariant == SufSpec => []SufInv
<1>1. SufInv /\ [SufNext]_sufVars => SufInv'
  BY MeasureKeepsInv, SufRestKeepsInv DEF SufNext
<1> QED BY <1>1, SufInitInv, PTL DEF SufSpec

(* A corpus measured to the end is all there, or some file is missing.     *)
LEMMA AllMeasured ==
  ASSUME SufInv, measured = Len(corpus), missing = {}
  PROVE  Cardinality(caps) = Len(corpus)
<1> DEFINE f == [t \in 1..Len(corpus) |-> Measured(t)]
<1>1. Len(corpus) \in Nat
  BY CorpusFacts DEF SufInv
<1>2. caps = Numbered(f, Len(corpus))
  BY DEF SufInv, Numbered
<1>3. \A t \in 1..Len(corpus) : f[t].task = t
  BY DEF Measured, CapRow
<1> HIDE DEF f
<1>4. \A i, j \in 1..Len(corpus) : f[i] = f[j] => i = j
  BY <1>3
<1>5. Cardinality(Numbered(f, Len(corpus))) = Len(corpus)
  BY <1>1, <1>4, NumberedCount
<1> QED BY <1>2, <1>5

LEMMA SevenIsMissing ==
  ASSUME SufInv
  PROVE  sufExit = 7 <=> sufExit # -1 /\ \E t \in DOMAIN corpus : Unreadable(corpus[t]) # {}
<1>1. DOMAIN corpus = 1..Len(corpus)
  BY CorpusFacts DEF SufInv
<1>2. CASE sufExit = -1
  BY <1>2
<1>3. CASE sufExit # -1
  <2>1. measured = Len(corpus) /\ sufExit = ReportedExit
    BY <1>3 DEF SufInv
  <2>2. missing = {} <=> \A t \in DOMAIN corpus : Unreadable(corpus[t]) = {}
    BY <1>1, <2>1 DEF SufInv
  <2>3. sufExit = 7 <=> missing # {}
    BY <2>1, AllMeasured, ExitReasons
  <2> QED BY <1>3, <2>2, <2>3
<1> QED BY <1>2, <1>3

(* Any other code is given when everything was measured.                   *)
LEMMA NothingMissing ==
  ASSUME SufInv, sufExit \notin {-1, 7}
  PROVE  /\ sufExit = ReportedExit /\ missing = {} /\ measured = Len(corpus)
         /\ DOMAIN corpus = 1..Len(corpus)
<1>1. measured = Len(corpus) /\ sufExit = ReportedExit
  BY DEF SufInv
<1>2. missing = {}
  BY <1>1, ExitReasons
<1> QED BY <1>1, <1>2, CorpusFacts DEF SufInv

LEMMA SixHasItsReason ==
  ASSUME SufInv, sufExit = 6
  PROVE  \/ ~Placed \/ \A t \in DOMAIN corpus : corpus[t].sources = <<>>
         \/ \E t \in DOMAIN corpus : \E s \in ToSet(corpus[t].sources) :
              ToSet(s.lines) \cap Substantial = {}
<1> SUFFICES ASSUME Placed, NEW t0 \in DOMAIN corpus, corpus[t0].sources # <<>>,
                    \A t \in DOMAIN corpus : \A s \in ToSet(corpus[t].sources) :
                       ToSet(s.lines) \cap Substantial # {}
             PROVE  FALSE
  OBVIOUS
<1>1. /\ sufExit = ReportedExit /\ missing = {} /\ measured = Len(corpus)
      /\ DOMAIN corpus = 1..Len(corpus)
  BY NothingMissing
<1>2. corpus \in TaskCorpora /\ protocol \in Protocols
  BY DEF SufInv
<1>3. ASSUME NEW t \in 1..Len(corpus), NEW a \in PromptArms, NEW s \in ToSet(corpus[t].sources)
      PROVE  CompletenessRow(t, a, s).present
  <2> DEFINE task == corpus[t]
             text == BuildTaskPrompt(task, a)
  <2>1. OfCorpus(task)
    BY <1>2, CorpusFacts
  <2>2. Distinct(task.sources)
    BY <2>1, TaskFacts
  <2>3. PICK k \in 1..Len(task.sources) : s = task.sources[k]
    BY <2>2, DistinctFacts DEF ToSet
  <2>4. s.lines \in Seq(TextLines)
    BY <2>2, <2>3, DistinctFacts
  <2>5. ToSet(s.lines) \subseteq ToSet(text)
    BY <1>2, <2>1, <2>3, PlacedShowsFiles
  <2>6. ProbeLines(s.lines) # {} /\ ProbeLines(s.lines) \subseteq ToSet(s.lines)
    BY <1>1, <2>4, ProbesAreLines
  <2>7. EvaluateSourcePresence(text, s.lines)
    BY <2>5, <2>6 DEF EvaluateSourcePresence
  <2> QED BY <2>7 DEF CompletenessRow
<1>4. \A r \in completeness : r.present
  BY <1>1, <1>3 DEF SufInv
<1>5. completeness # {}
  <2>1. PICK a : a \in PromptArms
    BY SufficiencyAssumption
  <2>2. Distinct(corpus[t0].sources)
    BY <1>1, <1>2, CorpusFacts, TaskFacts
  <2>3. corpus[t0].sources[1] \in ToSet(corpus[t0].sources)
    <3> DEFINE sources == corpus[t0].sources
    <3>1. sources \in Seq(SourceFiles) /\ sources # <<>>
      BY <2>2, DistinctFacts
    <3> HIDE DEF sources
    <3>2. 1 \in DOMAIN sources
      BY <3>1
    <3>3. sources[1] \in ToSet(sources)
      BY <3>2 DEF ToSet
    <3> QED BY <3>3 DEF sources
  <2>4. CompletenessRow(t0, a, corpus[t0].sources[1]) \in completeness
    BY <1>1, <2>1, <2>3 DEF SufInv
  <2> QED BY <2>4
<1>6. CheckPromptCompleteness
  BY <1>4, <1>5 DEF CheckPromptCompleteness
<1> QED BY <1>1, <1>6, ExitReasons

LEMMA DryRunIsSpared ==
  ASSUME SufInv, Unfiltered, NEW d \in dryRun
  PROVE  \/ d.files = ToSet(corpus[d.task].sources)
         \/ Marked(corpus[d.task], d.arm)
         \/ ~Placed /\ \A s \in ToSet(corpus[d.task].sources) : Quoted(corpus[d.task], d.arm, s.lines)
<1> DEFINE t == d.task
           a == d.arm
           task == corpus[t]
           text == BuildTaskPrompt(task, a)
<1>1. /\ sufExit = 0 /\ t \in DOMAIN corpus /\ a \in PromptArms
      /\ d.files = NoopStub(text, PathsOf(task))
      /\ corpus \in TaskCorpora /\ protocol \in Protocols
  BY DEF SufInv, Stubbed
<1>2. /\ sufExit = ReportedExit /\ missing = {} /\ measured = Len(corpus)
      /\ DOMAIN corpus = 1..Len(corpus)
  <2>1. sufExit = 0
    BY <1>1
  <2>2. sufExit \notin {-1, 7}
    BY <2>1
  <2> QED BY <2>2, NothingMissing
<1>3. OfCorpus(task)
  BY <1>1, <1>2, CorpusFacts
<1>4. task \in Task /\ Distinct(task.sources) /\ PathsOf(task) = PathsIn(task.sources)
  BY <1>3, TaskFacts
<1>5. CASE Placed /\ ~Marked(task, a)
  <2>1. text \in Seq(TextLines)
    BY <1>1, <1>3, PiecesTyped
  <2>2. WholeBlocks(text, task.sources)
    BY <1>1, <1>3, <1>5, PromptIsWhole
  <2>3. Separable(task.sources)
    BY <1>1, <1>3, <1>5, UnmarkedTexts
  <2>4. \A k \in 1..Len(task.sources) : \E i \in 1..Len(text) : text[i] = Opener(task.sources[k].path)
    BY <1>1, <1>3, <1>5, PlacedShowsFiles
  <2> HIDE DEF text, task
  <2>5. NoopStub(text, PathsIn(task.sources)) = ToSet(task.sources)
    BY <2>1, <2>2, <2>3, <2>4, NoopGivesFilesBack
  <2>6. d.files = ToSet(task.sources)
    BY <1>1, <1>4, <2>5
  <2> QED BY <2>6 DEF task
<1>6. CASE ~Placed
  <2>1. ASSUME NEW s \in ToSet(task.sources) PROVE Quoted(task, a, s.lines)
    <3>1. CompletenessRow(t, a, s) \in completeness
      BY <1>1, <1>2 DEF SufInv
    <3>2. CheckPromptCompleteness
      BY <1>1, <1>2, ExitReasons
    <3>3. CompletenessRow(t, a, s).present
      BY <3>1, <3>2 DEF CheckPromptCompleteness
    <3>4. EvaluateSourcePresence(text, s.lines)
      BY <3>3 DEF CompletenessRow
    <3>5. ProbeLines(s.lines) \subseteq ToSet(text)
      BY <3>4 DEF EvaluateSourcePresence
    <3>6. BuildTaskPrompt([task EXCEPT !.sources = <<>>], a) = text
      BY <1>4, <1>6, UnplacedIsWithout
    <3> QED BY <3>5, <3>6 DEF Quoted
  <2> QED BY <1>6, <2>1
<1> QED BY <1>5, <1>6

(***************************************************************************)
(* What the sufficiency gates say is so (check-sufficiency.mjs, prompt.ts, *)
(* stubs.ts): after a pass of all of them the noop stub has every file of  *)
(* every task from every arm's prompt, unless a text carries a marker or   *)
(* the template has no place for the files and the texts quote every       *)
(* probe; the codes 6 and 7 are given for their reasons.  For any corpus   *)
(* of tasks with distinct paths, any template without a file's marker, any *)
(* limits and any notion of a substantial line.                            *)
(***************************************************************************)
THEOREM SufficiencyIsTrue == SufSpec => []SufficiencyVerdictIsTrue
<1>1. SufInv => SufficiencyVerdictIsTrue
  <2> SUFFICES ASSUME SufInv PROVE SufficiencyVerdictIsTrue
    OBVIOUS
  <2>1. filter = "" =>
          \A d \in dryRun :
            \/ d.files = ToSet(corpus[d.task].sources)
            \/ Marked(corpus[d.task], d.arm)
            \/ ~Placed /\ \A s \in ToSet(corpus[d.task].sources) : Quoted(corpus[d.task], d.arm, s.lines)
    BY DryRunIsSpared, Zenon DEF Unfiltered
  <2> QED BY <2>1, SixHasItsReason, SevenIsMissing DEF SufficiencyVerdictIsTrue
<1> QED BY <1>1, SufficiencyInvariant, PTL
=============================================================================
