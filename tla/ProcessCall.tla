----------------------------- MODULE ProcessCall -----------------------------
(***************************************************************************)
(* What runProcess promises to the broker, the model adapter and the       *)
(* scorer: the call stays open until it gets exactly one outcome, and      *)
(* whoever cancelled gets no result.  ProcessRun (child, pipes, timer and  *)
(* abort listener) is shown to implement it, and RunnerEvaluation takes    *)
(* the outcomes of its two processes from MayReturn.                       *)
(***************************************************************************)
CONSTANT Waiting     \* the call has no outcome yet

Resolved == "resolved"

Rejections ==
  {"OML_CANCELLED", "OML_PROCESS_TIMEOUT", "OML_PROCESS_OUTPUT_LIMIT", "OML_INTERNAL"}

Outcomes == {Resolved} \cup Rejections

(* The outcomes of a call that ends now.  The output limit and a child     *)
(* that does not start end it at once, whether or not it was cancelled.    *)
MayReturn(outcome, aborted) ==
  CASE outcome \in {Resolved, "OML_PROCESS_TIMEOUT"} -> ~aborted
    [] outcome = "OML_CANCELLED" -> aborted
    [] OTHER -> outcome \in Outcomes

VARIABLES call, aborted

callVars == <<call, aborted>>

Init == call = Waiting /\ aborted \in BOOLEAN

Abort == aborted' = TRUE /\ UNCHANGED call

Return(outcome) ==
  /\ call = Waiting
  /\ MayReturn(outcome, aborted)
  /\ call' = outcome
  /\ UNCHANGED aborted

Next == Abort \/ \E outcome \in Outcomes : Return(outcome)

Spec == Init /\ [][Next]_callVars
=============================================================================
