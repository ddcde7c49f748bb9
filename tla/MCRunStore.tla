----------------------------- MODULE MCRunStore -----------------------------
(* A small instance of RunStore: one claim over one piece of evidence, and *)
(* outcomes of the kinds evaluateClaim tells apart: weak, strong, without  *)
(* an exit status, and contradictory.                                      *)
EXTENDS RunStore, TLC

Outcome(type, exit, timedOut) ==
  [evidence_type |-> type, exit_status |-> exit, timed_out |-> timedOut]

MCOutcomes ==
  {Outcome("configured_verifier_exit", 0, FALSE),
   Outcome("process_result", 0, FALSE),
   Outcome("typed_observation", NullExit, FALSE),
   Outcome("process_result", 0, TRUE)}

MCTree == [x \in Files |-> CHOOSE v \in Contents : TRUE]
MCOneClaim == "one" :> {"e1"}
=============================================================================
