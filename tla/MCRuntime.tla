------------------------------ MODULE MCRuntime ------------------------------
(***************************************************************************)
(* The runtime under an attempt, on small instances: the control broker,   *)
(* one child process, one state file, and the metered adapter.  They share *)
(* no state; part says which one moves.                                    *)
(***************************************************************************)
EXTENDS RuntimeBroker, ProcessRun, StateFile, OpenAiAdapter, TLC

CONSTANTS w1, w2, b1, b2

VARIABLE part

runtimeVars == <<part, brokerVars, processVars, stateFileVars, adapterVars>>

-----------------------------------------------------------------------------
(* The broker: one path of each kind the policy and the symbolic-link      *)
(* checks tell apart.                                                      *)
MCPaths == {"ok", "alias", "outside", "elsewhere"}
MCContained == {"ok", "alias", "elsewhere"}
MCWritable == {"ok", "alias", "outside"}
MCLinked == {"alias"}
MCSizes == {0, 2, 4}

(* The process: a limit of two, met exactly, passed by one and by a chunk. *)
MCChunks == {1, 2}
MCExitCodes == {0, 1}
MCNullExit == -1

(* The state file: writers with bodies of their own, as in a run that has  *)
(* one recorder.                                                           *)
MCWriters == {w1, w2}
MCBodies == {b1, b2}
MCOwnBodies == w1 :> {b1} @@ w2 :> {b2}

MCEstimates == {1, 2}

-----------------------------------------------------------------------------
(* The process at rest where its call waits on a descendant for good: the  *)
(* deadline has passed, the child is dead, the pipes are held.             *)
ProcessOff ==
  /\ call = Waiting /\ exitCode = NullExit /\ child = "dead" /\ childExit = NullExit
  /\ descendant = "holding" /\ killed = TRUE /\ bytes = 0 /\ kept = 0 /\ timer = "fired"
  /\ aborted = FALSE /\ listening = TRUE

MCInit ==
  /\ part \in {"broker", "process", "state_file", "adapter"}
  /\ BrokerInit /\ FileInit /\ AdapterInit
  /\ IF part = "process" THEN ProcessInit ELSE ProcessOff

MCNext ==
  /\ UNCHANGED part
  /\ \/ part = "broker" /\ BrokerNext /\ UNCHANGED <<processVars, stateFileVars, adapterVars>>
     \/ part = "process" /\ ProcessNext /\ UNCHANGED <<brokerVars, stateFileVars, adapterVars>>
     \/ part = "state_file" /\ FileNext /\ UNCHANGED <<brokerVars, processVars, adapterVars>>
     \/ part = "adapter" /\ AdapterNext /\ UNCHANGED <<brokerVars, processVars, stateFileVars>>

(* Where a part rests none of its fair actions is enabled, so the fairness *)
(* of the process and of the file asks nothing of the other parts.         *)
MCSpec == MCInit /\ [][MCNext]_runtimeVars /\ ProcessFairness /\ FileFairness
=============================================================================
