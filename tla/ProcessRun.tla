----------------------------- MODULE ProcessRun -----------------------------
(***************************************************************************)
(* One call of runProcess (src/src/process.ts): a child process, its two   *)
(* output pipes, the timeout, the abort listener and the four handlers     *)
(* that race to settle the promise.  The child may leave a descendant      *)
(* behind that keeps the pipes open; only the child itself is killed.      *)
(***************************************************************************)
EXTENDS Integers

CONSTANTS
  Waiting,          \* the promise is not settled
  MaxOutputBytes,
  Chunks,           \* sizes of the chunks a pipe may deliver
  MaxBytes,         \* bound on the output explored
  ExitCodes,
  NullExit          \* exitCode null: the child was killed

ASSUME OutputAssumption ==
  /\ MaxOutputBytes \in Nat
  /\ MaxBytes \in Nat
  /\ Chunks \subseteq Nat
ASSUME WaitingAssumption ==
  Waiting \notin {"resolved", "OML_CANCELLED", "OML_PROCESS_TIMEOUT",
                  "OML_PROCESS_OUTPUT_LIMIT", "OML_INTERNAL"}

VARIABLES
  call,        \* Waiting, or how the promise was settled
  exitCode,    \* of a resolved call
  child,       \* "running", "unstarted" (its error event is due), "dead", "closed"
  childExit,   \* how the child died
  descendant,  \* "none", or one that holds the pipes open or does not
  killed,      \* child.kill("SIGKILL") has been called
  bytes,       \* output counted
  kept,        \* output kept
  timer,       \* "armed", "fired", "cleared"
  aborted,     \* signal.aborted
  listening    \* onAbort is registered

processVars == <<call, exitCode, child, childExit, descendant, killed, bytes, kept,
                 timer, aborted, listening>>

ProcessInit ==
  /\ call = Waiting
  /\ exitCode = NullExit
  /\ child \in {"running", "unstarted"}
  /\ childExit = NullExit
  /\ descendant = "none"
  /\ killed = FALSE
  /\ bytes = 0 /\ kept = 0
  /\ timer = "armed"
  /\ aborted \in BOOLEAN      \* the signal may be aborted before the call
  /\ listening = TRUE

-----------------------------------------------------------------------------
(* Settling.                                                               *)

(* Seeded fault: the timer is left running.                                *)
FinishErrorKeepsTimer(code) ==
  IF call # Waiting THEN UNCHANGED <<call, timer, killed>>
  ELSE call' = code /\ killed' = TRUE /\ UNCHANGED timer

FinishError(code) ==
  IF call # Waiting THEN UNCHANGED <<call, timer, killed>>
  ELSE call' = code /\ timer' = "cleared" /\ killed' = TRUE

-----------------------------------------------------------------------------
(* The event loop's callbacks.                                             *)

(* Chunks keep coming until the pipes close, also after the call settled.  *)
Data(n) ==
  /\ child \in {"running", "dead"}
  /\ bytes + n <= MaxBytes
  /\ bytes' = bytes + n
  /\ IF bytes + n > MaxOutputBytes
       THEN FinishError("OML_PROCESS_OUTPUT_LIMIT") /\ UNCHANGED kept
       ELSE kept' = kept + n /\ UNCHANGED <<call, timer, killed>>
  /\ UNCHANGED <<exitCode, child, childExit, descendant, aborted, listening>>

SpawnError ==
  /\ child = "unstarted"
  /\ FinishError("OML_INTERNAL")
  /\ child' = "closed"
  /\ UNCHANGED <<exitCode, childExit, descendant, bytes, kept, aborted, listening>>

(* Seeded faults: the child is killed and the deadline is not noted; the   *)
(* deadline is noted and the child is not killed.                          *)
TimeoutUnnoted ==
  /\ timer = "armed" /\ child # "unstarted"
  /\ timer' = "cleared"
  /\ killed' = TRUE
  /\ UNCHANGED <<call, exitCode, child, childExit, descendant, bytes, kept,
                 aborted, listening>>

TimeoutSpares ==
  /\ timer = "armed" /\ child # "unstarted"
  /\ timer' = "fired"
  /\ UNCHANGED <<call, exitCode, child, childExit, descendant, killed, bytes, kept,
                 aborted, listening>>

(* timedOut is this timer having fired; an error event due comes first.    *)
Timeout ==
  /\ timer = "armed" /\ child # "unstarted"
  /\ timer' = "fired"
  /\ killed' = TRUE
  /\ UNCHANGED <<call, exitCode, child, childExit, descendant, bytes, kept,
                 aborted, listening>>

(* A signal that is aborted already does not call the listener.            *)
Abort ==
  /\ ~aborted
  /\ aborted' = TRUE
  /\ IF listening THEN killed' = TRUE /\ listening' = FALSE
                  ELSE UNCHANGED <<killed, listening>>
  /\ UNCHANGED <<call, exitCode, child, childExit, descendant, bytes, kept, timer>>

(* Seeded fault: the abort listener stays when the call has settled.       *)
ClosePreservesListener ==
  /\ child = "dead" /\ descendant # "holding"
  /\ child' = "closed"
  /\ IF call # Waiting
       THEN UNCHANGED <<call, exitCode, timer, listening>>
       ELSE /\ timer' = IF timer = "armed" THEN "cleared" ELSE timer
            /\ call' = IF aborted THEN "OML_CANCELLED"
                       ELSE IF timer = "fired" THEN "OML_PROCESS_TIMEOUT" ELSE "resolved"
            /\ exitCode' = IF call' = "resolved" THEN childExit ELSE NullExit
            /\ UNCHANGED listening
  /\ UNCHANGED <<childExit, descendant, killed, bytes, kept, aborted>>

(* Seeded fault: the timeout is asked for before the cancellation.         *)
CloseTimeoutFirst ==
  /\ child = "dead" /\ descendant # "holding"
  /\ child' = "closed"
  /\ IF call # Waiting
       THEN UNCHANGED <<call, exitCode, timer, listening>>
       ELSE /\ timer' = IF timer = "armed" THEN "cleared" ELSE timer
            /\ listening' = FALSE
            /\ call' = IF timer = "fired" THEN "OML_PROCESS_TIMEOUT"
                       ELSE IF aborted THEN "OML_CANCELLED" ELSE "resolved"
            /\ exitCode' = IF call' = "resolved" THEN childExit ELSE NullExit
  /\ UNCHANGED <<childExit, descendant, killed, bytes, kept, aborted>>

(* "close": the child is gone and nobody holds its pipes.                  *)
Close ==
  /\ child = "dead" /\ descendant # "holding"
  /\ child' = "closed"
  /\ IF call # Waiting
       THEN UNCHANGED <<call, exitCode, timer, listening>>
       ELSE /\ timer' = IF timer = "armed" THEN "cleared" ELSE timer
            /\ listening' = FALSE
            /\ call' = IF aborted THEN "OML_CANCELLED"
                       ELSE IF timer = "fired" THEN "OML_PROCESS_TIMEOUT" ELSE "resolved"
            /\ exitCode' = IF call' = "resolved" THEN childExit ELSE NullExit
  /\ UNCHANGED <<childExit, descendant, killed, bytes, kept, aborted>>

-----------------------------------------------------------------------------
(* The operating system.                                                   *)
Dies(status) ==
  /\ child = "running"
  /\ child' = "dead"
  /\ childExit' = status
  /\ UNCHANGED <<call, exitCode, descendant, killed, bytes, kept, timer, aborted,
                 listening>>

(* By itself, or by a signal somebody else sent.                           *)
Exits == \E status \in ExitCodes \cup {NullExit} : Dies(status)
KillLands == killed /\ Dies(NullExit)

DescendantChanges(before, after) ==
  /\ descendant \in before
  /\ descendant' \in after
  /\ UNCHANGED <<call, exitCode, child, childExit, killed, bytes, kept, timer,
                 aborted, listening>>

Forks == child = "running" /\ DescendantChanges({"none"}, {"holding", "detached"})
DescendantEnds == DescendantChanges({"holding", "detached"}, {"none"})

ProcessNext ==
  \/ \E n \in Chunks : Data(n)
  \/ SpawnError \/ Timeout \/ Abort \/ Close
  \/ Exits \/ KillLands
  \/ Forks \/ DescendantEnds

(* The event loop delivers errors, timers and "close", and SIGKILL kills;  *)
(* nobody promises that the child or a descendant ever ends by itself.     *)
ProcessFairness ==
  /\ WF_processVars(SpawnError)
  /\ WF_processVars(Timeout)
  /\ WF_processVars(KillLands)
  /\ WF_processVars(Close)

ProcessSpec == ProcessInit /\ [][ProcessNext]_processVars /\ ProcessFairness

-----------------------------------------------------------------------------
Call == INSTANCE ProcessCall

ProcessTypeOK ==
  /\ call \in {Waiting} \cup Call!Outcomes
  /\ exitCode \in ExitCodes \cup {NullExit}
  /\ child \in {"running", "unstarted", "dead", "closed"}
  /\ childExit \in ExitCodes \cup {NullExit}
  /\ descendant \in {"none", "holding", "detached"}
  /\ killed \in BOOLEAN
  /\ bytes \in Nat /\ kept \in 0..MaxOutputBytes
  /\ timer \in {"armed", "fired", "cleared"}
  /\ aborted \in BOOLEAN
  /\ listening \in BOOLEAN

(* A result is the child's own and whole: nothing here ever killed it, not *)
(* even between its exit and the close event, no output was dropped, and   *)
(* the exit code is the one it died with (process.ts:71-84).               *)
ResolvedIsUndisturbed ==
  call = "resolved" =>
    /\ ~killed
    /\ kept = bytes
    /\ child = "closed" /\ exitCode = childExit

(* A settled call leaves nothing that can still act for it: no timer is    *)
(* armed and the child is gone or has been killed (process.ts:41-47).      *)
NothingOutlivesCall ==
  call # Waiting => timer # "armed" /\ (killed \/ child \in {"dead", "closed"})

(* A rejection tells the truth: a timeout fired, a cancellation was asked  *)
(* for, a limit was passed; and a settled call never takes a kill from a   *)
(* later abort unless it was rejected by finishError, which does not       *)
(* remove the listener (process.ts:70-84).                                 *)
RejectionIsTrue ==
  /\ call = "OML_PROCESS_TIMEOUT" => timer = "fired" /\ killed
  /\ call = "OML_CANCELLED" => aborted
  /\ call = "OML_PROCESS_OUTPUT_LIMIT" <=> bytes > MaxOutputBytes
  /\ call \notin {Waiting, "OML_PROCESS_OUTPUT_LIMIT", "OML_INTERNAL"} => ~listening

(* However exit, deadline, output limit and abort race, a settled call is  *)
(* what it says and leaves nothing that can still act for it.              *)
SettledIsClean == ResolvedIsUndisturbed /\ NothingOutlivesCall /\ RejectionIsTrue

(* Every call returns, through the timeout if nothing else, as long as no  *)
(* descendant keeps the pipes of a dead child open (process.ts:61-64).     *)
CallReturns == call = Waiting ~> call # Waiting \/ descendant = "holding"

(* runProcess implements ProcessCall: one outcome, and a cancelled call    *)
(* yields no result, whatever races (process.ts:71-84).                    *)
ImplementsCall == Call!Spec
=============================================================================
