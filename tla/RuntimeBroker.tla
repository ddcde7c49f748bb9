---------------------------- MODULE RuntimeBroker ----------------------------
(***************************************************************************)
(* The control boundary of a run: class Broker in                          *)
(* src/src/runtime/broker.ts over applyProposedFiles of                    *)
(* src/src/environment.ts.  Several callers share one broker, as its API   *)
(* (every method async, one ledger per run) allows.                        *)
(*                                                                         *)
(* applyWrite decides, awaits the file system, and only then commits the   *)
(* ledger; exec commits the ledger before it awaits.  Each action is what  *)
(* runs between two awaits.                                                *)
(***************************************************************************)
EXTENDS Integers, FiniteSets

CONSTANTS
  Callers,
  Paths,            \* target paths a write may name
  Contained,        \* those that resolve inside workspace_root
  Writable,         \* those within policy.write_paths (all, if it is empty)
  Linked,           \* those that are, or lie under, a symbolic link
  Sizes,            \* byte lengths of the contents written
  MaxFiles,         \* limits.max_generated_files
  MaxWriteBytes,    \* limits.max_write_bytes
  MaxCommands,      \* limits.max_command_count
  MaxRetries        \* limits.max_retries

ASSUME CallersAssumption == IsFiniteSet(Callers) /\ Callers # {}
ASSUME PathsAssumption ==
  /\ Contained \subseteq Paths
  /\ Writable \subseteq Paths
  /\ Linked \subseteq Paths
ASSUME SizesAssumption == Sizes \subseteq Nat
ASSUME BrokerLimitsAssumption ==
  /\ MaxFiles \in Nat
  /\ MaxWriteBytes \in Nat
  /\ MaxCommands \in Nat
  /\ MaxRetries \in Nat

VARIABLES
  ledger,      \* #ledger
  op,          \* the call each caller is inside of
  landed,      \* history: writes whose bytes reached the disk
  disk,        \* paths the broker has created or overwritten
  spawned      \* history: processes started

brokerVars == <<ledger, op, landed, disk, spawned>>

Ledgers == [commands_used : Nat, retries_used : Nat,
           files_generated : Nat, write_bytes_used : Nat]

(* pc: "writing" inside applyProposedFiles, "written" when it has resolved *)
(* and applyWrite has not resumed, "running" inside runProcess.            *)
Operations == [pc : {"idle", "writing", "written", "running"},
               path : Paths \cup {"none"}, bytes : Nat]

Idle == [pc |-> "idle", path |-> "none", bytes |-> 0]

BrokerInit ==
  /\ ledger = [commands_used |-> 0, retries_used |-> 0,
               files_generated |-> 0, write_bytes_used |-> 0]
  /\ op = [c \in Callers |-> Idle]
  /\ landed = 0
  /\ disk = {}
  /\ spawned = 0

-----------------------------------------------------------------------------
(* Admissibility: #decideWrite and #decideExec.                            *)

(* Seeded faults: an off-by-one in the file budget, no byte budget.        *)
AdmitsOneFileMore(p, n) ==
  /\ p \in Contained
  /\ p \in Writable
  /\ ledger.files_generated <= MaxFiles
  /\ ledger.write_bytes_used + n <= MaxWriteBytes

AdmitsAnySize(p, n) ==
  /\ p \in Contained
  /\ p \in Writable
  /\ ledger.files_generated + 1 <= MaxFiles

AdmitsWrite(p, n) ==
  /\ p \in Contained
  /\ p \in Writable
  /\ ledger.files_generated + 1 <= MaxFiles
  /\ ledger.write_bytes_used + n <= MaxWriteBytes

(* permitted: the executable, its arguments and the requested environment  *)
(* are within the policy.                                                  *)
AdmitsExec(permitted) ==
  /\ permitted
  /\ ledger.commands_used + 1 <= MaxCommands

-----------------------------------------------------------------------------
(* A refused request throws before it changes anything, so it is a         *)
(* stuttering step and has no action.                                      *)

BeginWrite(c, p, n) ==
  /\ op[c].pc = "idle"
  /\ AdmitsWrite(p, n)
  /\ op' = [op EXCEPT ![c] = [pc |-> "writing", path |-> p, bytes |-> n]]
  /\ UNCHANGED <<ledger, landed, disk, spawned>>

(* writeFile of applyProposedFiles, past the symbolic-link checks.         *)
LandFile(c) ==
  /\ op[c].pc = "writing"
  /\ op[c].path \notin Linked
  /\ op' = [op EXCEPT ![c].pc = "written"]
  /\ landed' = landed + 1
  /\ disk' = disk \cup {op[c].path}
  /\ UNCHANGED <<ledger, spawned>>

(* Seeded fault of FailWrite: the ledger is charged for the failure.       *)
FailWriteCharges(c) ==
  /\ op[c].pc = "writing"
  /\ op' = [op EXCEPT ![c] = Idle]
  /\ ledger' = [ledger EXCEPT !.files_generated = @ + 1]
  /\ UNCHANGED <<disk, landed, spawned>>

(* applyProposedFiles rejects: a link in the way, or an I/O error, which   *)
(* may leave the target truncated.  The ledger is not charged.             *)
FailWrite(c) ==
  /\ op[c].pc = "writing"
  /\ op' = [op EXCEPT ![c] = Idle]
  /\ \/ UNCHANGED disk
     \/ op[c].path \notin Linked /\ disk' = disk \cup {op[c].path}
  /\ UNCHANGED <<ledger, landed, spawned>>

CommitWrite(c) ==
  /\ op[c].pc = "written"
  /\ ledger' = [ledger EXCEPT !.files_generated = @ + 1,
                              !.write_bytes_used = @ + op[c].bytes]
  /\ op' = [op EXCEPT ![c] = Idle]
  /\ UNCHANGED <<landed, disk, spawned>>

(* Seeded fault: exec leaves the charge to its return.                     *)
ExecUncharged(c, permitted, cwdInside) ==
  /\ op[c].pc = "idle"
  /\ AdmitsExec(permitted)
  /\ cwdInside
  /\ op' = [op EXCEPT ![c].pc = "running"]
  /\ spawned' = spawned + 1
  /\ UNCHANGED <<ledger, landed, disk>>

(* cwdInside: the working directory check sits between the decision and    *)
(* the charge.                                                             *)
Exec(c, permitted, cwdInside) ==
  /\ op[c].pc = "idle"
  /\ AdmitsExec(permitted)
  /\ cwdInside
  /\ ledger' = [ledger EXCEPT !.commands_used = @ + 1]
  /\ op' = [op EXCEPT ![c].pc = "running"]
  /\ spawned' = spawned + 1
  /\ UNCHANGED <<landed, disk>>

(* runProcess settles, either way: a failed command stays charged.         *)
ExecReturns(c) ==
  /\ op[c].pc = "running"
  /\ op' = [op EXCEPT ![c] = Idle]
  /\ UNCHANGED <<ledger, landed, disk, spawned>>

ChargeRetry ==
  /\ ledger.retries_used + 1 <= MaxRetries
  /\ ledger' = [ledger EXCEPT !.retries_used = @ + 1]
  /\ UNCHANGED <<op, landed, disk, spawned>>

BrokerNext ==
  \/ \E c \in Callers :
       \/ \E p \in Paths, n \in Sizes : BeginWrite(c, p, n)
       \/ LandFile(c)
       \/ FailWrite(c)
       \/ CommitWrite(c)
       \/ \E permitted, cwdInside \in BOOLEAN : Exec(c, permitted, cwdInside)
       \/ ExecReturns(c)
  \/ ChargeRetry

BrokerSpec == BrokerInit /\ [][BrokerNext]_brokerVars

-----------------------------------------------------------------------------
BrokerTypeOK ==
  /\ ledger \in Ledgers
  /\ op \in [Callers -> Operations]
  /\ \A c \in Callers : op[c].pc \in {"writing", "written"} => op[c].path \in Paths
  /\ landed \in Nat
  /\ disk \subseteq Paths
  /\ spawned \in Nat

Writing == {c \in Callers : op[c].pc \in {"writing", "written"}}

(* Bytes of the writes admitted and not yet in the ledger, counted as      *)
(* pairs <<caller, i-th byte>>.                                            *)
PendingBytes ==
  {u \in Callers \X (1..MaxWriteBytes) :
     u[1] \in Writing /\ u[2] <= op[u[1]].bytes}

(* The command budget is exact however exec calls interleave, because exec *)
(* charges before its await (broker.ts:197).                               *)
CommandBudgetExact ==
  /\ ledger.commands_used = spawned
  /\ spawned <= MaxCommands

(* The file budget is decided before an await and charged after it         *)
(* (broker.ts:174-182), so it can be passed, but by no more than one file  *)
(* for each other caller.                                                  *)
FileOvershootBounded ==
  ledger.files_generated + Cardinality(Writing)
    <= MaxFiles + Cardinality(Callers) - 1

(* The same of the byte budget: at most one full budget per other caller.  *)
ByteOvershootBounded ==
  ledger.write_bytes_used + Cardinality(PendingBytes)
    <= Cardinality(Callers) * MaxWriteBytes

(* No budget of the broker is passed by more than its awaits allow, however*)
(* the calls of several callers interleave.                                *)
BudgetsHold == CommandBudgetExact /\ FileOvershootBounded /\ ByteOvershootBounded

(* The ledger counts the writes that reached the disk: what it has not     *)
(* counted yet is exactly what has landed and is about to be committed, so *)
(* an error between decision and write neither charges nor forgets.        *)
LedgerCountsLanded ==
  ledger.files_generated + Cardinality({c \in Callers : op[c].pc = "written"}) = landed

=============================================================================
