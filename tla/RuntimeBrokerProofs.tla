------------------------- MODULE RuntimeBrokerProofs --------------------------
(***************************************************************************)
(* Theorems about RuntimeBroker, for every number of callers and every     *)
(* policy, and about ProcessRun, for every output limit, chunk sizes and   *)
(* exit codes.  The broker's overshoot bounds are inductive with the types *)
(* alone: a write is admitted only while the ledger is below its limit,    *)
(* and from then on a commit moves it from the pending side of the sum to  *)
(* the charged one.                                                        *)
(***************************************************************************)
EXTENDS RuntimeBroker, ProcessRun, FiniteSetTheorems, TLAPS

(* Sums are cardinalities: an amount n held by c is the set of its units   *)
(* <<c, 1>>, ..., <<c, n>>.                                                *)
UnitsOf(c, n) == {c} \X (1..n)

LEMMA UnitsOfCount ==
  ASSUME NEW c, NEW n \in Nat
  PROVE  IsFiniteSet(UnitsOf(c, n)) /\ Cardinality(UnitsOf(c, n)) = n
<1>1. IsFiniteSet({c}) /\ Cardinality({c}) = 1
  BY FS_Singleton
<1>2. IsFiniteSet(1..n) /\ Cardinality(1..n) = n
  BY FS_Interval
<1>3. IsFiniteSet({c} \X (1..n)) /\ Cardinality({c} \X (1..n)) = 1 * n
  BY <1>1, <1>2, FS_Product
<1> QED
  BY <1>3 DEF UnitsOf

LEMMA InitTypeOK == BrokerInit => BrokerTypeOK
<1> QED
  BY DEF BrokerInit, BrokerTypeOK, Ledgers, Operations, Idle

LEMMA NextTypeOK == BrokerTypeOK /\ [BrokerNext]_brokerVars => BrokerTypeOK'
<1> SUFFICES ASSUME BrokerTypeOK, [BrokerNext]_brokerVars PROVE BrokerTypeOK'
  OBVIOUS
<1>0. Idle \in Operations /\ Idle.pc = "idle"
  BY DEF Idle, Operations
<1>1. ASSUME NEW c \in Callers, NEW p \in Paths, NEW n \in Sizes, BeginWrite(c, p, n)
      PROVE  BrokerTypeOK'
  BY <1>1, SizesAssumption DEF BeginWrite, Operations, BrokerTypeOK
<1>2. ASSUME NEW c \in Callers, LandFile(c)
      PROVE  BrokerTypeOK'
  <2>1. /\ [op[c] EXCEPT !.pc = "written"] \in Operations
        /\ [op[c] EXCEPT !.pc = "written"].path \in Paths
        /\ op[c].path \in Paths
    BY <1>2 DEF LandFile, Operations, BrokerTypeOK
  <2> QED
    BY <1>2, <2>1 DEF LandFile, BrokerTypeOK
<1>3. ASSUME NEW c \in Callers, FailWrite(c)
      PROVE  BrokerTypeOK'
  <2>1. op[c].path \in Paths
    BY <1>3 DEF FailWrite, BrokerTypeOK
  <2> QED
    BY <1>0, <1>3, <2>1 DEF FailWrite, BrokerTypeOK
<1>4. ASSUME NEW c \in Callers, CommitWrite(c)
      PROVE  BrokerTypeOK'
  <2>0. op[c].bytes \in Nat
    BY DEF Operations, BrokerTypeOK
  <2>1. ledger' = [ledger EXCEPT !.files_generated = ledger.files_generated + 1,
                             !.write_bytes_used = ledger.write_bytes_used + op[c].bytes]
    BY <1>4 DEF CommitWrite
  <2>2. /\ ledger.files_generated + 1 \in Nat
        /\ ledger.write_bytes_used + op[c].bytes \in Nat
    BY <2>0 DEF Ledgers, BrokerTypeOK
  <2>3. ledger' \in Ledgers
    BY <2>1, <2>2 DEF Ledgers, BrokerTypeOK
  <2> QED
    BY <1>0, <1>4, <2>3 DEF CommitWrite, BrokerTypeOK
<1>5. ASSUME NEW c \in Callers, NEW permitted \in BOOLEAN, NEW cwdInside \in BOOLEAN,
             Exec(c, permitted, cwdInside)
      PROVE  BrokerTypeOK'
  <2>1. ledger' \in Ledgers
    BY <1>5 DEF Exec, Ledgers, BrokerTypeOK
  <2>2. /\ [op[c] EXCEPT !.pc = "running"] \in Operations
        /\ [op[c] EXCEPT !.pc = "running"].pc = "running"
    BY DEF Operations, BrokerTypeOK
  <2> QED
    BY <1>5, <2>1, <2>2 DEF Exec, BrokerTypeOK
<1>6. ASSUME NEW c \in Callers, ExecReturns(c)
      PROVE  BrokerTypeOK'
  BY <1>0, <1>6 DEF ExecReturns, BrokerTypeOK
<1>7. CASE ChargeRetry
  BY <1>7 DEF ChargeRetry, Ledgers, BrokerTypeOK
<1>8. CASE UNCHANGED brokerVars
  BY <1>8 DEF brokerVars, BrokerTypeOK
<1> QED
  BY <1>1, <1>2, <1>3, <1>4, <1>5, <1>6, <1>7, <1>8 DEF BrokerNext

(* The types hold of every behaviour of the broker.                        *)
THEOREM TypeCorrect == BrokerSpec => []BrokerTypeOK
<1> QED
  BY InitTypeOK, NextTypeOK, PTL DEF BrokerSpec

-----------------------------------------------------------------------------
(* max_command_count bounds the processes ever started, for any number of  *)
(* concurrent exec calls.                                                  *)
THEOREM CommandsNeverExceedBudget == BrokerSpec => []CommandBudgetExact
<1>1. BrokerInit => CommandBudgetExact
  BY BrokerLimitsAssumption DEF BrokerInit, CommandBudgetExact
<1>2. BrokerTypeOK /\ CommandBudgetExact /\ [BrokerNext]_brokerVars => CommandBudgetExact'
  <2> SUFFICES ASSUME BrokerTypeOK, CommandBudgetExact, [BrokerNext]_brokerVars
               PROVE  CommandBudgetExact'
    OBVIOUS
  <2> USE BrokerLimitsAssumption DEF BrokerTypeOK, CommandBudgetExact, Ledgers
  <2>1. ASSUME NEW c \in Callers, NEW permitted \in BOOLEAN, NEW cwdInside \in BOOLEAN,
               Exec(c, permitted, cwdInside)
        PROVE  CommandBudgetExact'
    BY <2>1 DEF Exec, AdmitsExec
  <2>2. ASSUME NEW c \in Callers, CommitWrite(c)
        PROVE  CommandBudgetExact'
    BY <2>2 DEF CommitWrite
  <2>3. CASE ChargeRetry
    BY <2>3 DEF ChargeRetry
  <2>4. ASSUME UNCHANGED <<ledger, spawned>>
        PROVE  CommandBudgetExact'
    BY <2>4
  <2> QED
    BY <2>1, <2>2, <2>3, <2>4
    DEF BrokerNext, brokerVars, BeginWrite, LandFile, FailWrite, ExecReturns
<1> QED
  BY <1>1, <1>2, TypeCorrect, PTL DEF BrokerSpec

-----------------------------------------------------------------------------
(* How the set of callers inside a write changes.                          *)

LEMMA CallersCount ==
  ASSUME NEW S \in SUBSET Callers
  PROVE  /\ IsFiniteSet(S)
         /\ Cardinality(S) \in Nat
         /\ Cardinality(S) <= Cardinality(Callers)
         /\ Cardinality(Callers) \in Nat \ {0}
<1>1. Cardinality(Callers) \in Nat /\ Cardinality(Callers) # 0
  BY CallersAssumption, FS_CardinalityType, FS_EmptySet
<1> QED
  BY <1>1, CallersAssumption, FS_Subset, FS_CardinalityType

(* A caller that leaves the write path is one writer fewer.                *)
LEMMA WriterLeaves ==
  ASSUME BrokerTypeOK, NEW c \in Writing, op' = [op EXCEPT ![c] = Idle]
  PROVE  /\ Writing' = Writing \ {c}
         /\ Cardinality(Writing') = Cardinality(Writing) - 1
<1>1. Writing' = Writing \ {c}
  BY DEF BrokerTypeOK, Writing, Idle
<1>2. IsFiniteSet(Writing)
  BY CallersCount DEF Writing
<1> QED
  BY <1>1, <1>2, FS_RemoveElement

(* Steps that keep everybody on the side of the write path they are on.    *)
LEMMA WritersKept ==
  ASSUME BrokerTypeOK, NEW c \in Callers,
         \/ LandFile(c)
         \/ ExecReturns(c)
         \/ \E permitted, cwdInside \in BOOLEAN : Exec(c, permitted, cwdInside)
  PROVE  Writing' = Writing
<1>1. CASE LandFile(c)
  BY <1>1 DEF LandFile, BrokerTypeOK, Operations, Writing
<1>2. CASE ExecReturns(c)
  BY <1>2 DEF ExecReturns, BrokerTypeOK, Operations, Writing, Idle
<1>3. CASE \E permitted, cwdInside \in BOOLEAN : Exec(c, permitted, cwdInside)
  BY <1>3 DEF Exec, BrokerTypeOK, Operations, Writing
<1> QED
  BY <1>1, <1>2, <1>3

LEMMA NextFiles == BrokerTypeOK /\ FileOvershootBounded /\ [BrokerNext]_brokerVars => FileOvershootBounded'
<1> SUFFICES ASSUME BrokerTypeOK, FileOvershootBounded, [BrokerNext]_brokerVars
             PROVE  FileOvershootBounded'
  OBVIOUS
<1> USE BrokerLimitsAssumption
<1>0. /\ Cardinality(Writing) \in Nat /\ Cardinality(Writing') \in Nat
      /\ Cardinality(Writing') <= Cardinality(Callers)
      /\ Cardinality(Callers) \in Nat
      /\ ledger.files_generated \in Nat
  BY CallersCount DEF Writing, BrokerTypeOK, Ledgers
<1>1. ASSUME NEW c \in Callers, NEW p \in Paths, NEW n \in Sizes, BeginWrite(c, p, n)
      PROVE  FileOvershootBounded'
  BY <1>0, <1>1 DEF BeginWrite, AdmitsWrite, FileOvershootBounded
<1>2. ASSUME NEW c \in Callers, FailWrite(c)
      PROVE  FileOvershootBounded'
  <2>1. c \in Writing
    BY <1>2 DEF FailWrite, Writing
  <2>2. Cardinality(Writing') = Cardinality(Writing) - 1
    BY <1>2, <2>1, WriterLeaves DEF FailWrite
  <2> QED
    BY <1>0, <1>2, <2>2 DEF FailWrite, FileOvershootBounded
<1>3. ASSUME NEW c \in Callers, CommitWrite(c)
      PROVE  FileOvershootBounded'
  <2>1. c \in Writing
    BY <1>3 DEF CommitWrite, Writing
  <2>2. Cardinality(Writing') = Cardinality(Writing) - 1
    BY <1>3, <2>1, WriterLeaves DEF CommitWrite
  <2>3. ledger'.files_generated = ledger.files_generated + 1
    BY <1>3 DEF CommitWrite, BrokerTypeOK, Ledgers
  <2> QED
    BY <1>0, <2>2, <2>3 DEF FileOvershootBounded
<1>4. ASSUME NEW c \in Callers,
             \/ LandFile(c)
             \/ ExecReturns(c)
             \/ \E permitted, cwdInside \in BOOLEAN : Exec(c, permitted, cwdInside)
      PROVE  FileOvershootBounded'
  <2>1. Writing' = Writing
    BY <1>4, WritersKept
  <2>2. ledger'.files_generated = ledger.files_generated
    BY <1>4 DEF LandFile, ExecReturns, Exec, BrokerTypeOK, Ledgers
  <2> QED
    BY <2>1, <2>2 DEF FileOvershootBounded
<1>5. CASE ChargeRetry
  BY <1>5 DEF ChargeRetry, BrokerTypeOK, Ledgers, FileOvershootBounded, Writing
<1>6. CASE UNCHANGED brokerVars
  BY <1>6 DEF brokerVars, FileOvershootBounded, Writing
<1> QED
  BY <1>1, <1>2, <1>3, <1>4, <1>5, <1>6 DEF BrokerNext

(* With k concurrent callers, max_generated_files is passed by at most     *)
(* k - 1 files; with one caller it is a cap.                               *)
THEOREM FileOvershoot == BrokerSpec => []FileOvershootBounded
<1>1. BrokerInit => FileOvershootBounded
  <2> SUFFICES ASSUME BrokerInit PROVE FileOvershootBounded
    OBVIOUS
  <2>1. Writing = {}
    BY DEF BrokerInit, Writing, Idle
  <2>2. Cardinality(Writing) = 0
    BY <2>1, FS_EmptySet
  <2>3. Cardinality(Callers) \in Nat \ {0}
    BY CallersCount
  <2> QED
    BY <2>2, <2>3, BrokerLimitsAssumption DEF BrokerInit, FileOvershootBounded
<1> QED
  BY <1>1, NextFiles, TypeCorrect, PTL DEF BrokerSpec

-----------------------------------------------------------------------------
(* The same argument for bytes, with each admitted write's size as units.  *)

PendingInv ==
  /\ BrokerTypeOK
  /\ \A c \in Writing : op[c].bytes <= MaxWriteBytes
  /\ ByteOvershootBounded

LEMMA CallersUnits ==
  ASSUME NEW H, IsFiniteSet(H), NEW S \in SUBSET (H \X (1..MaxWriteBytes))
  PROVE  /\ IsFiniteSet(S) /\ Cardinality(S) \in Nat
         /\ Cardinality(S) <= Cardinality(H) * MaxWriteBytes
<1>1. IsFiniteSet(1..MaxWriteBytes) /\ Cardinality(1..MaxWriteBytes) = MaxWriteBytes
  BY BrokerLimitsAssumption, FS_Interval
<1>2. /\ IsFiniteSet(H \X (1..MaxWriteBytes))
      /\ Cardinality(H \X (1..MaxWriteBytes)) = Cardinality(H) * MaxWriteBytes
  BY <1>1, FS_Product
<1> QED
  BY <1>2, FS_Subset, FS_CardinalityType

LEMMA PendingFinite == IsFiniteSet(PendingBytes) /\ Cardinality(PendingBytes) \in Nat
<1>1. PendingBytes \in SUBSET (Callers \X (1..MaxWriteBytes))
  BY DEF PendingBytes
<1> QED
  BY <1>1, CallersUnits, CallersAssumption

(* A writer that leaves takes its bytes out of the pending sum.            *)
LEMMA PendingLeaves ==
  ASSUME PendingInv, NEW c \in Writing, op' = [op EXCEPT ![c] = Idle]
  PROVE  Cardinality(PendingBytes') = Cardinality(PendingBytes) - op[c].bytes
<1>1. op[c].bytes \in Nat /\ op[c].bytes <= MaxWriteBytes /\ c \in Callers
  BY DEF PendingInv, BrokerTypeOK, Operations, Writing
<1>2. Writing' = Writing \ {c}
  BY WriterLeaves DEF PendingInv
<1>3. \A d \in Writing' : op'[d] = op[d]
  BY <1>2 DEF PendingInv, BrokerTypeOK, Writing
<1>4. PendingBytes' = PendingBytes \ UnitsOf(c, op[c].bytes)
  BY <1>1, <1>2, <1>3 DEF PendingBytes, UnitsOf
<1>5. UnitsOf(c, op[c].bytes) \subseteq PendingBytes
  BY <1>1, BrokerLimitsAssumption DEF PendingBytes, UnitsOf
<1>6. PendingBytes \cap UnitsOf(c, op[c].bytes) = UnitsOf(c, op[c].bytes)
  BY <1>5
<1>7. Cardinality(PendingBytes \ UnitsOf(c, op[c].bytes))
        = Cardinality(PendingBytes) - Cardinality(PendingBytes \cap UnitsOf(c, op[c].bytes))
  BY PendingFinite, FS_Difference
<1> QED
  BY <1>1, <1>4, <1>6, <1>7, UnitsOfCount

(* Right after an admission the sum is below one budget for every caller:  *)
(* the admitted bytes fit in the ledger's own budget, and every other      *)
(* caller has at most one budget pending.                                  *)
LEMMA PendingJoins ==
  ASSUME PendingInv, NEW c \in Callers, NEW p \in Paths, NEW n \in Sizes,
         BeginWrite(c, p, n)
  PROVE  /\ ledger.write_bytes_used + Cardinality(PendingBytes')
              <= Cardinality(Callers) * MaxWriteBytes
         /\ \A d \in Writing' : op'[d].bytes <= MaxWriteBytes
<1>1. /\ n \in Nat /\ ledger.write_bytes_used \in Nat
      /\ ledger.write_bytes_used + n <= MaxWriteBytes
      /\ c \notin Writing
  BY SizesAssumption DEF BeginWrite, AdmitsWrite, PendingInv, BrokerTypeOK, Ledgers, Writing
<1>2. n <= MaxWriteBytes
  BY <1>1, BrokerLimitsAssumption
<1>3. /\ Writing' = Writing \cup {c} /\ op'[c].bytes = n
      /\ \A d \in Writing : op'[d] = op[d]
  BY <1>1 DEF BeginWrite, PendingInv, BrokerTypeOK, Writing
<1>4. PendingBytes' = PendingBytes \cup UnitsOf(c, n)
  BY <1>1, <1>2, <1>3, BrokerLimitsAssumption DEF PendingBytes, UnitsOf
<1>5. PendingBytes \in SUBSET ((Callers \ {c}) \X (1..MaxWriteBytes))
  BY <1>1 DEF PendingBytes, Writing
<1>6. PendingBytes \cap UnitsOf(c, n) = {}
  BY <1>5 DEF UnitsOf
<1>7. Cardinality(PendingBytes') = Cardinality(PendingBytes) + n
  <2>1. Cardinality(PendingBytes \cup UnitsOf(c, n))
          = Cardinality(PendingBytes) + Cardinality(UnitsOf(c, n))
              - Cardinality(PendingBytes \cap UnitsOf(c, n))
    BY <1>1, PendingFinite, UnitsOfCount, FS_Union
  <2>2. Cardinality(PendingBytes \cap UnitsOf(c, n)) = 0
    BY <1>6, FS_EmptySet
  <2> QED
    BY <1>1, <1>4, <2>1, <2>2, PendingFinite, UnitsOfCount
<1>8. IsFiniteSet(Callers \ {c}) /\ Cardinality(Callers \ {c}) = Cardinality(Callers) - 1
  BY CallersAssumption, FS_RemoveElement
<1>9. Cardinality(PendingBytes) <= (Cardinality(Callers) - 1) * MaxWriteBytes
  BY <1>5, <1>8, CallersUnits
<1>10. (Cardinality(Callers) - 1) * MaxWriteBytes + MaxWriteBytes
         = Cardinality(Callers) * MaxWriteBytes
  BY CallersCount, BrokerLimitsAssumption
<1>11. ledger.write_bytes_used + Cardinality(PendingBytes')
         <= (Cardinality(Callers) - 1) * MaxWriteBytes + MaxWriteBytes
  <2> DEFINE k == (Cardinality(Callers) - 1) * MaxWriteBytes
  <2>1. k \in Int
    BY CallersCount, BrokerLimitsAssumption
  <2>2. Cardinality(PendingBytes) <= k
    BY <1>9
  <2> HIDE DEF k
  <2>3. ledger.write_bytes_used + Cardinality(PendingBytes') <= k + MaxWriteBytes
    BY <1>1, <1>7, <2>1, <2>2, PendingFinite, BrokerLimitsAssumption
  <2> QED
    BY <2>3 DEF k
<1>12. \A d \in Writing' : op'[d].bytes <= MaxWriteBytes
  BY <1>2, <1>3 DEF PendingInv
<1> QED
  BY <1>10, <1>11, <1>12

LEMMA NextPending == PendingInv /\ [BrokerNext]_brokerVars => PendingInv'
<1> SUFFICES ASSUME PendingInv, [BrokerNext]_brokerVars PROVE PendingInv'
  OBVIOUS
<1>0. BrokerTypeOK /\ BrokerTypeOK'
  BY NextTypeOK DEF PendingInv
<1>1. ASSUME NEW c \in Callers, NEW p \in Paths, NEW n \in Sizes, BeginWrite(c, p, n)
      PROVE  PendingInv'
  <2>1. ledger' = ledger
    BY <1>1 DEF BeginWrite
  <2> QED
    BY <1>0, <1>1, <2>1, PendingJoins DEF PendingInv, ByteOvershootBounded
<1>2. ASSUME NEW c \in Writing, op' = [op EXCEPT ![c] = Idle],
             \/ ledger' = ledger
             \/ ledger'.write_bytes_used = ledger.write_bytes_used + op[c].bytes
      PROVE  PendingInv'
  <2>1. Cardinality(PendingBytes') = Cardinality(PendingBytes) - op[c].bytes
    BY <1>2, PendingLeaves
  <2>2. /\ op[c].bytes \in Nat /\ ledger.write_bytes_used \in Nat
        /\ Cardinality(Callers) * MaxWriteBytes \in Nat
    BY <1>0, CallersCount, BrokerLimitsAssumption DEF BrokerTypeOK, Operations, Ledgers, Writing
  <2>3. ByteOvershootBounded'
    BY <1>2, <2>1, <2>2, PendingFinite DEF PendingInv, ByteOvershootBounded
  <2>4. \A d \in Writing' : op'[d].bytes <= MaxWriteBytes
    BY <1>0, <1>2, WriterLeaves DEF PendingInv, BrokerTypeOK, Writing
  <2> QED
    BY <1>0, <2>3, <2>4 DEF PendingInv
<1>3. ASSUME NEW c \in Callers, FailWrite(c) \/ CommitWrite(c)
      PROVE  PendingInv'
  <2>1. c \in Writing /\ op' = [op EXCEPT ![c] = Idle]
    BY <1>3 DEF FailWrite, CommitWrite, Writing
  <2>2. \/ ledger' = ledger
        \/ ledger'.write_bytes_used = ledger.write_bytes_used + op[c].bytes
    BY <1>0, <1>3 DEF FailWrite, CommitWrite, BrokerTypeOK, Ledgers
  <2> QED
    BY <1>2, <2>1, <2>2
<1>4. ASSUME Writing' = Writing, \A d \in Writing : op'[d].bytes = op[d].bytes,
             ledger'.write_bytes_used = ledger.write_bytes_used
      PROVE  PendingInv'
  <2>1. PendingBytes' = PendingBytes
    BY <1>4 DEF PendingBytes
  <2> QED
    BY <1>0, <1>4, <2>1 DEF PendingInv, ByteOvershootBounded
<1>5. ASSUME NEW c \in Callers,
             \/ LandFile(c)
             \/ ExecReturns(c)
             \/ \E permitted, cwdInside \in BOOLEAN : Exec(c, permitted, cwdInside)
      PROVE  PendingInv'
  <2>1. Writing' = Writing
    BY <1>0, <1>5, WritersKept
  <2>2. \A d \in Writing : op'[d].bytes = op[d].bytes
    BY <1>0, <1>5, <2>1 DEF LandFile, ExecReturns, Exec, BrokerTypeOK, Operations, Writing, Idle
  <2>3. ledger'.write_bytes_used = ledger.write_bytes_used
    BY <1>0, <1>5 DEF LandFile, ExecReturns, Exec, BrokerTypeOK, Ledgers
  <2> QED
    BY <1>4, <2>1, <2>2, <2>3
<1>6. CASE ChargeRetry \/ UNCHANGED brokerVars
  <2>1. Writing' = Writing /\ \A d \in Writing : op'[d].bytes = op[d].bytes
    BY <1>6 DEF ChargeRetry, brokerVars, Writing
  <2>2. ledger'.write_bytes_used = ledger.write_bytes_used
    BY <1>0, <1>6 DEF ChargeRetry, brokerVars, BrokerTypeOK, Ledgers
  <2> QED
    BY <1>4, <2>1, <2>2
<1> QED
  BY <1>1, <1>3, <1>5, <1>6 DEF BrokerNext

(* With k concurrent callers the byte budget is passed by at most k - 1    *)
(* further budgets; with one caller it is a cap.                           *)
THEOREM ByteOvershoot == BrokerSpec => []ByteOvershootBounded
<1>1. BrokerInit => PendingInv
  <2> SUFFICES ASSUME BrokerInit PROVE PendingInv
    OBVIOUS
  <2>1. Writing = {} /\ PendingBytes = {}
    BY DEF BrokerInit, Writing, PendingBytes, Idle
  <2>2. Cardinality(PendingBytes) = 0
    BY <2>1, FS_EmptySet
  <2>3. Cardinality(Callers) * MaxWriteBytes \in Nat
    BY CallersCount, BrokerLimitsAssumption
  <2> QED
    BY <2>1, <2>2, <2>3, InitTypeOK DEF BrokerInit, PendingInv, ByteOvershootBounded
<1>2. PendingInv => ByteOvershootBounded
  BY DEF PendingInv
<1> QED
  BY <1>1, <1>2, NextPending, PTL DEF BrokerSpec

(* All three budgets at once.                                              *)
THEOREM NoBudgetPassed == BrokerSpec => []BudgetsHold
<1>1. CommandBudgetExact /\ FileOvershootBounded /\ ByteOvershootBounded => BudgetsHold
  BY DEF BudgetsHold
<1> QED
  BY <1>1, CommandsNeverExceedBudget, FileOvershoot, ByteOvershoot, PTL

-----------------------------------------------------------------------------
(* The writes on disk that the ledger has not heard of.                    *)
Uncounted == {c \in Callers : op[c].pc = "written"}

(* A step that changes no caller into or out of "written".                 *)
LEMMA LandedStutter ==
  ASSUME BrokerTypeOK, LedgerCountsLanded, landed' = landed,
         ledger'.files_generated = ledger.files_generated,
         \A d \in Callers : (op[d].pc = "written")' <=> op[d].pc = "written"
  PROVE  LedgerCountsLanded'
<1>1. Uncounted' = Uncounted
  BY DEF Uncounted
<1> QED
  BY <1>1 DEF LedgerCountsLanded, Uncounted

LEMMA NextLanded == BrokerTypeOK /\ LedgerCountsLanded /\ [BrokerNext]_brokerVars => LedgerCountsLanded'
<1> SUFFICES ASSUME BrokerTypeOK, LedgerCountsLanded, [BrokerNext]_brokerVars
             PROVE  LedgerCountsLanded'
  OBVIOUS
<1>0. /\ IsFiniteSet(Uncounted) /\ Cardinality(Uncounted) \in Nat
      /\ ledger.files_generated \in Nat /\ landed \in Nat
      /\ ledger.files_generated + Cardinality(Uncounted) = landed
  BY CallersCount DEF Uncounted, BrokerTypeOK, Ledgers, LedgerCountsLanded
<1>1. ASSUME NEW c \in Callers, LandFile(c)
      PROVE  LedgerCountsLanded'
  <2>1. Uncounted' = Uncounted \cup {c} /\ c \notin Uncounted
    BY <1>1 DEF LandFile, BrokerTypeOK, Operations, Uncounted
  <2>2. Cardinality(Uncounted') = Cardinality(Uncounted) + 1
    BY <1>0, <2>1, FS_AddElement
  <2>3. ledger' = ledger /\ landed' = landed + 1
    BY <1>1 DEF LandFile
  <2>4. ledger'.files_generated + Cardinality(Uncounted') = landed'
    BY <1>0, <2>2, <2>3
  <2> QED
    BY <2>4 DEF LedgerCountsLanded, Uncounted
<1>2. ASSUME NEW c \in Callers, CommitWrite(c)
      PROVE  LedgerCountsLanded'
  <2>1. Uncounted' = Uncounted \ {c} /\ c \in Uncounted
    BY <1>2 DEF CommitWrite, BrokerTypeOK, Idle, Uncounted
  <2>2. Cardinality(Uncounted') = Cardinality(Uncounted) - 1
    BY <1>0, <2>1, FS_RemoveElement
  <2>3. ledger'.files_generated = ledger.files_generated + 1 /\ landed' = landed
    BY <1>2 DEF CommitWrite, BrokerTypeOK, Ledgers
  <2>4. ledger'.files_generated + Cardinality(Uncounted') = landed'
    BY <1>0, <2>2, <2>3
  <2> QED
    BY <2>4 DEF LedgerCountsLanded, Uncounted
<1>3. ASSUME NEW c \in Callers,
             \/ \E p \in Paths, n \in Sizes : BeginWrite(c, p, n)
             \/ FailWrite(c)
             \/ ExecReturns(c)
             \/ \E permitted, cwdInside \in BOOLEAN : Exec(c, permitted, cwdInside)
      PROVE  LedgerCountsLanded'
  <2>1. \A d \in Callers : (op[d].pc = "written")' <=> op[d].pc = "written"
    BY <1>3 DEF BeginWrite, FailWrite, ExecReturns, Exec, BrokerTypeOK, Operations, Idle
  <2>2. landed' = landed /\ ledger'.files_generated = ledger.files_generated
    BY <1>3 DEF BeginWrite, FailWrite, ExecReturns, Exec, BrokerTypeOK, Ledgers
  <2> QED
    BY <2>1, <2>2, LandedStutter
<1>4. CASE ChargeRetry \/ UNCHANGED brokerVars
  <2>1. op' = op /\ landed' = landed /\ ledger'.files_generated = ledger.files_generated
    BY <1>4 DEF ChargeRetry, brokerVars, BrokerTypeOK, Ledgers
  <2> QED
    BY <2>1, LandedStutter
<1> QED
  BY <1>1, <1>2, <1>3, <1>4 DEF BrokerNext

(* The ledger and the disk agree up to the writes whose callers have not   *)
(* resumed, for any number of callers and whatever fails.                  *)
THEOREM LedgerMatchesDisk == BrokerSpec => []LedgerCountsLanded
<1>1. BrokerInit => LedgerCountsLanded
  <2> SUFFICES ASSUME BrokerInit PROVE LedgerCountsLanded
    OBVIOUS
  <2>1. Uncounted = {}
    BY DEF BrokerInit, Uncounted, Idle
  <2>2. Cardinality(Uncounted) = 0
    BY <2>1, FS_EmptySet
  <2>3. ledger.files_generated = 0 /\ landed = 0
    BY DEF BrokerInit
  <2> QED
    BY <2>2, <2>3 DEF LedgerCountsLanded, Uncounted
<1> QED
  BY <1>1, NextLanded, TypeCorrect, PTL DEF BrokerSpec

-----------------------------------------------------------------------------
(* ProcessRun: the children the runtime starts.                            *)

(* Nothing is dropped before the limit is passed, and then the call ends.  *)
OutputWhole ==
  /\ call = "OML_PROCESS_OUTPUT_LIMIT" <=> bytes > MaxOutputBytes
  /\ call # "OML_PROCESS_OUTPUT_LIMIT" => kept = bytes

(* While the call is open, only the timer and an abort may have killed.    *)
KillsExplained ==
  /\ call = Waiting /\ killed => timer = "fired" \/ aborted
  /\ timer = "fired" => killed
  /\ call = "resolved" => ~killed

(* What is known of a call that "close" has settled.                       *)
ClosedCalls ==
  /\ call \in {"resolved", "OML_CANCELLED", "OML_PROCESS_TIMEOUT"} =>
       child = "closed" /\ ~listening
  /\ call = "resolved" => exitCode = childExit
  /\ call = "OML_CANCELLED" => aborted
  /\ call = "OML_PROCESS_TIMEOUT" => timer = "fired"

(* Where child and call are, relative to each other.                       *)
CallFollowsChild ==
  /\ child = "closed" => call # Waiting
  /\ child = "unstarted" => call = Waiting
  /\ call = "OML_INTERNAL" => child = "closed"

IInv ==
  /\ ProcessTypeOK
  /\ OutputWhole
  /\ KillsExplained
  /\ ClosedCalls
  /\ CallFollowsChild
  /\ NothingOutlivesCall

LEMMA WaitingIsNoOutcome == Waiting \notin Call!Outcomes
  BY WaitingAssumption DEF Call!Outcomes, Call!Resolved, Call!Rejections

LEMMA InitIInv == ProcessInit => IInv
<1> SUFFICES ASSUME ProcessInit PROVE IInv
  OBVIOUS
<1> USE WaitingAssumption, OutputAssumption DEF ProcessInit
<1>1. ProcessTypeOK
  <2>1. bytes \in Nat /\ kept \in 0..MaxOutputBytes
    OBVIOUS
  <2>2. /\ killed \in BOOLEAN /\ listening \in BOOLEAN /\ aborted \in BOOLEAN
        /\ call \in {Waiting} \cup Call!Outcomes
        /\ exitCode \in ExitCodes \cup {NullExit}
        /\ childExit \in ExitCodes \cup {NullExit}
    OBVIOUS
  <2> QED
    BY <2>1, <2>2 DEF ProcessTypeOK
<1>2. OutputWhole
  BY DEF OutputWhole
<1>3. KillsExplained /\ ClosedCalls /\ CallFollowsChild /\ NothingOutlivesCall
  BY DEF KillsExplained, ClosedCalls, CallFollowsChild, NothingOutlivesCall
<1> QED
  BY <1>1, <1>2, <1>3 DEF IInv

LEMMA DataIInv == ASSUME IInv, NEW n \in Chunks, Data(n) PROVE IInv'
<1> USE WaitingAssumption, OutputAssumption DEF Data, FinishError, IInv
<1>0. n \in Nat /\ bytes \in Nat /\ bytes' = bytes + n /\ bytes' \in Nat
  BY DEF ProcessTypeOK
<1>k. kept' \in 0..MaxOutputBytes
  <2>1. CASE bytes + n > MaxOutputBytes
    BY <2>1 DEF ProcessTypeOK
  <2>2. CASE ~(bytes + n > MaxOutputBytes)
    <3>1. bytes + n <= MaxOutputBytes /\ bytes <= MaxOutputBytes
      BY <2>2, <1>0
    <3>2. kept = bytes
      BY <3>1, <1>0 DEF OutputWhole
    <3> QED
      BY <2>2, <3>1, <3>2, <1>0
  <2> QED
    BY <2>1, <2>2
<1>1. ProcessTypeOK'
  BY <1>0, <1>k DEF ProcessTypeOK, Call!Outcomes, Call!Rejections
<1>2. OutputWhole'
  BY DEF ProcessTypeOK, OutputWhole, ClosedCalls, CallFollowsChild, Call!Outcomes,
         Call!Rejections, Call!Resolved
<1>3. KillsExplained'
  BY DEF KillsExplained, ClosedCalls, ProcessTypeOK
<1>4. ClosedCalls'
  BY DEF ClosedCalls
<1>5. CallFollowsChild'
  BY DEF CallFollowsChild
<1>6. NothingOutlivesCall'
  BY DEF NothingOutlivesCall
<1> QED
  BY <1>1, <1>2, <1>3, <1>4, <1>5, <1>6

(* Every other step leaves the output alone.                               *)
LEMMA QuietIInv ==
  ASSUME IInv,
         SpawnError \/ Timeout \/ Abort \/ Close \/ Exits \/ KillLands
           \/ Forks \/ DescendantEnds
  PROVE  IInv'
<1> USE WaitingAssumption DEF IInv
<1>1. CASE SpawnError
  BY <1>1 DEF SpawnError, FinishError, ProcessTypeOK, OutputWhole, KillsExplained, ClosedCalls,
              CallFollowsChild, NothingOutlivesCall, Call!Outcomes, Call!Rejections
<1>2. CASE Timeout
  BY <1>2 DEF Timeout, ProcessTypeOK, OutputWhole, KillsExplained, ClosedCalls,
              CallFollowsChild, NothingOutlivesCall
<1>3. CASE Abort
  BY <1>3 DEF Abort, ProcessTypeOK, OutputWhole, KillsExplained, ClosedCalls,
              CallFollowsChild, NothingOutlivesCall
<1>4. CASE Close
  BY <1>4 DEF Close, ProcessTypeOK, OutputWhole, KillsExplained, ClosedCalls,
              CallFollowsChild, NothingOutlivesCall, Call!Outcomes, Call!Rejections,
              Call!Resolved
<1>5. CASE Exits \/ KillLands
  BY <1>5 DEF Exits, KillLands, Dies, ProcessTypeOK, OutputWhole, KillsExplained, ClosedCalls,
              CallFollowsChild, NothingOutlivesCall
<1>6. CASE Forks \/ DescendantEnds
  BY <1>6 DEF Forks, DescendantEnds, DescendantChanges, ProcessTypeOK, OutputWhole,
              KillsExplained, ClosedCalls, CallFollowsChild, NothingOutlivesCall
<1> QED
  BY <1>1, <1>2, <1>3, <1>4, <1>5, <1>6

LEMMA NextIInv == IInv /\ [ProcessNext]_processVars => IInv'
<1>1. IInv /\ UNCHANGED processVars => IInv'
  BY DEF IInv, processVars, ProcessTypeOK, OutputWhole, KillsExplained, ClosedCalls, CallFollowsChild,
         NothingOutlivesCall
<1> QED
  BY <1>1, DataIInv, QuietIInv DEF ProcessNext

LEMMA AlwaysIInv == ProcessSpec => []IInv
  BY InitIInv, NextIInv, PTL DEF ProcessSpec

(* ProcessRun's variables keep their types, the output kept its limit.     *)
THEOREM ProcessTypeCorrect == ProcessSpec => []ProcessTypeOK
<1>1. IInv => ProcessTypeOK
  BY DEF IInv
<1> QED
  BY <1>1, AlwaysIInv, PTL

(* A result is the child's own and whole (process.ts:71-84).               *)
THEOREM ResultsUndisturbed == ProcessSpec => []ResolvedIsUndisturbed
<1>1. IInv => ResolvedIsUndisturbed
  BY DEF IInv, ResolvedIsUndisturbed, KillsExplained, OutputWhole, ClosedCalls
<1> QED
  BY <1>1, AlwaysIInv, PTL

(* A settled call leaves no armed timer and no child that is not killed    *)
(* (process.ts:41-47).                                                     *)
THEOREM SettledLeavesNothing == ProcessSpec => []NothingOutlivesCall
<1>1. IInv => NothingOutlivesCall
  BY DEF IInv
<1> QED
  BY <1>1, AlwaysIInv, PTL

(* A rejection tells the truth (process.ts:70-84).                         *)
THEOREM RejectionsTrue == ProcessSpec => []RejectionIsTrue
<1>1. IInv => RejectionIsTrue
  BY DEF IInv, RejectionIsTrue, KillsExplained, OutputWhole, ClosedCalls, ProcessTypeOK,
         Call!Outcomes, Call!Rejections, Call!Resolved
<1> QED
  BY <1>1, AlwaysIInv, PTL

(* All three at once.                                                      *)
THEOREM SettledClean == ProcessSpec => []SettledIsClean
<1>1. ResolvedIsUndisturbed /\ NothingOutlivesCall /\ RejectionIsTrue => SettledIsClean
  BY DEF SettledIsClean
<1> QED
  BY <1>1, ResultsUndisturbed, SettledLeavesNothing, RejectionsTrue, PTL

-----------------------------------------------------------------------------
(* The refinement is the identity on call and aborted; every step settles  *)
(* the call, aborts the signal, or does neither.                           *)
LEMMA NextRefines == IInv /\ [ProcessNext]_processVars => [Call!Next]_(Call!callVars)
<1> SUFFICES ASSUME IInv, [ProcessNext]_processVars
             PROVE  [Call!Next]_(Call!callVars)
  OBVIOUS
<1> USE WaitingAssumption DEF Call!callVars, Call!Next, Call!Return, Call!MayReturn,
    Call!Outcomes, Call!Rejections, Call!Resolved
<1>1. ASSUME NEW n \in Chunks, Data(n)
      PROVE  [Call!Next]_(Call!callVars)
  BY <1>1 DEF Data, FinishError
<1>2. CASE SpawnError
  BY <1>2 DEF SpawnError, FinishError
<1>3. CASE Abort
  BY <1>3 DEF Abort, Call!Abort
<1>4. CASE Close
  BY <1>4 DEF Close, IInv, ProcessTypeOK
<1>5. CASE Timeout \/ Exits \/ KillLands \/ Forks \/ DescendantEnds
  BY <1>5 DEF Timeout, Exits, KillLands, Dies, Forks, DescendantEnds, DescendantChanges
<1>6. CASE UNCHANGED processVars
  BY <1>6 DEF processVars
<1> QED
  BY <1>1, <1>2, <1>3, <1>4, <1>5, <1>6 DEF ProcessNext

(* runProcess gives every call at most one outcome, and a cancelled call   *)
(* no result (process.ts:71-84).                                           *)
THEOREM ProcessRunIsCall == ProcessSpec => ImplementsCall
<1>1. ProcessInit => Call!Init
  BY DEF ProcessInit, Call!Init
<1> QED
  BY <1>1, NextRefines, AlwaysIInv, PTL DEF ProcessSpec, ImplementsCall, Call!Spec
=============================================================================
