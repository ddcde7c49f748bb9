-------------------------- MODULE MeasurementProofs --------------------------
(***************************************************************************)
(* Theorems about what is measured: of a context and of the instrument     *)
(* that reads it, of an answer and of the work it left.                    *)
(*                                                                         *)
(* compileContext, for every input and budget: the fill never measures the *)
(* text it will emit, only estimates of its parts, so the invariant        *)
(* relates the two: four bytes for every token charged cover the header    *)
(* and what was rendered so far, with one token to spare.  No document is  *)
(* promoted past another, and each is accounted for once.                  *)
(*                                                                         *)
(* The acceptance gate, for any deliverables and limits and up to five     *)
(* sizes: the line is fitted to costs the gate measured well, so what is   *)
(* accepted is bounded because a line that fits leaves little room between *)
(* its slope and the rise of its ends, which the inequality of Cauchy and  *)
(* Schwarz makes exact.                                                    *)
(*                                                                         *)
(* The diff of a returned file, for files of any length and any cap: the   *)
(* rows of Myers' algorithm hold the furthest points of each edit          *)
(* distance, so the first to reach the ends has the length of a smallest   *)
(* script, and since every edit moves to a neighbouring diagonal, how many *)
(* remove and how many add follows from that length.                       *)
(*                                                                         *)
(* The long-context instrument, for any corpora swept, any sizes measured  *)
(* and any filler: a policy lays the ranks at places, and which places     *)
(* answer is the same under each, so a policy changes which ranks are      *)
(* recalled and not how many.  What a control recalls of a grid is some of *)
(* the sizes at some of the depths, which is counted as a product.         *)
(***************************************************************************)
EXTENDS ContextProbes, HeldoutDiff, AcceptanceGate, InductionLemmas

Covered ==
  /\ HeaderBytes + rendered + 4 <= 4 * used
  /\ included # <<>> => used <= available

ResultCovered == result.total_tokens <= available

IInv == TypeOK /\ Covered /\ ResultCovered

(* The estimate is of whole groups of four bytes, rounded up.              *)
LEMMA EstimateCovers ==
  ASSUME NEW bytes \in Nat
  PROVE  /\ EstimateTokens(bytes) \in Nat
         /\ bytes <= 4 * EstimateTokens(bytes)
         /\ 4 * EstimateTokens(bytes) <= bytes + 3
<1> QED
  BY DEF EstimateTokens

LEMMA InitIInv == Init => IInv
<1> SUFFICES ASSUME Init PROVE IInv
  OBVIOUS
<1>1. documents \in Seq(Documents)
  BY InputsAssumption DEF Init
<1>2. available \in Nat
  <2>1. PICK budget \in Budgets, reserve \in Reserves : available = NonNegative(budget - reserve)
    BY DEF Init
  <2>2. budget \in Nat /\ reserve \in Nat
    BY TokensAssumption
  <2> QED
    BY <2>1, <2>2 DEF NonNegative
<1>3. used = 12
  BY DEF Init, HeaderTokens, EstimateTokens, HeaderBytes
<1>4. TypeOK
  BY <1>1, <1>2, <1>3 DEF Init, TypeOK, NoCut
<1>5. Covered
  BY <1>3 DEF Init, Covered, HeaderBytes
<1>6. ResultCovered
  BY <1>2 DEF Init, ResultCovered
<1> QED
  BY <1>4, <1>5, <1>6 DEF IInv

LEMMA RankIInv == ASSUME IInv, Rank PROVE IInv'
<1>1. ranked' \in Seq(Documents)
  <2>1. PICK order \in [1..Len(documents) -> 1..Len(documents)] :
          ranked' = [r \in 1..Len(documents) |-> documents[order[r]]]
    BY DEF Rank
  <2>2. documents \in Seq(Documents) /\ Len(documents) \in Nat
    BY DEF IInv, TypeOK
  <2>3. \A r \in 1..Len(documents) : documents[order[r]] \in Documents
    BY <2>2
  <2> QED
    BY <2>1, <2>2, <2>3
<1>2. TypeOK'
  BY <1>1 DEF IInv, TypeOK, Rank
<1> QED
  BY <1>2 DEF IInv, Covered, ResultCovered, Rank

(* A document considered is one of the input, and its tokens a number.     *)
LEMMA ConsideredDoc ==
  ASSUME IInv, Considers
  PROVE  /\ Doc \in Documents
         /\ DocumentTokens(Doc) \in Nat
         /\ Doc.bytes + 4 <= 4 * DocumentTokens(Doc)
<1>1. ranked \in Seq(Documents) /\ next \in 1..Len(ranked)
  BY DEF IInv, TypeOK, Considers
<1>2. Doc \in Documents
  BY <1>1 DEF Doc
<1>3. Doc.bytes \in Nat
  BY <1>2 DEF Documents
<1>4. /\ EstimateTokens(Doc.bytes) \in Nat
      /\ Doc.bytes <= 4 * EstimateTokens(Doc.bytes)
  BY <1>3, EstimateCovers
<1> QED
  BY <1>2, <1>3, <1>4 DEF DocumentTokens

(* A refusal charges nothing.                                              *)
LEMMA ExcludeIInv ==
  ASSUME IInv, Considers, NEW reason \in Reasons, Exclude(reason),
         cutoffRank' \in Nat
  PROVE  IInv'
<1>1. next \in Nat \ {0} /\ excluded \in Seq([rank : Nat, reason : Reasons])
  BY DEF IInv, TypeOK
<1>2. excluded' \in Seq([rank : Nat, reason : Reasons])
  BY <1>1 DEF Exclude
<1>3. TypeOK'
  BY <1>1, <1>2 DEF IInv, TypeOK, Considers, Exclude
<1> QED
  BY <1>3 DEF IInv, Covered, ResultCovered, Considers, Exclude

LEMMA RefusalIInv ==
  ASSUME IInv,
         ExcludeDuplicate \/ ExcludeEmpty \/ ExcludeTooLarge \/ ExcludeBelowCut \/ CutHere
  PROVE  IInv'
<1>1. cutoffRank \in Nat /\ next \in Nat
  BY DEF IInv, TypeOK
<1>2. CASE ExcludeDuplicate
  BY <1>1, <1>2, ExcludeIInv DEF ExcludeDuplicate, Reasons
<1>3. CASE ExcludeEmpty
  BY <1>1, <1>3, ExcludeIInv DEF ExcludeEmpty, Reasons
<1>4. CASE ExcludeTooLarge
  BY <1>1, <1>4, ExcludeIInv DEF ExcludeTooLarge, Reasons
<1>5. CASE ExcludeBelowCut
  BY <1>1, <1>5, ExcludeIInv DEF ExcludeBelowCut, Reasons
<1>6. CASE CutHere
  BY <1>1, <1>6, ExcludeIInv DEF CutHere, Reasons
<1> QED
  BY <1>2, <1>3, <1>4, <1>5, <1>6

LEMMA IncludeIInv == ASSUME IInv, Include PROVE IInv'
<1>1. Considers /\ Fits
  BY DEF Include
<1>2. /\ DocumentTokens(Doc) \in Nat
      /\ Doc.bytes \in Nat
      /\ Doc.bytes + 4 <= 4 * DocumentTokens(Doc)
  BY <1>1, ConsideredDoc DEF Documents
<1>3. used \in Nat /\ rendered \in Nat /\ next \in Nat /\ available \in Nat
  BY DEF IInv, TypeOK
<1>4. /\ used' = used + DocumentTokens(Doc)
      /\ rendered' = rendered + 2 + Doc.bytes
      /\ included' = Append(included, next)
  BY DEF Include, SeparatorBytes
<1>5. included' \in Seq(Nat)
  BY <1>3, <1>4 DEF IInv, TypeOK
<1>6. used' \in Nat /\ rendered' \in Nat
  BY <1>2, <1>3, <1>4
<1>7. TypeOK'
  BY <1>3, <1>5, <1>6 DEF IInv, TypeOK, Include, Considers
<1>8. 44 + rendered' + 4 <= 4 * used'
  BY <1>2, <1>3, <1>4 DEF IInv, Covered, HeaderBytes
<1>9. used' <= available'
  BY <1>1, <1>4 DEF Fits, Considers
<1>10. Covered'
  BY <1>8, <1>9 DEF Covered, HeaderBytes
<1>11. ResultCovered'
  BY <1>1 DEF IInv, ResultCovered, Considers
<1> QED
  BY <1>7, <1>10, <1>11 DEF IInv

LEMMA EmitIInv ==
  ASSUME IInv, NEW policy \in Policies, Emit(policy)
  PROVE  IInv'
<1>1. used \in Nat /\ rendered \in Nat /\ available \in Nat
  BY DEF IInv, TypeOK
<1>2. TextBytes \in Nat
  BY <1>1 DEF TextBytes, HeaderBytes
<1>3. result'.total_tokens = EstimateTokens(TextBytes)
  BY DEF Emit
<1>4. /\ EstimateTokens(TextBytes) \in Nat
      /\ 4 * EstimateTokens(TextBytes) <= TextBytes + 3
  BY <1>2, EstimateCovers
<1>5. EstimateTokens(TextBytes) <= available
  <2>1. CASE included = <<>>
    <3>1. EstimateTokens(TextBytes) = 0
      BY <2>1 DEF TextBytes, EstimateTokens
    <3> QED
      BY <3>1, <1>1
  <2>2. CASE included # <<>>
    <3>1. TextBytes = 44 + rendered
      BY <2>2 DEF TextBytes, HeaderBytes
    <3>2. 44 + rendered + 4 <= 4 * used /\ used <= available
      BY <2>2 DEF IInv, Covered, HeaderBytes
    <3> QED
      BY <1>1, <1>4, <3>1, <3>2
  <2> QED
    BY <2>1, <2>2
<1>6. TypeOK'
  BY <1>3, <1>4 DEF IInv, TypeOK, Emit
<1> QED
  BY <1>3, <1>5, <1>6 DEF IInv, Covered, ResultCovered, Emit

LEMMA NextIInv == IInv /\ [Next]_vars => IInv'
<1> SUFFICES ASSUME IInv, [Next]_vars PROVE IInv'
  OBVIOUS
<1>1. CASE Rank
  BY <1>1, RankIInv
<1>2. CASE ExcludeDuplicate \/ ExcludeEmpty \/ ExcludeTooLarge \/ ExcludeBelowCut \/ CutHere
  BY <1>2, RefusalIInv
<1>3. CASE Include
  BY <1>3, IncludeIInv
<1>4. CASE \E policy \in Policies : Emit(policy)
  BY <1>4, EmitIInv
<1>5. CASE UNCHANGED vars
  BY <1>5 DEF IInv, TypeOK, Covered, ResultCovered, vars
<1> QED
  BY <1>1, <1>2, <1>3, <1>4, <1>5 DEF Next

LEMMA AlwaysIInv == Spec => []IInv
<1> QED
  BY InitIInv, NextIInv, PTL DEF Spec

-----------------------------------------------------------------------------
(* The variables of compileContext keep their types.                       *)
THEOREM TypeCorrect == Spec => []TypeOK
<1>1. IInv => TypeOK
  BY DEF IInv
<1> QED
  BY AlwaysIInv, <1>1, PTL

(* The context compiled from any documents, whatever their sizes, pins and *)
(* policy, estimates within the budget without the reserve.                *)
THEOREM BudgetNeverExceeded == Spec => []WithinBudget
<1>1. IInv => WithinBudget
  BY DEF IInv, ResultCovered, WithinBudget
<1> QED
  BY AlwaysIInv, <1>1, PTL

-----------------------------------------------------------------------------
(* Until the cut, every rank passed was taken or refused by itself, and    *)
(* nothing is taken after the cut.                                         *)
PassedUntilCut ==
  ~BelowCut => \A rank \in 1..(next - 1) : Taken(rank) \/ RefusedByItself(rank)

FillInv == TypeOK /\ PassedUntilCut /\ NothingPromoted

(* What was taken or refused stays so.                                     *)
LEMMA ExcludeKeeps ==
  ASSUME TypeOK, NEW reason \in Reasons, Exclude(reason)
  PROVE  /\ \A rank : Taken(rank)' <=> Taken(rank)
         /\ \A rank : RefusedByItself(rank) => RefusedByItself(rank)'
         /\ reason # "over_budget" =>
               \A rank : rank = next => RefusedByItself(rank)'
<1>1. /\ excluded \in Seq([rank : Nat, reason : Reasons])
      /\ excluded' = Append(excluded, [rank |-> next, reason |-> reason])
      /\ included' = included
  BY DEF TypeOK, Exclude
<1>2. /\ Len(excluded) \in Nat
      /\ DOMAIN excluded = 1..Len(excluded)
      /\ DOMAIN excluded' = 1..(Len(excluded) + 1)
      /\ \A j \in DOMAIN excluded : excluded'[j] = excluded[j]
      /\ excluded'[Len(excluded) + 1] = [rank |-> next, reason |-> reason]
  BY <1>1
<1>3. \A rank : RefusedByItself(rank) => RefusedByItself(rank)'
  BY <1>2 DEF RefusedByItself
<1>4. ASSUME reason # "over_budget", NEW rank, rank = next
      PROVE  RefusedByItself(rank)'
  BY <1>2, <1>4 DEF RefusedByItself, Reasons
<1> QED
  BY <1>1, <1>3, <1>4 DEF Taken

LEMMA RefusalFill ==
  ASSUME FillInv, TypeOK', Considers, NEW reason \in Reasons, Exclude(reason),
         \/ reason # "over_budget" /\ cutoffRank' = cutoffRank
         \/ BelowCut'
  PROVE  FillInv'
<1>1. next \in Nat /\ next' = next + 1 /\ included' = included
  BY DEF FillInv, TypeOK, Considers, Exclude
<1>2. /\ \A rank : Taken(rank)' <=> Taken(rank)
      /\ \A rank : RefusedByItself(rank) => RefusedByItself(rank)'
      /\ reason # "over_budget" =>
               \A rank : rank = next => RefusedByItself(rank)'
  BY ExcludeKeeps DEF FillInv
<1>3. NothingPromoted'
  BY <1>1, <1>2 DEF FillInv, NothingPromoted
<1>4. PassedUntilCut'
  <2>1. CASE BelowCut'
    BY <2>1 DEF PassedUntilCut
  <2>2. CASE reason # "over_budget" /\ cutoffRank' = cutoffRank
    <3>1. SUFFICES ASSUME ~BelowCut', NEW rank \in 1..(next' - 1)
                   PROVE  Taken(rank)' \/ RefusedByItself(rank)'
      BY DEF PassedUntilCut
    <3>2. ~BelowCut
      BY <2>2, <3>1 DEF BelowCut
    <3>3. CASE rank = next
      BY <1>2, <2>2, <3>3
    <3>4. CASE rank # next
      <4>1. rank \in 1..(next - 1)
        BY <1>1, <3>4
      <4>2. Taken(rank) \/ RefusedByItself(rank)
        BY <3>2, <4>1 DEF FillInv, PassedUntilCut
      <4> QED
        BY <1>2, <4>2
    <3> QED
      BY <3>3, <3>4
  <2> QED
    BY <2>1, <2>2
<1> QED
  BY <1>3, <1>4 DEF FillInv

LEMMA IncludeFill == ASSUME FillInv, TypeOK', Include PROVE FillInv'
<1>1. /\ next \in Nat \ {0} /\ next' = next + 1
      /\ included \in Seq(Nat) /\ included' = Append(included, next)
      /\ excluded' = excluded /\ ~BelowCut
  BY DEF FillInv, TypeOK, Include, Considers
<1>2. /\ Len(included) \in Nat
      /\ DOMAIN included = 1..Len(included)
      /\ DOMAIN included' = 1..(Len(included) + 1)
      /\ \A k \in DOMAIN included : included'[k] = included[k]
      /\ included'[Len(included) + 1] = next
  BY <1>1
<1>3. \A rank : Taken(rank) => Taken(rank)'
  BY <1>2 DEF Taken
<1>4. \A rank : RefusedByItself(rank) => RefusedByItself(rank)'
  BY <1>1 DEF RefusedByItself
<1>5. \A rank : rank = next => Taken(rank)'
  BY <1>2 DEF Taken
<1>6. \A rank \in 1..(next - 1) : Taken(rank) \/ RefusedByItself(rank)
  BY <1>1 DEF FillInv, PassedUntilCut
<1>7. PassedUntilCut'
  <2>1. SUFFICES ASSUME NEW rank \in 1..(next' - 1)
                 PROVE  Taken(rank)' \/ RefusedByItself(rank)'
    BY DEF PassedUntilCut
  <2>2. rank = next \/ rank \in 1..(next - 1)
    BY <1>1
  <2> QED
    BY <1>3, <1>4, <1>5, <1>6, <2>2
<1>8. NothingPromoted'
  <2>1. SUFFICES ASSUME NEW k \in DOMAIN included', NEW rank \in 1..(included'[k] - 1)
                 PROVE  Taken(rank)' \/ RefusedByItself(rank)'
    BY DEF NothingPromoted
  <2>2. CASE k \in DOMAIN included
    <3>1. rank \in 1..(included[k] - 1)
      BY <1>2, <2>2
    <3>2. Taken(rank) \/ RefusedByItself(rank)
      BY <2>2, <3>1 DEF FillInv, NothingPromoted
    <3> QED
      BY <1>3, <1>4, <3>2
  <2>3. CASE k \notin DOMAIN included
    <3>1. k = Len(included) + 1
      BY <1>2, <2>3
    <3>2. rank \in 1..(next - 1)
      BY <1>2, <3>1
    <3> QED
      BY <1>3, <1>4, <1>6, <3>2
  <2> QED
    BY <2>2, <2>3
<1> QED
  BY <1>7, <1>8 DEF FillInv

LEMMA InitFill == Init => FillInv
<1> SUFFICES ASSUME Init PROVE FillInv
  OBVIOUS
<1>1. TypeOK
  BY InitIInv DEF IInv
<1>2. PassedUntilCut
  BY DEF Init, PassedUntilCut
<1>3. NothingPromoted
  BY DEF Init, NothingPromoted
<1> QED
  BY <1>1, <1>2, <1>3 DEF FillInv

LEMMA NextFill == IInv /\ FillInv /\ [Next]_vars => FillInv'
<1> SUFFICES ASSUME IInv, FillInv, [Next]_vars PROVE FillInv'
  OBVIOUS
<1>1. TypeOK'
  BY NextIInv DEF IInv
<1>2. CASE Rank
  BY <1>1, <1>2
  DEF FillInv, Rank, PassedUntilCut, NothingPromoted, Taken, RefusedByItself, BelowCut
<1>3. CASE ExcludeDuplicate
  BY <1>1, <1>3, RefusalFill DEF ExcludeDuplicate, Reasons
<1>4. CASE ExcludeEmpty
  BY <1>1, <1>4, RefusalFill DEF ExcludeEmpty, Reasons
<1>5. CASE ExcludeTooLarge
  BY <1>1, <1>5, RefusalFill DEF ExcludeTooLarge, Reasons
<1>6. CASE ExcludeBelowCut
  <2>1. BelowCut'
    BY <1>6 DEF ExcludeBelowCut, BelowCut
  <2> QED
    BY <1>1, <1>6, <2>1, RefusalFill DEF ExcludeBelowCut, Reasons
<1>7. CASE CutHere
  <2>1. BelowCut'
    BY <1>7 DEF CutHere, BelowCut, NoCut, FillInv, TypeOK
  <2> QED
    BY <1>1, <1>7, <2>1, RefusalFill DEF CutHere, Reasons
<1>8. CASE Include
  BY <1>1, <1>8, IncludeFill
<1>9. CASE \E policy \in Policies : Emit(policy)
  BY <1>1, <1>9
  DEF FillInv, Emit, PassedUntilCut, NothingPromoted, Taken, RefusedByItself, BelowCut
<1>10. CASE UNCHANGED vars
  BY <1>1, <1>10
  DEF FillInv, vars, PassedUntilCut, NothingPromoted, Taken, RefusedByItself, BelowCut
<1> QED
  BY <1>2, <1>3, <1>4, <1>5, <1>6, <1>7, <1>8, <1>9, <1>10 DEF Next

(* No document is passed over for a lower-ranked one but by a refusal that *)
(* looks at that document alone, for any number of documents.              *)
THEOREM FillIsRanked == Spec => []NothingPromoted
<1>1. FillInv => NothingPromoted
  BY DEF FillInv
<1> QED
  BY AlwaysIInv, InitFill, NextFill, <1>1, PTL DEF Spec
-----------------------------------------------------------------------------
(***************************************************************************)
(* Every rank is accounted for once, first by the fill and then, whatever  *)
(* the position policy, by the layout.                                     *)
(***************************************************************************)

(* A sequence whose elements are those of s, each at one other place.      *)
LEMMA Rearranged ==
  ASSUME NEW S, NEW s \in Seq(S), NEW t \in Seq(S), Len(t) = Len(s),
         NEW place \in [1..Len(s) -> 1..Len(s)],
         \A i, j \in 1..Len(s) : place[i] = place[j] => i = j,
         \A k \in 1..Len(s) : \E i \in 1..Len(s) : place[i] = k,
         \A i \in 1..Len(s) : t[i] = s[place[i]]
  PROVE  Range(t) = Range(s) /\ (IsInjective(s) => IsInjective(t))
<1>1. Len(s) \in Nat /\ DOMAIN s = 1..Len(s) /\ DOMAIN t = 1..Len(s)
  OBVIOUS
<1>2. Range(t) \subseteq Range(s)
  BY <1>1 DEF Range
<1>3. Range(s) \subseteq Range(t)
  <2> SUFFICES ASSUME NEW k \in 1..Len(s) PROVE s[k] \in Range(t)
    BY <1>1 DEF Range
  <2>1. PICK i \in 1..Len(s) : place[i] = k
    OBVIOUS
  <2>2. i \in DOMAIN t /\ t[i] = s[k]
    BY <1>1, <2>1
  <2> QED
    BY <2>2 DEF Range
<1>4. IsInjective(s) => IsInjective(t)
  BY <1>1 DEF IsInjective
<1> QED
  BY <1>2, <1>3, <1>4

LEMMA ReverseIs ==
  ASSUME NEW S, NEW s \in Seq(S)
  PROVE  /\ Reverse(s) \in Seq(S) /\ Len(Reverse(s)) = Len(s)
         /\ \A i \in 1..Len(s) : Reverse(s)[i] = s[Len(s) - i + 1]
<1>1. Len(s) \in Nat /\ \A i \in 1..Len(s) : s[Len(s) - i + 1] \in S
  OBVIOUS
<1> QED
  BY <1>1 DEF Reverse

(* The documents in the odd places, and those in the even ones.            *)
LEMMA EveryOtherIs ==
  ASSUME NEW S, NEW s \in Seq(S), NEW first \in {1, 2}
  PROVE  /\ EveryOther(s, first) \in Seq(S)
         /\ Len(EveryOther(s, first)) = (Len(s) - first) \div 2 + 1
         /\ \A k \in 1..((Len(s) - first) \div 2 + 1) :
              EveryOther(s, first)[k] = s[first + 2 * (k - 1)]
<1> DEFINE n == Len(s)
           h == (n - first) \div 2 + 1
<1>1. n \in Nat /\ h \in Nat /\ 2 * (h - 1) <= n - first
  OBVIOUS
<1>2. \A k \in 1..h : first + 2 * (k - 1) \in 1..n
  BY <1>1
<1>3. \A k \in 1..h : s[first + 2 * (k - 1)] \in S
  BY <1>2
<1>4. EveryOther(s, first) = [k \in 1..h |-> s[first + 2 * (k - 1)]]
  BY DEF EveryOther
<1> HIDE DEF h
<1>5. EveryOther(s, first) \in Seq(S) /\ Len(EveryOther(s, first)) = h
  BY <1>1, <1>3, <1>4
<1> QED
  BY <1>4, <1>5 DEF h

(* Where in the ranking the edge-loaded layout takes its i-th document.    *)
EdgePlace(n, i) == IF 2 * i - 1 <= n THEN 2 * i - 1 ELSE 2 * (n - i + 1)

(* The odd places from the head, then the even ones back to the second.    *)
LEMMA EdgeLoadedPlaces ==
  ASSUME NEW S, NEW s \in Seq(S)
  PROVE  LET t == EveryOther(s, 1) \o Reverse(EveryOther(s, 2))
         IN  /\ t \in Seq(S) /\ Len(t) = Len(s)
             /\ \A i \in 1..Len(s) : t[i] = s[EdgePlace(Len(s), i)]
<1> DEFINE n == Len(s)
           h == (n - 1) \div 2 + 1
           l == (n - 2) \div 2 + 1
           head == EveryOther(s, 1)
           tail == EveryOther(s, 2)
           t == head \o Reverse(tail)
           place == [i \in 1..n |-> IF i <= h THEN 1 + 2 * (i - 1) ELSE 2 + 2 * (n - i)]
<1>1. /\ n \in Nat /\ h \in Nat /\ l \in Nat
      /\ h + l = n /\ (n = 2 * h \/ n = 2 * h - 1)
  OBVIOUS
<1>2. /\ head \in Seq(S) /\ Len(head) = h
      /\ \A k \in 1..h : head[k] = s[1 + 2 * (k - 1)]
  BY EveryOtherIs
<1>3. /\ tail \in Seq(S) /\ Len(tail) = l
      /\ \A k \in 1..l : tail[k] = s[2 + 2 * (k - 1)]
  BY EveryOtherIs
<1> HIDE DEF head, tail, h, l
<1>4. /\ Reverse(tail) \in Seq(S) /\ Len(Reverse(tail)) = l
      /\ \A i \in 1..l : Reverse(tail)[i] = tail[l - i + 1]
  BY <1>3, ReverseIs
<1> DEFINE reversed == Reverse(tail)
<1> HIDE DEF reversed
<1>5. t \in Seq(S) /\ Len(t) = n
  <2>1. reversed \in Seq(S) /\ Len(reversed) = l
    BY <1>4 DEF reversed
  <2>2. head \o reversed \in Seq(S)
    BY <1>2, <2>1, ConcatProperties, Zenon
  <2>3. Len(head \o reversed) = h + l
    <3>1. head \in Seq(S) /\ Len(head) = h
      BY <1>2
    <3>2. Len(head \o reversed) = Len(head) + Len(reversed)
      BY <2>1, <3>1
    <3> QED
      BY <2>1, <3>1, <3>2
  <2> QED
    BY <1>1, <2>2, <2>3 DEF reversed
<1>6. ASSUME NEW i \in 1..n PROVE t[i] = s[place[i]]
  <2>1. CASE i <= h
    <3>1. i \in 1..h /\ t[i] = head[i]
      BY <1>1, <1>2, <1>4, <2>1
    <3> QED
      BY <1>2, <2>1, <3>1
  <2>2. CASE ~(i <= h)
    <3>1. i - h \in 1..l /\ l - (i - h) + 1 \in 1..l
      BY <1>1, <2>2
    <3>2. t[i] = Reverse(tail)[i - h]
      BY <1>1, <1>2, <1>4, <2>2
    <3>3. t[i] = s[2 + 2 * (l - (i - h) + 1 - 1)]
      BY <1>3, <1>4, <3>1, <3>2
    <3>4. 2 + 2 * (l - (i - h) + 1 - 1) = 2 + 2 * (n - i)
      BY <1>1
    <3> QED
      BY <2>2, <3>3, <3>4
  <2> QED
    BY <2>1, <2>2
<1>7. \A i \in 1..n : place[i] = EdgePlace(n, i)
  BY <1>1 DEF EdgePlace
<1> HIDE DEF place
<1> QED
  BY <1>5, <1>6, <1>7 DEF head, tail

(* No place is taken twice and none is left out.                           *)
LEMMA EdgeLoadedIs ==
  ASSUME NEW S, NEW s \in Seq(S)
  PROVE  LET t == EveryOther(s, 1) \o Reverse(EveryOther(s, 2))
         IN  t \in Seq(S) /\ Len(t) = Len(s) /\ Range(t) = Range(s)
             /\ (IsInjective(s) => IsInjective(t))
<1> DEFINE n == Len(s)
           t == EveryOther(s, 1) \o Reverse(EveryOther(s, 2))
           place == [i \in 1..n |-> EdgePlace(n, i)]
<1>1. n \in Nat
  OBVIOUS
<1>2. t \in Seq(S) /\ Len(t) = n /\ \A i \in 1..n : t[i] = s[place[i]]
  BY EdgeLoadedPlaces
<1>3. place \in [1..n -> 1..n]
  BY <1>1 DEF EdgePlace
<1>4. \A i, j \in 1..n : place[i] = place[j] => i = j
  BY <1>1 DEF EdgePlace
<1>5. ASSUME NEW k \in 1..n PROVE \E i \in 1..n : place[i] = k
  <2>1. PICK m \in Int : k = 2 * m \/ k = 2 * m - 1
    <3>1. (k + 1) \div 2 \in Int /\ (k = 2 * ((k + 1) \div 2) \/ k = 2 * ((k + 1) \div 2) - 1)
      OBVIOUS
    <3> QED
      BY <3>1
  <2>2. CASE k = 2 * m - 1
    <3>1. m \in 1..n
      BY <1>1, <2>2
    <3> QED
      BY <2>2, <3>1 DEF EdgePlace
  <2>3. CASE k = 2 * m
    <3>1. n - m + 1 \in 1..n /\ ~(2 * (n - m + 1) - 1 <= n) /\ 2 * (n - (n - m + 1) + 1) = k
      BY <1>1, <2>3
    <3>2. place[n - m + 1] = k
      BY <3>1 DEF EdgePlace
    <3> QED
      BY <3>1, <3>2
  <2> QED
    BY <2>1, <2>2, <2>3
<1> HIDE DEF place, t
<1>6. Range(t) = Range(s) /\ (IsInjective(s) => IsInjective(t))
  BY <1>2, <1>3, <1>4, <1>5, Rearranged
<1> QED
  BY <1>2, <1>6 DEF t

LEMMA PolicyRearranges ==
  ASSUME NEW S, NEW s \in Seq(S), NEW policy \in Policies
  PROVE  /\ Len(ApplyPolicy(s, policy)) = Len(s)
         /\ Range(ApplyPolicy(s, policy)) = Range(s)
         /\ IsInjective(s) => IsInjective(ApplyPolicy(s, policy))
<1>1. CASE policy = "as_ranked"
  BY <1>1 DEF ApplyPolicy
<1>2. CASE policy = "tail_loaded"
  <2> DEFINE place == [i \in 1..Len(s) |-> Len(s) - i + 1]
  <2>1. Len(s) \in Nat
    OBVIOUS
  <2>2. place \in [1..Len(s) -> 1..Len(s)]
    BY <2>1
  <2>3. \A i, j \in 1..Len(s) : place[i] = place[j] => i = j
    BY <2>1
  <2>4. ASSUME NEW k \in 1..Len(s) PROVE \E i \in 1..Len(s) : place[i] = k
    <3>1. Len(s) - k + 1 \in 1..Len(s) /\ place[Len(s) - k + 1] = k
      BY <2>1
    <3> QED
      BY <3>1
  <2>5. \A i \in 1..Len(s) : Reverse(s)[i] = s[place[i]]
    BY ReverseIs
  <2> HIDE DEF place
  <2>6. /\ Range(Reverse(s)) = Range(s)
        /\ IsInjective(s) => IsInjective(Reverse(s))
    BY <2>2, <2>3, <2>4, <2>5, ReverseIs, Rearranged
  <2> QED
    BY <1>2, <2>6, ReverseIs DEF ApplyPolicy
<1>3. CASE policy = "edge_loaded"
  BY <1>3, EdgeLoadedIs DEF ApplyPolicy
<1> QED
  BY <1>1, <1>2, <1>3 DEF Policies

-----------------------------------------------------------------------------
RanksAccounted ==
  /\ IsInjective(included)
  /\ Range(included) \cap ExcludedRanks = {}
  /\ Range(included) \cup ExcludedRanks = 1..(next - 1)
  /\ Len(included) + Len(excluded) = next - 1

RankedAll ==
  /\ phase = "ranking" => next = 1
  /\ phase # "ranking" => Len(ranked) = Len(documents)
  /\ next <= Len(documents) + 1

OnceInv == RanksAccounted /\ RankedAll /\ EveryDocumentOnce

(* One more rank, at the end of a sequence of ranks.                       *)
LEMMA AppendRank ==
  ASSUME NEW S, NEW s \in Seq(S), NEW x \in S
  PROVE  /\ Range(Append(s, x)) = Range(s) \cup {x}
         /\ IsInjective(s) /\ x \notin Range(s) => IsInjective(Append(s, x))
         /\ Len(Append(s, x)) = Len(s) + 1
<1>1. /\ Len(s) \in Nat /\ DOMAIN s = 1..Len(s)
      /\ DOMAIN Append(s, x) = 1..(Len(s) + 1)
      /\ \A i \in 1..Len(s) : Append(s, x)[i] = s[i]
      /\ Append(s, x)[Len(s) + 1] = x
  OBVIOUS
<1>2. 1..(Len(s) + 1) = 1..Len(s) \cup {Len(s) + 1}
  BY <1>1
<1>3. Range(Append(s, x)) = Range(s) \cup {x}
  BY <1>1, <1>2 DEF Range
<1>4. IsInjective(s) /\ x \notin Range(s) => IsInjective(Append(s, x))
  BY <1>1, <1>2 DEF IsInjective, Range
<1> QED
  BY <1>3, <1>4

LEMMA ExcludeOnce ==
  ASSUME IInv, OnceInv, Considers, NEW reason \in Reasons, Exclude(reason)
  PROVE  OnceInv'
<1>1. /\ next \in Nat \ {0} /\ next' = next + 1 /\ included' = included
      /\ excluded \in Seq([rank : Nat, reason : Reasons]) /\ included \in Seq(Nat)
      /\ excluded' = Append(excluded, [rank |-> next, reason |-> reason])
      /\ UNCHANGED <<phase, documents, ranked, result>> /\ phase = "filling"
      /\ next <= Len(ranked)
  BY DEF IInv, TypeOK, Considers, Exclude
<1>2. /\ Len(excluded) \in Nat /\ DOMAIN excluded = 1..Len(excluded)
      /\ DOMAIN excluded' = 1..Len(excluded) \cup {Len(excluded) + 1}
      /\ \A k \in 1..Len(excluded) : excluded'[k] = excluded[k]
      /\ excluded'[Len(excluded) + 1] = [rank |-> next, reason |-> reason]
      /\ Len(excluded') = Len(excluded) + 1
  BY <1>1
<1>3. ExcludedRanks' = ExcludedRanks \cup {next}
  <2>1. ExcludedRanks' = {excluded'[k].rank : k \in DOMAIN excluded'}
    BY DEF ExcludedRanks
  <2> QED
    BY <1>2, <2>1 DEF ExcludedRanks
<1>4. next \notin Range(included)
  BY <1>1 DEF OnceInv, RanksAccounted
<1>5. 1..(next' - 1) = 1..(next - 1) \cup {next}
  BY <1>1
<1>6. Range(included') = Range(included) /\ Len(included) \in Nat
  BY <1>1
<1>7. RanksAccounted'
  BY <1>1, <1>2, <1>3, <1>4, <1>5, <1>6 DEF OnceInv, RanksAccounted
<1>8. RankedAll'
  BY <1>1 DEF OnceInv, RankedAll
<1>9. EveryDocumentOnce'
  BY <1>1 DEF EveryDocumentOnce
<1> QED
  BY <1>7, <1>8, <1>9 DEF OnceInv

LEMMA IncludeOnce == ASSUME IInv, OnceInv, Include PROVE OnceInv'
<1>1. /\ next \in Nat \ {0} /\ next' = next + 1 /\ excluded' = excluded
      /\ included \in Seq(Nat) /\ included' = Append(included, next)
      /\ excluded \in Seq([rank : Nat, reason : Reasons])
      /\ UNCHANGED <<phase, documents, ranked, result>> /\ phase = "filling"
      /\ next <= Len(ranked)
  BY DEF IInv, TypeOK, Include, Considers
<1>2. next \notin Range(included) /\ next \notin ExcludedRanks
  BY <1>1 DEF OnceInv, RanksAccounted
<1>3. /\ Range(included') = Range(included) \cup {next}
      /\ IsInjective(included) => IsInjective(included')
      /\ Len(included') = Len(included) + 1
  BY <1>1, <1>2, AppendRank
<1>4. 1..(next' - 1) = 1..(next - 1) \cup {next}
  BY <1>1
<1>5. ExcludedRanks' = ExcludedRanks
  BY <1>1 DEF ExcludedRanks
<1>6. Len(included) \in Nat /\ Len(excluded) \in Nat
  BY <1>1
<1>7. RanksAccounted'
  BY <1>1, <1>2, <1>3, <1>4, <1>5, <1>6 DEF OnceInv, RanksAccounted
<1>8. RankedAll'
  BY <1>1 DEF OnceInv, RankedAll
<1>9. EveryDocumentOnce'
  BY <1>1 DEF EveryDocumentOnce
<1> QED
  BY <1>7, <1>8, <1>9 DEF OnceInv

LEMMA EmitOnce == ASSUME IInv, OnceInv, NEW policy \in Policies, Emit(policy) PROVE OnceInv'
<1>1. /\ included \in Seq(Nat) /\ next \in Nat \ {0}
      /\ result'.layout = ApplyPolicy(included, policy)
      /\ UNCHANGED <<documents, ranked, next, included, excluded>>
      /\ phase = "filling" /\ phase' = "compiled" /\ next > Len(ranked)
      /\ documents \in Seq(Documents)
  BY DEF IInv, TypeOK, Emit
<1>2. next - 1 = Len(documents)
  <2>1. Len(documents) \in Nat /\ Len(ranked) = Len(documents) /\ next <= Len(documents) + 1
    BY <1>1 DEF OnceInv, RankedAll
  <2> QED
    BY <1>1, <2>1
<1>3. /\ Len(result'.layout) = Len(included) /\ Range(result'.layout) = Range(included)
      /\ IsInjective(included) => IsInjective(result'.layout)
  BY <1>1, PolicyRearranges
<1>4. ExcludedRanks' = ExcludedRanks
  BY <1>1 DEF ExcludedRanks
<1>5. RanksAccounted' /\ RankedAll'
  BY <1>1, <1>4 DEF OnceInv, RanksAccounted, RankedAll
<1>6. EveryDocumentOnce'
  BY <1>1, <1>2, <1>3, <1>4 DEF OnceInv, RanksAccounted, EveryDocumentOnce
<1> QED
  BY <1>5, <1>6 DEF OnceInv

LEMMA InitOnce == Init => OnceInv
<1> SUFFICES ASSUME Init PROVE OnceInv
  OBVIOUS
<1>1. documents \in Seq(Documents) /\ Len(documents) \in Nat
  BY InputsAssumption DEF Init
<1>2. included = <<>> /\ excluded = <<>> /\ next = 1 /\ phase = "ranking"
  BY DEF Init
<1>3. RanksAccounted
  BY <1>2 DEF RanksAccounted, IsInjective, Range, ExcludedRanks
<1> QED
  BY <1>1, <1>2, <1>3 DEF OnceInv, RankedAll, EveryDocumentOnce

LEMMA NextOnce == IInv /\ OnceInv /\ [Next]_vars => OnceInv'
<1> SUFFICES ASSUME IInv, OnceInv, [Next]_vars PROVE OnceInv'
  OBVIOUS
<1>1. CASE Rank
  <2>1. /\ documents \in Seq(Documents) /\ phase = "ranking" /\ phase' = "filling"
        /\ UNCHANGED <<documents, next, included, excluded>>
    BY <1>1 DEF IInv, TypeOK, Rank
  <2>2. PICK order \in [1..Len(documents) -> 1..Len(documents)] :
          ranked' = [r \in 1..Len(documents) |-> documents[order[r]]]
    BY <1>1 DEF Rank
  <2>3. Len(documents) \in Nat /\ Len(ranked') = Len(documents)
    BY <2>1, <2>2
  <2>4. RankedAll' /\ EveryDocumentOnce'
    BY <2>1, <2>3 DEF OnceInv, RankedAll, EveryDocumentOnce
  <2>5. RanksAccounted'
    BY <2>1 DEF OnceInv, RanksAccounted, ExcludedRanks
  <2> QED
    BY <2>4, <2>5 DEF OnceInv
<1>2. CASE ExcludeDuplicate \/ ExcludeEmpty \/ ExcludeTooLarge \/ ExcludeBelowCut \/ CutHere
  <2>1. Considers /\ \E reason \in Reasons : Exclude(reason)
    BY <1>2 DEF ExcludeDuplicate, ExcludeEmpty, ExcludeTooLarge, ExcludeBelowCut, CutHere,
                Reasons
  <2> QED
    BY <2>1, ExcludeOnce
<1>3. CASE Include
  BY <1>3, IncludeOnce
<1>4. CASE \E policy \in Policies : Emit(policy)
  BY <1>4, EmitOnce
<1>5. CASE UNCHANGED vars
  BY <1>5 DEF OnceInv, RanksAccounted, RankedAll, EveryDocumentOnce, ExcludedRanks, vars
<1> QED
  BY <1>1, <1>2, <1>3, <1>4, <1>5 DEF Next

(* Whatever is offered, pinned and budgeted and under every position       *)
(* policy, each document is laid out or refused, and only once             *)
(* (compile.ts:128-140, 237-241).                                          *)
THEOREM DocumentsAccounted == Spec => []EveryDocumentOnce
<1>1. OnceInv => EveryDocumentOnce
  BY DEF OnceInv
<1> QED
  BY <1>1, InitOnce, NextOnce, AlwaysIInv, PTL DEF Spec

-----------------------------------------------------------------------------
(***************************************************************************)
(* The acceptance gate.  Sums and products of the vectors a line is fitted *)
(* to, and the inequality of Cauchy and Schwarz.                           *)
(***************************************************************************)

(* The partial sums of f. *)
Sums(S, f, n) ==
  S \in [0..n -> Int] /\ S[0] = 0 /\ \A i \in 1..n : S[i] = S[i - 1] + f[i]

(* Two recursive definitions of one function on 0..n agree.                *)
LEMMA TotalIs ==
  ASSUME NEW n \in Nat, NEW f \in [1..n -> Int]
  PROVE  \E S : Sums(S, f, n) /\ Total(f) = S[n]
<1> DEFINE g == [p \in Nat \X Int |-> p[2] + (IF p[1] + 1 \in 1..n THEN f[p[1] + 1] ELSE 0)]
           Def(s) == [i \in 0..Len(f) |-> IF i = 0 THEN 0 ELSE s[i - 1] + f[i]]
           sum == CHOOSE s : s = Def(s)
<1>1. Len(f) = n
  OBVIOUS
<1>2. g \in [Nat \X Int -> Int]
  OBVIOUS
<1>3. \A i \in 1..n, x \in Int : g[<<i - 1, x>>] = x + f[i]
  <2> SUFFICES ASSUME NEW i \in 1..n, NEW x \in Int PROVE g[<<i - 1, x>>] = x + f[i]
    OBVIOUS
  <2>1. i - 1 \in Nat /\ (i - 1) + 1 = i
    OBVIOUS
  <2> QED BY <2>1
<1>4. PICK h \in [0..n -> Int] : Iterates(h, 0, g, n)
  <2> DEFINE D == Int
  <2>1. 0 \in D /\ g \in [Nat \X D -> D]
    BY <1>2
  <2>2. \E h \in [0..n -> D] : Iterates(h, 0, g, n)
    <3> HIDE DEF D, g
    <3> QED BY <2>1, IterationUpTo
  <2> QED BY <2>2
<1> HIDE DEF g
<1>5. Sums(h, f, n)
  <2>1. ASSUME NEW i \in 1..n PROVE h[i] = h[i - 1] + f[i]
    <3>1. i - 1 \in 0..(n - 1) /\ (i - 1) + 1 = i /\ i - 1 \in 0..n
      OBVIOUS
    <3>2. h[i] = g[<<i - 1, h[i - 1]>>]
      BY <1>4, <3>1 DEF Iterates
    <3>3. h[i - 1] \in Int
      BY <3>1
    <3> QED BY <1>3, <3>2, <3>3
  <2> QED BY <1>4, <2>1 DEF Sums, Iterates
<1>6. h = Def(h)
  <2>1. \A i \in 0..n : h[i] = IF i = 0 THEN 0 ELSE h[i - 1] + f[i]
    BY <1>5 DEF Sums
  <2> QED BY <1>1, <2>1
<1>7. sum = Def(sum)
  <2> HIDE DEF Def
  <2> QED BY <1>6
<1> HIDE DEF sum
<1>8. /\ sum[0] = 0
      /\ \A i \in 1..n : sum[i] = sum[i - 1] + f[i]
  <2>1. sum = [i \in 0..n |-> IF i = 0 THEN 0 ELSE sum[i - 1] + f[i]]
    BY <1>1, <1>7
  <2>2. \A i \in 0..n : sum[i] = IF i = 0 THEN 0 ELSE sum[i - 1] + f[i]
    BY <2>1
  <2> QED BY <2>2
<1>9. \A i \in 0..n : sum[i] = h[i]
  <2> DEFINE N == {i \in Nat : i <= n => sum[i] = h[i]}
  <2>1. 0 \in N
    BY <1>5, <1>8 DEF Sums
  <2>2. ASSUME NEW i \in Nat, i \in N PROVE i + 1 \in N
    <3> SUFFICES ASSUME i + 1 <= n PROVE sum[i + 1] = h[i + 1]
      OBVIOUS
    <3>1. i + 1 \in 1..n /\ (i + 1) - 1 = i
      OBVIOUS
    <3>2. h[i + 1] = h[i] + f[i + 1]
      BY <1>5, <3>1 DEF Sums
    <3>3. sum[i + 1] = sum[i] + f[i + 1]
      BY <1>8, <3>1
    <3>4. sum[i] = h[i]
      BY <2>2
    <3> QED BY <3>2, <3>3, <3>4
  <2>3. \A i \in Nat : i \in N
    <3> HIDE DEF N
    <3> QED BY <2>1, <2>2, NaturalInduction
  <2> QED BY <2>3
<1>10. Total(f) = sum[n]
  BY <1>1 DEF Total, sum, Def
<1> QED BY <1>5, <1>9, <1>10

(* Partial sums that agree at the start and in every step agree.           *)
LEMMA SumsUnique ==
  ASSUME NEW n \in Nat, NEW f, NEW S, NEW T, Sums(S, f, n), Sums(T, f, n)
  PROVE  \A i \in 0..n : S[i] = T[i]
<1> DEFINE N == {i \in Nat : i <= n => S[i] = T[i]}
<1>1. 0 \in N
  BY DEF Sums
<1>2. ASSUME NEW i \in Nat, i \in N PROVE i + 1 \in N
  <2> SUFFICES ASSUME i + 1 <= n PROVE S[i + 1] = T[i + 1]
    OBVIOUS
  <2>1. i + 1 \in 1..n /\ (i + 1) - 1 = i
    OBVIOUS
  <2>2. S[i + 1] = S[i] + f[i + 1] /\ T[i + 1] = T[i] + f[i + 1]
    BY <2>1 DEF Sums
  <2> QED BY <1>2, <2>2
<1>3. \A i \in Nat : i \in N
  <2> HIDE DEF N
  <2> QED BY <1>1, <1>2, NaturalInduction
<1> QED BY <1>3

(* Whatever the partial sums are called, the last of them is the sum.      *)
LEMMA TotalOf ==
  ASSUME NEW n \in Nat, NEW f \in [1..n -> Int], NEW S, Sums(S, f, n)
  PROVE  Total(f) = S[n] /\ Total(f) \in Int
<1>1. PICK T : Sums(T, f, n) /\ Total(f) = T[n]
  BY TotalIs
<1>2. S[n] = T[n]
  BY <1>1, SumsUnique
<1> QED BY <1>1, <1>2 DEF Sums

Comb(a, f, b, g) == [i \in DOMAIN f |-> a * f[i] + b * g[i]]

LEMMA CombTyped ==
  ASSUME NEW n \in Nat, NEW f \in [1..n -> Int], NEW g \in [1..n -> Int],
         NEW a \in Int, NEW b \in Int
  PROVE  Comb(a, f, b, g) \in [1..n -> Int]
<1>1. \A i \in 1..n : a * f[i] + b * g[i] \in Int
  OBVIOUS
<1> QED BY <1>1 DEF Comb

(* A sum of multiples is the multiples' sum.                               *)
LEMMA TotalLinear ==
  ASSUME NEW n \in Nat, NEW f \in [1..n -> Int], NEW g \in [1..n -> Int],
         NEW a \in Int, NEW b \in Int
  PROVE  Total(Comb(a, f, b, g)) = a * Total(f) + b * Total(g)
<1> DEFINE h == [i \in 1..n |-> a * f[i] + b * g[i]]
<1>1. PICK S : Sums(S, f, n) /\ Total(f) = S[n]
  BY TotalIs
<1>2. PICK T : Sums(T, g, n) /\ Total(g) = T[n]
  BY TotalIs
<1> DEFINE U == [i \in 0..n |-> a * S[i] + b * T[i]]
<1>3. S \in [0..n -> Int] /\ T \in [0..n -> Int]
  BY <1>1, <1>2 DEF Sums
<1>4. h \in [1..n -> Int] /\ U \in [0..n -> Int]
  <2>1. \A i \in 1..n : a * f[i] + b * g[i] \in Int
    OBVIOUS
  <2>2. \A i \in 0..n : S[i] \in Int /\ T[i] \in Int
    BY <1>3
  <2>3. \A i \in 0..n : a * S[i] + b * T[i] \in Int
    BY <2>2
  <2> QED BY <2>1, <2>3
<1>5. U[0] = 0
  BY <1>1, <1>2 DEF Sums
<1>6. ASSUME NEW i \in 1..n PROVE U[i] = U[i - 1] + h[i]
  <2>1. i - 1 \in 0..n /\ i \in 0..n
    OBVIOUS
  <2>2. S[i] = S[i - 1] + f[i] /\ T[i] = T[i - 1] + g[i]
    BY <1>1, <1>2 DEF Sums
  <2>3. S[i - 1] \in Int /\ T[i - 1] \in Int /\ f[i] \in Int /\ g[i] \in Int
    BY <1>3, <2>1
  <2> DEFINE s == S[i - 1]
             t == T[i - 1]
             x == f[i]
             y == g[i]
  <2>4. U[i] = a * (s + x) + b * (t + y)
    BY <2>1, <2>2
  <2>5. U[i - 1] = a * s + b * t /\ h[i] = a * x + b * y
    BY <2>1
  <2> HIDE DEF s, t, x, y
  <2>6. a * (s + x) + b * (t + y) = (a * s + b * t) + (a * x + b * y)
    <3>1. s \in Int /\ t \in Int /\ x \in Int /\ y \in Int
      BY <2>3 DEF s, t, x, y
    <3> QED BY <3>1
  <2> QED BY <2>4, <2>5, <2>6
<1>7. Sums(U, h, n)
  <2> HIDE DEF U, h
  <2> QED BY <1>4, <1>5, <1>6 DEF Sums
<1>8. Total(h) = U[n]
  <2> HIDE DEF U, h
  <2> QED BY <1>4, <1>7, TotalOf
<1>9. U[n] = a * S[n] + b * T[n]
  OBVIOUS
<1>10. Comb(a, f, b, g) = h
  BY DEF Comb
<1> HIDE DEF h, U
<1> QED BY <1>1, <1>2, <1>8, <1>9, <1>10

(* A sum is at least any one of terms none of which is negative.           *)
LEMMA TotalCovers ==
  ASSUME NEW n \in Nat, NEW f \in [1..n -> Int], \A i \in 1..n : f[i] >= 0
  PROVE  Total(f) \in Int /\ Total(f) >= 0 /\ \A k \in 1..n : Total(f) >= f[k]
<1>1. PICK S : Sums(S, f, n) /\ Total(f) = S[n]
  BY TotalIs
<1> DEFINE N == {i \in Nat : i <= n => S[i] >= 0 /\ \A k \in 1..i : S[i] >= f[k]}
<1>2. 0 \in N
  BY <1>1 DEF Sums
<1>3. ASSUME NEW i \in Nat, i \in N PROVE i + 1 \in N
  <2> SUFFICES ASSUME i + 1 <= n PROVE S[i + 1] >= 0 /\ \A k \in 1..(i + 1) : S[i + 1] >= f[k]
    OBVIOUS
  <2>1. i + 1 \in 1..n /\ (i + 1) - 1 = i /\ i \in 0..n
    OBVIOUS
  <2>2. S[i + 1] = S[i] + f[i + 1] /\ S[i] \in Int /\ f[i + 1] \in Int /\ f[i + 1] >= 0
    BY <1>1, <2>1 DEF Sums
  <2>3. S[i] >= 0 /\ \A k \in 1..i : S[i] >= f[k]
    BY <1>3
  <2>4. ASSUME NEW k \in 1..(i + 1) PROVE S[i + 1] >= f[k]
    <3>1. f[k] \in Int
      OBVIOUS
    <3>2. CASE k = i + 1
      BY <2>2, <2>3, <3>2
    <3>3. CASE k # i + 1
      <4>1. k \in 1..i
        BY <3>3
      <4> QED BY <2>2, <2>3, <3>1, <4>1
    <3> QED BY <3>2, <3>3
  <2> QED BY <2>2, <2>3, <2>4
<1>4. \A i \in Nat : i \in N
  <2> HIDE DEF N
  <2> QED BY <1>2, <1>3, NaturalInduction
<1> QED BY <1>1, <1>4 DEF Sums

(* The scalar product is symmetric, linear and positive.                   *)
LEMMA DotSymmetric ==
  ASSUME NEW n \in Nat, NEW f \in [1..n -> Int], NEW g \in [1..n -> Int]
  PROVE  Dot(f, g) \in Int /\ Dot(f, g) = Dot(g, f)
<1> DEFINE fg == [i \in 1..n |-> f[i] * g[i]]
<1>1. \A i \in 1..n : f[i] \in Int /\ g[i] \in Int
  OBVIOUS
<1>2. \A x, y \in Int : x * y \in Int /\ x * y = y * x
  OBVIOUS
<1>3. fg \in [1..n -> Int]
  BY <1>1, <1>2
<1>4. Dot(f, g) = Total(fg)
  BY DEF Dot
<1>5. Dot(g, f) = Total(fg)
  <2>1. [i \in 1..n |-> g[i] * f[i]] = fg
    BY <1>1, <1>2
  <2>2. Dot(g, f) = Total([i \in 1..n |-> g[i] * f[i]])
    BY DEF Dot
  <2> QED BY <2>1, <2>2
<1>6. Total(fg) \in Int
  <2> HIDE DEF fg
  <2> QED BY <1>3, TotalIs, TotalOf
<1> QED BY <1>4, <1>5, <1>6

(* A product of a sum of multiples is the sum of the multiples' products.  *)
LEMMA DotLinear ==
  ASSUME NEW n \in Nat, NEW f \in [1..n -> Int], NEW g \in [1..n -> Int],
         NEW h \in [1..n -> Int], NEW a \in Int, NEW b \in Int
  PROVE  Dot(Comb(a, f, b, g), h) = a * Dot(f, h) + b * Dot(g, h)
<1> DEFINE fh == [i \in 1..n |-> f[i] * h[i]]
           gh == [i \in 1..n |-> g[i] * h[i]]
           c == Comb(a, f, b, g)
           ch == [i \in 1..n |-> c[i] * h[i]]
<1>1. \A i \in 1..n : f[i] \in Int /\ g[i] \in Int /\ h[i] \in Int
  OBVIOUS
<1>3. fh \in [1..n -> Int] /\ gh \in [1..n -> Int]
  <2>1. \A x, y \in Int : x * y \in Int
    OBVIOUS
  <2> QED BY <1>1, <2>1
<1>4. c \in [1..n -> Int] /\ \A i \in 1..n : c[i] = a * f[i] + b * g[i]
  <2>1. c = [i \in 1..n |-> a * f[i] + b * g[i]]
    BY DEF Comb
  <2>2. c \in [1..n -> Int]
    BY CombTyped
  <2> HIDE DEF c
  <2> QED BY <2>1, <2>2
<1>5. Dot(f, h) = Total(fh) /\ Dot(g, h) = Total(gh)
  BY DEF Dot
<1>6. Dot(c, h) = Total(ch)
  <2> HIDE DEF c
  <2> QED BY <1>4 DEF Dot
<1>7. ch = Comb(a, fh, b, gh)
  <2>1. \A x, y, z \in Int : (a * x + b * y) * z = a * (x * z) + b * (y * z)
    OBVIOUS
  <2>2. ASSUME NEW i \in 1..n PROVE c[i] * h[i] = a * fh[i] + b * gh[i]
    <3>1. c[i] * h[i] = (a * f[i] + b * g[i]) * h[i]
      BY <1>4
    <3>2. (a * f[i] + b * g[i]) * h[i] = a * (f[i] * h[i]) + b * (g[i] * h[i])
      BY <1>1, <2>1
    <3> HIDE DEF c
    <3> QED BY <3>1, <3>2
  <2>3. Comb(a, fh, b, gh) = [i \in 1..n |-> a * fh[i] + b * gh[i]]
    BY DEF Comb
  <2> HIDE DEF c, fh, gh
  <2> QED BY <2>2, <2>3
<1>8. Total(Comb(a, fh, b, gh)) = a * Total(fh) + b * Total(gh)
  <2>1. \A u, v \in [1..n -> Int] : Total(Comb(a, u, b, v)) = a * Total(u) + b * Total(v)
    <3> HIDE DEF c, fh, gh, ch
    <3> SUFFICES ASSUME NEW u \in [1..n -> Int], NEW v \in [1..n -> Int]
                 PROVE  Total(Comb(a, u, b, v)) = a * Total(u) + b * Total(v)
      OBVIOUS
    <3> QED BY TotalLinear, Zenon
  <2> HIDE DEF fh, gh
  <2> QED BY <1>3, <2>1, Zenon
<1> HIDE DEF ch, fh, gh
<1> QED BY <1>5, <1>6, <1>7, <1>8

LEMMA SquareIsPositive ==
  ASSUME NEW x \in Int
  PROVE  x * x \in Int /\ x * x >= 0 /\ (x # 0 => x * x > 0)
<1>1. CASE x >= 0
  BY <1>1
<1>2. CASE x < 0
  <2>1. (-x) * (-x) = x * x /\ -x > 0
    BY <1>2
  <2>2. \A y \in Nat : y > 0 => y * y > 0
    OBVIOUS
  <2> QED BY <2>1, <2>2
<1> QED BY <1>1, <1>2

(* A product with itself is no less than the square of any part.           *)
LEMMA DotPositive ==
  ASSUME NEW n \in Nat, NEW f \in [1..n -> Int]
  PROVE  /\ Dot(f, f) \in Int /\ Dot(f, f) >= 0
         /\ \A k \in 1..n : Dot(f, f) >= f[k] * f[k]
<1> DEFINE ff == [i \in 1..n |-> f[i] * f[i]]
<1>1. \A i \in 1..n : f[i] * f[i] \in Int /\ f[i] * f[i] >= 0
  BY SquareIsPositive
<1>2. ff \in [1..n -> Int] /\ \A i \in 1..n : ff[i] = f[i] * f[i] /\ ff[i] >= 0
  BY <1>1
<1>3. Dot(f, f) = Total(ff)
  BY DEF Dot
<1> HIDE DEF ff
<1> QED BY <1>2, <1>3, TotalCovers

(* The inequality of Cauchy and Schwarz.                                   *)
LEMMA CauchySchwarz ==
  ASSUME NEW n \in Nat, NEW f \in [1..n -> Int], NEW g \in [1..n -> Int]
  PROVE  Dot(f, g) * Dot(f, g) <= Dot(f, f) * Dot(g, g)
<1> DEFINE A == Dot(f, f)
           B == Dot(f, g)
           C == Dot(g, g)
<1>1. A \in Int /\ B \in Int /\ C \in Int /\ A >= 0 /\ C >= 0 /\ Dot(g, f) = B
  BY DotPositive, DotSymmetric
<1>2. ASSUME NEW a \in Int, NEW b \in Int
      PROVE  a * (a * A + b * B) + b * (a * B + b * C) >= 0
  <2> DEFINE c == Comb(a, f, b, g)
  <2>1. c \in [1..n -> Int]
    BY CombTyped
  <2>2. Dot(c, f) = a * A + b * B /\ Dot(c, g) = a * B + b * C
    <3>1. Dot(c, f) = a * A + b * Dot(g, f) /\ Dot(c, g) = a * B + b * C
      BY DotLinear, Zenon
    <3> HIDE DEF A, B, C, c
    <3> QED BY <1>1, <3>1
  <2>3. Dot(f, c) = Dot(c, f) /\ Dot(g, c) = Dot(c, g)
    <3> HIDE DEF c
    <3> QED BY <2>1, DotSymmetric
  <2>4. Dot(c, c) = a * Dot(f, c) + b * Dot(g, c)
    <3>1. \A d \in [1..n -> Int] : Dot(c, d) = a * Dot(f, d) + b * Dot(g, d)
      BY DotLinear
    <3> HIDE DEF c
    <3> QED BY <2>1, <3>1
  <2>5. Dot(c, c) >= 0
    <3> HIDE DEF c
    <3> QED BY <2>1, DotPositive
  <2> HIDE DEF A, B, C, c
  <2> QED BY <2>2, <2>3, <2>4, <2>5
<1> HIDE DEF A, B, C
<1>3. CASE A > 0
  <2>1. (-B) * ((-B) * A + A * B) + A * ((-B) * B + A * C) >= 0
    <3>1. -B \in Int
      BY <1>1
    <3> DEFINE b == -B
    <3>2. b * (b * A + A * B) + A * (b * B + A * C) >= 0
      <4> HIDE DEF b
      <4> QED BY <1>1, <1>2, <3>1 DEF b
    <3> QED BY <3>2
  <2>2. (-B) * ((-B) * A + A * B) + A * ((-B) * B + A * C) = A * (A * C - B * B)
    BY <1>1
  <2>3. A * (A * C - B * B) >= 0
    BY <2>1, <2>2
  <2>4. ASSUME NEW x \in Int, A * x >= 0 PROVE x >= 0
    BY <1>1, <1>3, <2>4
  <2>5. A * C - B * B \in Int /\ A * C \in Int /\ B * B \in Int
    BY <1>1
  <2>6. A * C - B * B >= 0
    BY <2>3, <2>4, <2>5
  <2> QED BY <2>5, <2>6 DEF A, B, C
<1>4. CASE A = 0
  <2>1. ASSUME NEW a \in Int PROVE 2 * (a * B) + C >= 0
    <3>1. a * (a * A + 1 * B) + 1 * (a * B + 1 * C) >= 0
      BY <1>2
    <3>2. a * B \in Int
      BY <1>1
    <3>3. a * (a * 0 + 1 * B) + 1 * (a * B + 1 * C) = 2 * (a * B) + C
      BY <1>1, <3>2
    <3> QED BY <1>4, <3>1, <3>3
  <2>2. B = 0
    <3>1. CASE B > 0
      <4>1. 2 * ((-(C + 1)) * B) + C >= 0
        <5> DEFINE c == -(C + 1)
        <5>1. c \in Int
          BY <1>1
        <5>2. 2 * (c * B) + C >= 0
          <6> HIDE DEF c
          <6> QED BY <2>1, <5>1
        <5> QED BY <5>2
      <4>2. (C + 1) * B >= C + 1 /\ (-(C + 1)) * B = -((C + 1) * B)
        BY <1>1, <3>1
      <4> QED BY <1>1, <4>1, <4>2
    <3>2. CASE B < 0
      <4>1. 2 * ((C + 1) * B) + C >= 0
        <5> DEFINE c == C + 1
        <5>1. c \in Int
          BY <1>1
        <5>2. 2 * (c * B) + C >= 0
          <6> HIDE DEF c
          <6> QED BY <2>1, <5>1
        <5> QED BY <5>2
      <4>2. (C + 1) * B <= -(C + 1)
        BY <1>1, <3>2
      <4> QED BY <1>1, <4>1, <4>2
    <3> QED BY <1>1, <3>1, <3>2
  <2> QED BY <1>1, <1>4, <2>2 DEF A, B, C
<1> QED BY <1>1, <1>3, <1>4

(* c is the sum of the multiples a of f and b of g. *)
IsComb(c, n, a, f, b, g) ==
  /\ c \in [1..n -> Int]
  /\ \A i \in 1..n : c[i] = a * f[i] + b * g[i]
  /\ Total(c) = a * Total(f) + b * Total(g)
  /\ \A z \in [1..n -> Int] : Dot(c, z) = a * Dot(f, z) + b * Dot(g, z)

LEMMA CombIs ==
  ASSUME NEW n \in Nat, NEW f \in [1..n -> Int], NEW g \in [1..n -> Int],
         NEW a \in Int, NEW b \in Int
  PROVE  IsComb(Comb(a, f, b, g), n, a, f, b, g)
<1>1. Comb(a, f, b, g) \in [1..n -> Int]
  BY CombTyped
<1>2. \A i \in 1..n : Comb(a, f, b, g)[i] = a * f[i] + b * g[i]
  BY DEF Comb
<1>3. Total(Comb(a, f, b, g)) = a * Total(f) + b * Total(g)
  BY TotalLinear
<1>4. ASSUME NEW z \in [1..n -> Int]
      PROVE  Dot(Comb(a, f, b, g), z) = a * Dot(f, z) + b * Dot(g, z)
  BY DotLinear
<1> QED BY <1>1, <1>2, <1>3, <1>4 DEF IsComb

(* What is left of y and e when their share of x is taken out still obeys  *)
(* the inequality.                                                         *)
LEMMA CauchySchwarzBeyond ==
  ASSUME NEW n \in Nat, NEW x \in [1..n -> Int], NEW y \in [1..n -> Int],
         NEW e \in [1..n -> Int], Dot(x, x) > 0
  PROVE  LET d == Dot(x, x) * Dot(y, e) - Dot(x, y) * Dot(x, e)
         IN  d * d <= (Dot(x, x) * Dot(y, y) - Dot(x, y) * Dot(x, y))
                        * (Dot(x, x) * Dot(e, e) - Dot(x, e) * Dot(x, e))
<1> DEFINE A == Dot(x, x)
           B == Dot(x, y)
           C == Dot(y, y)
           M == Dot(x, e)
           D == Dot(y, e)
           F == Dot(e, e)
           nB == -B
           nM == -M
           r == Comb(A, y, nB, x)
           v == Comb(A, e, nM, x)
<1>1. /\ A \in Int /\ B \in Int /\ C \in Int /\ M \in Int /\ D \in Int /\ F \in Int
      /\ nB \in Int /\ nM \in Int
      /\ Dot(y, x) = B /\ Dot(e, x) = M /\ Dot(e, y) = D
  <2>1. A \in Int /\ B \in Int /\ C \in Int /\ M \in Int /\ D \in Int /\ F \in Int
    BY DotSymmetric
  <2>2. Dot(y, x) = B /\ Dot(e, x) = M /\ Dot(e, y) = D
    BY DotSymmetric
  <2> HIDE DEF A, B, C, M, D, F
  <2> QED BY <2>1, <2>2
<1> HIDE DEF nB, nM
<1> HIDE DEF A, B, C, M, D, F
<1>2. IsComb(r, n, A, y, nB, x) /\ IsComb(v, n, A, e, nM, x)
  BY <1>1, CombIs
<1>3. r \in [1..n -> Int] /\ v \in [1..n -> Int]
  BY <1>2 DEF IsComb
<1>4. \A z \in [1..n -> Int] : /\ Dot(r, z) = A * Dot(y, z) + nB * Dot(x, z)
                               /\ Dot(v, z) = A * Dot(e, z) + nM * Dot(x, z)
  BY <1>2, Zenon DEF IsComb
<1>5. Dot(x, r) = Dot(r, x) /\ Dot(y, r) = Dot(r, y) /\ Dot(e, r) = Dot(r, e)
      /\ Dot(x, v) = Dot(v, x) /\ Dot(e, v) = Dot(v, e) /\ Dot(v, r) = Dot(r, v)
  <2> HIDE DEF r, v
  <2>1. \A u, w \in [1..n -> Int] : Dot(u, w) = Dot(w, u)
    BY DotSymmetric, Zenon
  <2> QED BY <1>3, <2>1, Zenon
<1> HIDE DEF r, v
<1>6. Dot(r, x) = 0 /\ Dot(r, y) = A * C - B * B /\ Dot(r, e) = A * D - B * M
  <2>1. /\ Dot(r, x) = A * B + nB * A
        /\ Dot(r, y) = A * C + nB * B
        /\ Dot(r, e) = A * D + nB * M
    BY <1>1, <1>4, Zenon DEF A, B, C, M, D, F
  <2> QED BY <1>1, <2>1 DEF nB
<1>7. Dot(v, x) = 0 /\ Dot(v, e) = A * F - M * M
  <2>1. /\ Dot(v, x) = A * M + nM * A
        /\ Dot(v, e) = A * F + nM * M
    BY <1>1, <1>4, Zenon DEF A, B, C, M, D, F
  <2> QED BY <1>1, <2>1 DEF nM
<1>8. Dot(r, r) = A * (A * C - B * B)
  <2>1. Dot(r, r) = A * Dot(y, r) + nB * Dot(x, r)
    BY <1>3, <1>4
  <2> QED BY <1>1, <1>5, <1>6, <2>1
<1>9. Dot(v, v) = A * (A * F - M * M)
  <2>1. Dot(v, v) = A * Dot(e, v) + nM * Dot(x, v)
    BY <1>3, <1>4
  <2> QED BY <1>1, <1>5, <1>7, <2>1
<1>10. Dot(r, v) = A * (A * D - B * M)
  <2>1. Dot(v, r) = A * Dot(e, r) + nM * Dot(x, r)
    BY <1>3, <1>4
  <2> QED BY <1>1, <1>5, <1>6, <2>1
<1>11. Dot(r, v) * Dot(r, v) <= Dot(r, r) * Dot(v, v)
  BY <1>3, CauchySchwarz
<1> DEFINE p == A * C - B * B
           q == A * F - M * M
           d == A * D - B * M
<1>12. p \in Int /\ q \in Int /\ d \in Int
  BY <1>1
<1>13. (A * d) * (A * d) <= (A * p) * (A * q)
  BY <1>8, <1>9, <1>10, <1>11
<1>14. d * d <= p * q
  <2> HIDE DEF p, q, d
  <2>1. (A * d) * (A * d) = (A * A) * (d * d) /\ (A * p) * (A * q) = (A * A) * (p * q)
    BY <1>1, <1>12
  <2>2. A * A > 0 /\ A * A \in Int /\ d * d \in Int /\ p * q \in Int
    BY <1>1, <1>12, SquareIsPositive DEF A
  <2>3. \A k, i, j \in Int : k > 0 /\ k * i <= k * j => i <= j
    OBVIOUS
  <2> DEFINE k == A * A
             i == d * d
             j == p * q
  <2>4. k > 0 /\ k \in Int /\ i \in Int /\ j \in Int /\ k * i <= k * j
    BY <1>13, <2>1, <2>2
  <2> HIDE DEF k, i, j
  <2>5. i <= j
    BY <2>3, <2>4
  <2> QED BY <2>5 DEF i, j
<1> QED BY <1>14 DEF A, B, C, M, D, F

Indicator(xs, n) == [i \in 1..n |-> IF i \in xs THEN 1 ELSE 0]

(* The sum of an indicator is the number of what it indicates.             *)
LEMMA IndicatorCounts ==
  ASSUME NEW n \in Nat, NEW xs \in SUBSET (1..n)
  PROVE  /\ Indicator(xs, n) \in [1..n -> Int]
         /\ IsFiniteSet(xs) /\ Cardinality(xs) \in Nat
         /\ Total(Indicator(xs, n)) = Cardinality(xs)
<1> DEFINE f == Indicator(xs, n)
           upto(i) == xs \cap (1..i)
           S == [i \in 0..n |-> Cardinality(upto(i))]
<1>1. f \in [1..n -> Int] /\ \A i \in 1..n : f[i] = IF i \in xs THEN 1 ELSE 0
  BY DEF Indicator
<1>2. ASSUME NEW i \in Nat PROVE IsFiniteSet(upto(i)) /\ Cardinality(upto(i)) \in Nat
  <2>1. IsFiniteSet(1..i)
    BY FS_Interval
  <2>2. upto(i) \subseteq 1..i
    OBVIOUS
  <2>3. IsFiniteSet(upto(i))
    BY <2>1, <2>2, FS_Subset
  <2> HIDE DEF upto
  <2> QED BY <2>3, FS_CardinalityType
<1>3. upto(0) = {} /\ upto(n) = xs
  <2>1. 1..0 = {} /\ xs \subseteq 1..n
    OBVIOUS
  <2> QED BY <2>1
<1>4. S \in [0..n -> Int]
  <2> HIDE DEF upto
  <2> QED BY <1>2
<1>5. S[0] = 0
  <2>1. Cardinality({}) = 0
    BY FS_EmptySet
  <2> QED BY <1>3, <2>1
<1>6. ASSUME NEW i \in 1..n PROVE S[i] = S[i - 1] + f[i]
  <2>1. i - 1 \in 0..n /\ i - 1 \in Nat /\ i \in 0..n
    OBVIOUS
  <2>2. CASE i \in xs
    <3>1. upto(i) = upto(i - 1) \cup {i} /\ i \notin upto(i - 1)
      BY <2>2
    <3>2. Cardinality(upto(i - 1) \cup {i}) = Cardinality(upto(i - 1)) + 1
      <4> HIDE DEF upto
      <4> QED BY <1>2, <2>1, <3>1, FS_AddElement
    <3>3. S[i] = Cardinality(upto(i)) /\ S[i - 1] = Cardinality(upto(i - 1)) /\ f[i] = 1
      BY <1>1, <2>1, <2>2
    <3> HIDE DEF S, upto, f
    <3> QED BY <3>1, <3>2, <3>3
  <2>3. CASE i \notin xs
    <3>1. upto(i) = upto(i - 1)
      BY <2>3
    <3>2. S[i] = Cardinality(upto(i)) /\ S[i - 1] = Cardinality(upto(i - 1)) /\ f[i] = 0
      BY <1>1, <2>1, <2>3
    <3>3. Cardinality(upto(i - 1)) \in Nat
      BY <1>2, <2>1
    <3> HIDE DEF S, upto, f
    <3> QED BY <3>1, <3>2, <3>3
  <2> QED BY <2>2, <2>3
<1>7. Sums(S, f, n)
  <2> HIDE DEF S, f
  <2> QED BY <1>4, <1>5, <1>6 DEF Sums
<1>8. Total(f) = S[n]
  <2> HIDE DEF S, f
  <2> QED BY <1>1, <1>7, TotalOf
<1>9. S[n] = Cardinality(xs)
  BY <1>3
<1>10. IsFiniteSet(xs) /\ Cardinality(xs) \in Nat
  BY <1>2, <1>3
<1> HIDE DEF S, upto
<1> QED BY <1>1, <1>8, <1>9, <1>10

(* The scalar product with an indicator of one index is the value there.   *)
LEMMA DotUnit ==
  ASSUME NEW n \in Nat, NEW f \in [1..n -> Int], NEW k \in 1..n
  PROVE  Dot(Indicator({k}, n), f) = f[k]
<1> DEFINE u == Indicator({k}, n)
           uf == [i \in 1..n |-> u[i] * f[i]]
           S == [i \in 0..n |-> IF i < k THEN 0 ELSE f[k]]
<1>1. \A i \in 1..n : f[i] \in Int /\ u[i] = IF i = k THEN 1 ELSE 0
  BY DEF Indicator
<1>2. Dot(u, f) = Total(uf)
  <2>1. DOMAIN u = 1..n
    BY DEF Indicator
  <2> HIDE DEF u
  <2> QED BY <2>1 DEF Dot
<1>3. \A i \in 1..n : uf[i] = IF i = k THEN f[k] ELSE 0
  <2>1. \A x \in Int : 1 * x = x /\ 0 * x = 0
    OBVIOUS
  <2> HIDE DEF u
  <2> QED BY <1>1, <2>1
<1>4. uf \in [1..n -> Int]
  <2>1. uf = [i \in 1..n |-> uf[i]]
    OBVIOUS
  <2> HIDE DEF uf
  <2> QED BY <1>1, <1>3, <2>1
<1>5. S \in [0..n -> Int] /\ S[0] = 0 /\ S[n] = f[k]
  OBVIOUS
<1>6. ASSUME NEW i \in 1..n PROVE S[i] = S[i - 1] + uf[i]
  <2>1. i \in 0..n /\ i - 1 \in 0..n
    OBVIOUS
  <2>2. S[i] = (IF i < k THEN 0 ELSE f[k]) /\ S[i - 1] = (IF i - 1 < k THEN 0 ELSE f[k])
    BY <2>1
  <2> HIDE DEF S, uf
  <2>3. f[k] \in Int
    OBVIOUS
  <2> QED BY <1>3, <2>2, <2>3
<1>7. Sums(S, uf, n)
  <2> HIDE DEF S, uf
  <2> QED BY <1>5, <1>6 DEF Sums
<1>8. Total(uf) = S[n]
  <2> HIDE DEF S, uf
  <2> QED BY <1>4, <1>7, TotalOf
<1> QED BY <1>2, <1>5, <1>8

Masked(xs, f) == [i \in DOMAIN f |-> IF i \in xs THEN f[i] ELSE 0]

(* What is centred sums to nothing.                                        *)
LEMMA CentredIs ==
  ASSUME NEW n \in Nat, NEW xs \in SUBSET (1..n), NEW f \in [1..n -> Int]
  PROVE  /\ Centred(xs, f) \in [1..n -> Int] /\ Total(Masked(xs, f)) \in Int
         /\ Masked(xs, f) \in [1..n -> Int]
         /\ \A i \in xs : Centred(xs, f)[i] = Cardinality(xs) * f[i] - Total(Masked(xs, f))
         /\ \A i \in (1..n) \ xs : Centred(xs, f)[i] = 0
         /\ Dot(Centred(xs, f), Indicator(xs, n)) = 0
<1> DEFINE c == Centred(xs, f)
           u == Indicator(xs, n)
           w == Masked(xs, f)
           m == Total(w)
           minus == -m
           N == Cardinality(xs)
<1>1. /\ u \in [1..n -> Int] /\ N \in Int /\ Total(u) = N
      /\ \A i \in 1..n : u[i] = IF i \in xs THEN 1 ELSE 0
  <2>1. u \in [1..n -> Int] /\ N \in Int /\ Total(u) = N
    BY IndicatorCounts
  <2> QED BY <2>1 DEF Indicator
<1>2. w \in [1..n -> Int] /\ \A i \in 1..n : w[i] = IF i \in xs THEN f[i] ELSE 0
  BY DEF Masked
<1>3. m \in Int /\ minus \in Int
  <2> HIDE DEF w
  <2>1. m \in Int
    BY <1>2, TotalIs, TotalOf
  <2> QED BY <2>1
<1>4. c = [i \in 1..n |-> IF i \in xs THEN N * f[i] - m ELSE 0]
  <2>1. m = Total([i \in DOMAIN f |-> IF i \in xs THEN f[i] ELSE 0])
    BY DEF Masked
  <2> HIDE DEF m
  <2> QED BY <2>1 DEF Centred
<1> HIDE DEF c, m, w, u, N
<1>5. c = Comb(N, w, minus, u)
  <2>1. ASSUME NEW i \in 1..n
        PROVE  (IF i \in xs THEN N * f[i] - m ELSE 0) = N * w[i] + minus * u[i]
    <3>1. CASE i \in xs
      <4>1. w[i] = f[i] /\ u[i] = 1 /\ f[i] \in Int
        BY <1>1, <1>2, <3>1
      <4>2. minus * 1 = minus
        BY <1>3
      <4>3. N * f[i] \in Int
        BY <1>1
      <4> QED BY <1>1, <1>3, <3>1, <4>1, <4>2, <4>3
    <3>2. CASE i \notin xs
      <4>1. w[i] = 0 /\ u[i] = 0
        BY <1>1, <1>2, <3>2
      <4>2. minus * 0 = 0 /\ N * 0 = 0
        BY <1>1, <1>3
      <4> QED BY <3>2, <4>1, <4>2
    <3> QED BY <3>1, <3>2
  <2>2. Comb(N, w, minus, u) = [i \in 1..n |-> N * w[i] + minus * u[i]]
    BY <1>2 DEF Comb
  <2> HIDE DEF minus
  <2> QED BY <1>4, <2>1, <2>2
<1>6. c \in [1..n -> Int] /\ Total(c) = N * m + minus * N
  <2> HIDE DEF minus
  <2>1. IsComb(Comb(N, w, minus, u), n, N, w, minus, u)
    BY <1>1, <1>2, <1>3, CombIs
  <2>2. Comb(N, w, minus, u) \in [1..n -> Int]
        /\ Total(Comb(N, w, minus, u)) = N * Total(w) + minus * Total(u)
    BY <2>1 DEF IsComb
  <2> QED BY <1>1, <1>5, <2>2 DEF m
<1>7. Total(c) = 0
  BY <1>1, <1>3, <1>6
<1>8. Dot(c, u) = Total(c)
  <2>1. \A i \in 1..n : c[i] \in Int
    BY <1>6
  <2>2. \A x \in Int : x * 1 = x /\ x * 0 = 0
    OBVIOUS
  <2>3. ASSUME NEW i \in 1..n PROVE c[i] * u[i] = c[i]
    <3>1. CASE i \in xs
      BY <1>1, <2>1, <2>2, <3>1
    <3>2. CASE i \notin xs
      <4>1. c[i] = 0 /\ u[i] = 0
        BY <1>1, <1>4, <3>2
      <4> QED BY <4>1
    <3> QED BY <3>1, <3>2
  <2>4. [i \in 1..n |-> c[i] * u[i]] = c
    BY <1>6, <2>3
  <2>5. Dot(c, u) = Total([i \in 1..n |-> c[i] * u[i]])
    BY <1>6 DEF Dot
  <2> QED BY <2>4, <2>5
<1>9. /\ \A i \in xs : c[i] = N * f[i] - m
      /\ \A i \in (1..n) \ xs : c[i] = 0
  BY <1>4
<1> QED BY <1>2, <1>3, <1>6, <1>7, <1>8, <1>9 DEF c, m, w, u, N

(* The centred values of f over xs, and their offset.                      *)
IsCentred(X, offset, xs, f, n) ==
  /\ X \in [1..n -> Int] /\ offset \in Int
  /\ \A i \in xs : X[i] = Cardinality(xs) * f[i] - offset
  /\ \A i \in (1..n) \ xs : X[i] = 0
  /\ Dot(X, Indicator(xs, n)) = 0

(* CentredIs as one fact.                                                  *)
LEMMA CentredNamed ==
  ASSUME NEW n \in Nat, NEW xs \in SUBSET (1..n), NEW f \in [1..n -> Int]
  PROVE  IsCentred(Centred(xs, f), Total(Masked(xs, f)), xs, f, n)
<1>1. /\ Centred(xs, f) \in [1..n -> Int] /\ Total(Masked(xs, f)) \in Int
      /\ \A i \in xs : Centred(xs, f)[i] = Cardinality(xs) * f[i] - Total(Masked(xs, f))
      /\ \A i \in (1..n) \ xs : Centred(xs, f)[i] = 0
      /\ Dot(Centred(xs, f), Indicator(xs, n)) = 0
  BY CentredIs
<1> QED BY ONLY <1>1 DEF IsCentred

-----------------------------------------------------------------------------
(***************************************************************************)
(* The fitted line: it has a slope, and a slope of no more than one when   *)
(* no doubling of the size more than doubles the cost.                     *)
(***************************************************************************)

Positions(n) == [i \in 1..n |-> i]

(* The parts of a fit, and that two points make a spread.                  *)
LEMMA FitLineIs ==
  ASSUME NEW n \in Nat, NEW xs \in SUBSET (1..n), NEW y \in [1..n -> Int],
         Cardinality(xs) >= 2
  PROVE  LET X == Centred(xs, Positions(n))
             Y == Centred(xs, y)
             L == FitLine(xs, y)
         IN  /\ X \in [1..n -> Int] /\ Y \in [1..n -> Int]
             /\ L.sxx = Dot(X, X) /\ L.sxy = Dot(X, Y) /\ L.syy = Dot(Y, Y)
             /\ Dot(X, X) \in Int /\ Dot(X, Y) \in Int /\ Dot(Y, Y) \in Int
             /\ Dot(X, X) > 0
<1> DEFINE X == Centred(xs, Positions(n))
           Y == Centred(xs, y)
           N == Cardinality(xs)
           m == Total(Masked(xs, Positions(n)))
<1>1. Positions(n) \in [1..n -> Int] /\ \A i \in 1..n : Positions(n)[i] = i
  BY DEF Positions
<1>2. X \in [1..n -> Int] /\ m \in Int /\ \A i \in xs : X[i] = N * Positions(n)[i] - m
  <2>1. IsCentred(X, m, xs, Positions(n), n)
    BY <1>1, CentredNamed
  <2> HIDE DEF X, m
  <2> QED BY ONLY <2>1 DEF IsCentred
<1>3. Y \in [1..n -> Int]
  <2>1. IsCentred(Y, Total(Masked(xs, y)), xs, y, n)
    BY CentredNamed
  <2> HIDE DEF Y
  <2> QED BY ONLY <2>1 DEF IsCentred
<1>4. FitLine(xs, y) = [sxx |-> Dot(X, X), sxy |-> Dot(X, Y), syy |-> Dot(Y, Y)]
  BY DEF FitLine, Positions
<1>5. Dot(X, X) \in Int /\ Dot(X, Y) \in Int /\ Dot(Y, Y) \in Int
  <2> HIDE DEF X, Y
  <2> QED BY <1>2, <1>3, DotSymmetric
<1>6. N \in Nat /\ IsFiniteSet(xs)
  BY IndicatorCounts
<1>7. PICK i \in xs, j \in xs : i # j
  <2>1. ASSUME \A i, j \in xs : i = j PROVE FALSE
    <3>1. CASE xs = {}
      <4>1. Cardinality({}) = 0
        BY FS_EmptySet
      <4> QED BY <3>1, <4>1
    <3>2. CASE xs # {}
      <4>1. PICK a \in xs : TRUE
        BY <3>2
      <4>2. xs = {a}
        BY <2>1
      <4>3. Cardinality({a}) = 1
        BY FS_Singleton
      <4> QED BY <4>2, <4>3
    <3> QED BY <3>1, <3>2
  <2> QED BY <2>1
<1>8. X[i] = N * i - m /\ X[j] = N * j - m /\ i \in Int /\ j \in Int
  BY <1>1, <1>2
<1>9. X[i] # 0 \/ X[j] # 0
  <2> HIDE DEF X, N, m
  <2>1. N \in Int /\ N > 0
    BY <1>6 DEF N
  <2>2. N * i # N * j
    BY <1>7, <1>8, <2>1
  <2>3. N * i \in Int /\ N * j \in Int
    BY <1>8, <2>1
  <2> QED BY <1>2, <1>8, <2>2, <2>3
<1>10. Dot(X, X) > 0
  <2>1. \A k \in 1..n : X[k] \in Int /\ Dot(X, X) >= X[k] * X[k]
    <3> HIDE DEF X
    <3> QED BY <1>2, DotPositive
  <2>2. \A k \in 1..n : X[k] # 0 => X[k] * X[k] > 0 /\ X[k] * X[k] \in Int
    <3> HIDE DEF X
    <3> QED BY <2>1, SquareIsPositive
  <2>3. PICK k \in 1..n : X[k] # 0
    BY <1>9
  <2> HIDE DEF X
  <2> DEFINE q == X[k] * X[k]
  <2>4. q \in Int /\ q > 0 /\ Dot(X, X) >= q
    BY <2>1, <2>2, <2>3
  <2> HIDE DEF q
  <2> QED BY <1>5, <2>4
<1> DEFINE L == FitLine(xs, y)
<1>11. L.sxx = Dot(X, X) /\ L.sxy = Dot(X, Y) /\ L.syy = Dot(Y, Y)
  <2> HIDE DEF X, Y
  <2> QED BY <1>4
<1> HIDE DEF X, Y, L, N, m
<1>12. /\ X \in [1..n -> Int] /\ Y \in [1..n -> Int]
       /\ L.sxx = Dot(X, X) /\ L.sxy = Dot(X, Y) /\ L.syy = Dot(Y, Y)
       /\ Dot(X, X) \in Int /\ Dot(X, Y) \in Int /\ Dot(Y, Y) \in Int
       /\ Dot(X, X) > 0
  BY <1>2, <1>3, <1>5, <1>10, <1>11
<1> QED BY <1>12, Zenon DEF X, Y, L

(* Between two indices what rises by at most one a step rises by no more   *)
(* than their distance.                                                    *)
LEMMA RisesSlowly ==
  ASSUME NEW n \in Nat, NEW y \in [1..n -> Int], \A i \in 2..n : y[i] <= y[i - 1] + 1
  PROVE  \A i, j \in 1..n : i <= j => y[j] - y[i] <= j - i
<1> SUFFICES ASSUME NEW i \in 1..n PROVE \A j \in 1..n : i <= j => y[j] - y[i] <= j - i
  OBVIOUS
<1> DEFINE S == {k \in Nat : i + k <= n => y[i + k] - y[i] <= k}
<1>1. 0 \in S
  OBVIOUS
<1>2. ASSUME NEW k \in Nat, k \in S PROVE k + 1 \in S
  <2> SUFFICES ASSUME i + (k + 1) <= n PROVE y[i + (k + 1)] - y[i] <= k + 1
    OBVIOUS
  <2>1. i + (k + 1) \in 2..n /\ (i + (k + 1)) - 1 = i + k /\ i + k \in 1..n /\ i + (k + 1) \in 1..n
    OBVIOUS
  <2>2. y[i + (k + 1)] <= y[i + k] + 1
    BY <2>1
  <2>3. y[i + k] - y[i] <= k
    BY <1>2, <2>1
  <2>4. y[i] \in Int /\ y[i + k] \in Int /\ y[i + (k + 1)] \in Int
    BY <2>1
  <2> QED BY <2>2, <2>3, <2>4
<1>3. \A k \in Nat : k \in S
  <2> HIDE DEF S
  <2> QED BY <1>1, <1>2, NaturalInduction
<1> SUFFICES ASSUME NEW j \in 1..n, i <= j PROVE y[j] - y[i] <= j - i
  OBVIOUS
<1>4. j - i \in Nat /\ i + (j - i) = j
  OBVIOUS
<1> QED BY <1>3, <1>4

(* An index that parts the indices below the mean from those above it.     *)
LEMMA Pivot ==
  ASSUME NEW n \in Nat, NEW N \in Nat, N > 0, NEW m \in Int, n > 0
  PROVE  \E p \in 1..n : \A i \in 1..n : \/ i <= p /\ N * i <= m
                                         \/ i >= p /\ N * i >= m
<1> DEFINE P == {i \in 1..n : N * i <= m}
<1>1. CASE P = {}
  <2>1. ASSUME NEW i \in 1..n PROVE i >= 1 /\ N * i >= m
    <3>1. ~(N * i <= m)
      BY <1>1
    <3>2. N * i \in Int
      OBVIOUS
    <3> QED BY <3>1, <3>2
  <2>2. 1 \in 1..n
    OBVIOUS
  <2> QED BY <2>1, <2>2
<1>2. CASE P # {}
  <2>1. PICK p \in P : \A j \in P : j <= p
    <3>1. P \in SUBSET (0..n)
      OBVIOUS
    <3> HIDE DEF P
    <3> QED BY <1>2, <3>1, Greatest
  <2>2. ASSUME NEW i \in 1..n, ~(N * i <= m) PROVE i >= p /\ N * i >= m
    <3>1. N * i \in Int /\ N * p \in Int /\ N * p <= m
      OBVIOUS
    <3>2. N * i > N * p
      BY <2>2, <3>1
    <3>3. \A a, b \in Nat : N * a > N * b => a > b
      OBVIOUS
    <3> QED BY <2>2, <3>1, <3>2, <3>3
  <2>3. \A i \in 1..n : N * i <= m => i <= p
    BY <2>1
  <2> QED BY <2>2, <2>3
<1> QED BY <1>1, <1>2

(* No doubling costs more than twice: the slope is at most one.            *)
LEMMA SlopeAtMostOne ==
  ASSUME NEW n \in Nat, NEW xs \in SUBSET (1..n), NEW y \in [1..n -> Int],
         Cardinality(xs) >= 2, \A i \in 2..n : y[i] <= y[i - 1] + 1
  PROVE  FitLine(xs, y).sxy <= FitLine(xs, y).sxx
<1> DEFINE X == Centred(xs, Positions(n))
           Y == Centred(xs, y)
           N == Cardinality(xs)
           m == Total(Masked(xs, Positions(n)))
           k == Total(Masked(xs, y))
           u == Indicator(xs, n)
<1>1. /\ X \in [1..n -> Int] /\ m \in Int /\ Dot(X, u) = 0
      /\ \A i \in xs : X[i] = N * i - m
      /\ \A i \in (1..n) \ xs : X[i] = 0
  <2>1. Positions(n) \in [1..n -> Int] /\ \A i \in 1..n : Positions(n)[i] = i
    BY DEF Positions
  <2>2. /\ X \in [1..n -> Int] /\ m \in Int /\ Dot(X, u) = 0
        /\ \A i \in xs : X[i] = N * Positions(n)[i] - m
        /\ \A i \in (1..n) \ xs : X[i] = 0
    <3>1. IsCentred(X, m, xs, Positions(n), n)
      BY <2>1, CentredNamed
    <3> HIDE DEF X, m
    <3> QED BY ONLY <3>1 DEF IsCentred
  <2> HIDE DEF X, N, m, u
  <2> QED BY <2>1, <2>2
<1>2. /\ Y \in [1..n -> Int] /\ k \in Int
      /\ \A i \in xs : Y[i] = N * y[i] - k
  <2>1. IsCentred(Y, k, xs, y, n)
    BY CentredNamed
  <2> HIDE DEF Y, k
  <2> QED BY ONLY <2>1 DEF IsCentred
<1>3. /\ FitLine(xs, y).sxx = Dot(X, X) /\ FitLine(xs, y).sxy = Dot(X, Y)
      /\ Dot(X, X) \in Int /\ Dot(X, Y) \in Int
  BY FitLineIs
<1>4. N \in Nat /\ N > 0 /\ u \in [1..n -> Int] /\ \A i \in xs : u[i] = 1
  <2>1. N \in Nat /\ u \in [1..n -> Int]
    BY IndicatorCounts
  <2> QED BY <2>1 DEF Indicator
<1>5. n > 0
  <2>1. CASE n = 0
    <3>1. xs = {} /\ Cardinality({}) = 0
      BY <2>1, FS_EmptySet
    <3> QED BY <3>1
  <2> QED BY <2>1
<1> HIDE DEF X, Y, N, m, k, u
<1>6. PICK p \in 1..n : \A i \in 1..n : (i <= p /\ N * i <= m) \/ (i >= p /\ N * i >= m)
  BY <1>1, <1>4, <1>5, Pivot
<1> DEFINE h == Comb(1, X, -1, Y)
           c == (m - k) - N * (p - y[p])
           g == Comb(1, h, c, u)
<1>7. c \in Int /\ -1 \in Int /\ 1 \in Int /\ y[p] \in Int
  BY <1>1, <1>2, <1>4
<1>8. /\ h \in [1..n -> Int] /\ \A i \in 1..n : h[i] = X[i] - Y[i]
      /\ \A z \in [1..n -> Int] : Dot(h, z) = 1 * Dot(X, z) + (-1) * Dot(Y, z)
  <2> DEFINE minus == -1
  <2>1. minus \in Int /\ 1 \in Int /\ X \in [1..n -> Int] /\ Y \in [1..n -> Int]
    BY <1>1, <1>2
  <2>2. /\ Comb(1, X, minus, Y) \in [1..n -> Int]
        /\ \A i \in 1..n : Comb(1, X, minus, Y)[i] = 1 * X[i] + minus * Y[i]
        /\ \A z \in [1..n -> Int] : Dot(Comb(1, X, minus, Y), z) = 1 * Dot(X, z) + minus * Dot(Y, z)
    <3> DEFINE one == 1
    <3>1. one \in Int
      OBVIOUS
    <3>2. IsComb(Comb(one, X, minus, Y), n, one, X, minus, Y)
      <4> HIDE DEF minus, one
      <4> QED BY <2>1, <3>1, CombIs
    <3> QED BY <3>2 DEF IsComb
  <2>3. ASSUME NEW i \in 1..n PROVE h[i] = X[i] - Y[i]
    <3>1. X[i] \in Int /\ Y[i] \in Int
      BY <1>1, <1>2
    <3>2. h[i] = 1 * X[i] + (-1) * Y[i]
      BY <2>2
    <3> HIDE DEF h
    <3> QED BY <3>1, <3>2
  <2> QED BY <2>2, <2>3
<1> HIDE DEF h, c
<1>9. /\ g \in [1..n -> Int] /\ \A i \in xs : g[i] = (X[i] - Y[i]) + c
      /\ \A z \in [1..n -> Int] : Dot(g, z) = 1 * Dot(h, z) + c * Dot(u, z)
  <2>0. 1 \in Int /\ c \in Int /\ h \in [1..n -> Int] /\ u \in [1..n -> Int]
    BY <1>4, <1>7, <1>8
  <2>1. /\ g \in [1..n -> Int]
        /\ \A i \in 1..n : g[i] = 1 * h[i] + c * u[i]
        /\ \A z \in [1..n -> Int] : Dot(g, z) = 1 * Dot(h, z) + c * Dot(u, z)
    <3> DEFINE one == 1
    <3>1. one \in Int
      OBVIOUS
    <3>2. IsComb(Comb(one, h, c, u), n, one, h, c, u)
      <4> HIDE DEF one
      <4> QED BY <2>0, <3>1, CombIs
    <3> QED BY <3>2 DEF IsComb
  <2>2. ASSUME NEW i \in xs PROVE g[i] = (X[i] - Y[i]) + c
    <3>1. X[i] \in Int /\ Y[i] \in Int /\ h[i] = X[i] - Y[i] /\ u[i] = 1
      BY <1>1, <1>2, <1>4, <1>8
    <3>2. g[i] = 1 * h[i] + c * u[i]
      BY <2>1
    <3>3. c * 1 = c
      BY <1>7
    <3> HIDE DEF g
    <3> QED BY <1>7, <3>1, <3>2, <3>3
  <2> QED BY <2>1, <2>2
<1> HIDE DEF g
<1>10. ASSUME NEW i \in 1..n PROVE g[i] * X[i] \in Int /\ g[i] * X[i] >= 0
  <2>1. g[i] \in Int /\ X[i] \in Int
    BY <1>1, <1>9
  <2>2. CASE i \notin xs
    <3>1. X[i] = 0 /\ g[i] * 0 = 0
      BY <1>1, <2>1, <2>2
    <3> QED BY <3>1
  <2>3. CASE i \in xs
    <3> DEFINE s == (i - y[i]) - (p - y[p])
    <3>1. y[i] \in Int /\ s \in Int
      BY <1>7
    <3>2. g[i] = N * s
      <4>1. g[i] = ((N * i - m) - (N * y[i] - k)) + ((m - k) - N * (p - y[p]))
        BY <1>1, <1>2, <1>9, <2>3 DEF c
      <4>2. \A a, b \in Int : N * (a - b) = N * a - N * b /\ N * a \in Int
        BY <1>4
      <4>3. N * (p - y[p]) = N * p - N * y[p]
        BY <1>7, <4>2
      <4>4. N * s = (N * i - N * y[i]) - (N * p - N * y[p])
        <5>1. i - y[i] \in Int /\ p - y[p] \in Int
          BY <1>7, <3>1
        <5>2. N * s = N * (i - y[i]) - N * (p - y[p])
          BY <4>2, <5>1
        <5>3. N * (i - y[i]) = N * i - N * y[i]
          BY <3>1, <4>2
        <5> QED BY <4>3, <5>2, <5>3
      <4>5. N * i \in Int /\ N * y[i] \in Int /\ N * p \in Int /\ N * y[p] \in Int
        <5>1. \A a \in Int : N * a \in Int
          BY <1>4
        <5> QED BY <1>7, <3>1, <5>1
      <4> HIDE DEF s
      <4> QED BY <1>1, <1>2, <4>1, <4>3, <4>4, <4>5
    <3>3. X[i] = N * i - m /\ N * i \in Int
      BY <1>1, <1>4, <2>3
    <3>4. CASE i <= p /\ N * i <= m
      <4>1. y[p] - y[i] <= p - i
        BY <3>4, RisesSlowly
      <4>2. s <= 0 /\ X[i] <= 0
        BY <1>1, <1>7, <3>1, <3>3, <3>4, <4>1
      <4> HIDE DEF s
      <4>3. N * s <= 0
        BY <1>4, <3>1, <4>2
      <4>4. \A a, b \in Int : a <= 0 /\ b <= 0 => a * b \in Int /\ a * b >= 0
        OBVIOUS
      <4> QED BY <2>1, <3>2, <4>2, <4>3, <4>4
    <3>5. CASE i >= p /\ N * i >= m
      <4>1. y[i] - y[p] <= i - p
        BY <3>5, RisesSlowly
      <4>2. s >= 0 /\ X[i] >= 0
        BY <1>1, <1>7, <3>1, <3>3, <3>5, <4>1
      <4> HIDE DEF s
      <4>3. N * s >= 0
        BY <1>4, <3>1, <4>2
      <4>4. \A a, b \in Int : a >= 0 /\ b >= 0 => a * b \in Int /\ a * b >= 0
        OBVIOUS
      <4> QED BY <2>1, <3>2, <4>2, <4>3, <4>4
    <3> QED BY <1>6, <3>4, <3>5
  <2> QED BY <2>2, <2>3
<1>11. Dot(g, X) >= 0
  <2> DEFINE gX == [i \in 1..n |-> g[i] * X[i]]
  <2>1. gX \in [1..n -> Int] /\ \A i \in 1..n : gX[i] >= 0
    BY <1>10
  <2>2. Dot(g, X) = Total(gX)
    BY <1>9 DEF Dot
  <2> HIDE DEF gX
  <2> QED BY <2>1, <2>2, TotalCovers
<1>12. Dot(u, X) = 0 /\ Dot(Y, X) = Dot(X, Y)
  BY <1>1, <1>2, <1>4, DotSymmetric
<1>13. Dot(g, X) = 1 * (1 * Dot(X, X) + (-1) * Dot(X, Y)) + c * 0
  BY <1>1, <1>8, <1>9, <1>12
<1>14. c * 0 = 0
  BY <1>7
<1> QED BY <1>3, <1>11, <1>13, <1>14

-----------------------------------------------------------------------------
(***************************************************************************)
(* What a line through at most five points says of its ends: the spread of *)
(* the sizes against the distance of the first and the last of them, and   *)
(* then the rise against the slope.                                        *)
(***************************************************************************)

(* Twice the distance of an index from the middle of first and last.       *)
Offset(i, first, last) == 2 * i - (first + last)

(* How far the middle of at most five points can add to the spread.        *)
Slack(m) == IF m <= 2 THEN 0 ELSE m - 2

(* The squares of the offsets between first and last, summed.              *)
LEMMA OffsetsOfFive ==
  ASSUME NEW n \in 1..5, NEW first \in 1..n, NEW last \in 1..n, first < last,
         NEW f \in [1..n -> Int],
         \A i \in 1..n : f[i] <= (IF first <= i /\ i <= last
                                  THEN Offset(i, first, last) * Offset(i, first, last) ELSE 0)
  PROVE  LET m == last - first
         IN  Total(f) <= 2 * (m * m) + 2 * (Slack(m) * Slack(m))
<1> DEFINE m == last - first
           Within(v) == v <= 2 * (m * m) + 2 * (Slack(m) * Slack(m))
           sq(i) == IF first <= i /\ i <= last
                    THEN Offset(i, first, last) * Offset(i, first, last) ELSE 0
<1>1. PICK S : Sums(S, f, n) /\ Total(f) = S[n]
  BY TotalIs
<1>2. /\ S[0] = 0
      /\ \A i \in 1..n : S[i] <= S[i - 1] + sq(i) /\ S[i] \in Int /\ S[i - 1] \in Int
  <2>1. \A i \in 1..n : i \in 0..n /\ i - 1 \in 0..n
    OBVIOUS
  <2>2. \A i \in 1..n : S[i] = S[i - 1] + f[i] /\ S[i] \in Int /\ S[i - 1] \in Int
    BY <1>1, <2>1 DEF Sums
  <2>3. \A i \in 1..n : f[i] <= sq(i) /\ f[i] \in Int
    OBVIOUS
  <2>4. \A i \in 1..n : sq(i) \in Int
    BY DEF Offset
  <2>5. S[0] = 0
    BY <1>1 DEF Sums
  <2> HIDE DEF sq
  <2> QED BY <2>2, <2>3, <2>4, <2>5
<1>3. ASSUME NEW a \in 1..5, NEW b \in 1..5, a < b, first = a, last = b
      PROVE  Within(sq(1) + sq(2) + sq(3) + sq(4) + sq(5))
  BY <1>3 DEF Offset, Slack
<1>4. Within(sq(1) + sq(2) + sq(3) + sq(4) + sq(5))
  <2>1. first \in 1..5 /\ last \in 1..5
    OBVIOUS
  <2> QED BY <1>3, <2>1
<1>5. \A i \in 1..5 : sq(i) \in Int /\ sq(i) >= 0
  <2> SUFFICES ASSUME NEW i \in 1..5 PROVE sq(i) \in Int /\ sq(i) >= 0
    OBVIOUS
  <2>1. Offset(i, first, last) \in Int
    BY DEF Offset
  <2> QED BY <2>1, SquareIsPositive
<1>6. m \in Int /\ 2 * (m * m) + 2 * (Slack(m) * Slack(m)) \in Int
  BY DEF Slack
<1> HIDE DEF sq
<1>7. S[n] \in Int /\ S[n] <= sq(1) + sq(2) + sq(3) + sq(4) + sq(5)
  <2>1. ASSUME NEW i \in 1..n
        PROVE  S[i] <= S[i - 1] + sq(i) /\ S[i] \in Int /\ S[i - 1] \in Int
    BY <1>2
  <2>2. S[1] <= sq(1) /\ S[1] \in Int
    <3>1. 1 \in 1..n /\ 1 - 1 = 0
      OBVIOUS
    <3>2. S[1] <= S[0] + sq(1) /\ S[1] \in Int
      BY <2>1, <3>1
    <3>3. sq(1) \in Int
      BY <1>5
    <3> QED BY <1>2, <3>2, <3>3
  <2>3. n >= 2 => S[2] <= S[1] + sq(2) /\ S[2] \in Int
    BY <2>1
  <2>4. n >= 3 => S[3] <= S[2] + sq(3) /\ S[3] \in Int
    BY <2>1
  <2>5. n >= 4 => S[4] <= S[3] + sq(4) /\ S[4] \in Int
    BY <2>1
  <2>6. n >= 5 => S[5] <= S[4] + sq(5) /\ S[5] \in Int
    BY <2>1
  <2> DEFINE q1 == sq(1)
             q2 == sq(2)
             q3 == sq(3)
             q4 == sq(4)
             q5 == sq(5)
             s1 == S[1]
             s2 == S[2]
             s3 == S[3]
             s4 == S[4]
             s5 == S[5]
  <2>7. /\ q1 \in Int /\ q2 \in Int /\ q3 \in Int /\ q4 \in Int /\ q5 \in Int
        /\ q1 >= 0 /\ q2 >= 0 /\ q3 >= 0 /\ q4 >= 0 /\ q5 >= 0
    BY <1>5
  <2>8. /\ s1 <= q1 /\ s1 \in Int
        /\ n >= 2 => s2 <= s1 + q2 /\ s2 \in Int
        /\ n >= 3 => s3 <= s2 + q3 /\ s3 \in Int
        /\ n >= 4 => s4 <= s3 + q4 /\ s4 \in Int
        /\ n >= 5 => s5 <= s4 + q5 /\ s5 \in Int
    BY <2>2, <2>3, <2>4, <2>5, <2>6
  <2>9. \/ n = 1 /\ S[n] = s1
        \/ n = 2 /\ S[n] = s2
        \/ n = 3 /\ S[n] = s3
        \/ n = 4 /\ S[n] = s4
        \/ n = 5 /\ S[n] = s5
    OBVIOUS
  <2> DEFINE sn == S[n]
  <2> HIDE DEF q1, q2, q3, q4, q5, s1, s2, s3, s4, s5
  <2>10. sn \in Int /\ sn <= q1 + q2 + q3 + q4 + q5
    <3> HIDE DEF sn
    <3>1. \/ n = 1 /\ sn = s1
          \/ n = 2 /\ sn = s2
          \/ n = 3 /\ sn = s3
          \/ n = 4 /\ sn = s4
          \/ n = 5 /\ sn = s5
      BY <2>9 DEF sn
    <3> QED BY <2>7, <2>8, <3>1
  <2> QED BY <2>10 DEF q1, q2, q3, q4, q5
<1> HIDE DEF m
<1>8. \A i \in 1..5 : sq(i) \in Int
  BY <1>5
<1>9. Total(f) <= 2 * (m * m) + 2 * (Slack(m) * Slack(m))
  BY <1>1, <1>4, <1>6, <1>7, <1>8
<1> QED BY <1>9 DEF m

(* The spread of at most five points, against the distance of the ends.    *)
LEMMA SpreadOfFive ==
  ASSUME NEW n \in 1..5, NEW xs \in SUBSET (1..n), Cardinality(xs) >= 2,
         NEW first \in xs, NEW last \in xs, first < last,
         \A i \in xs : first <= i /\ i <= last
  PROVE  LET X == Centred(xs, Positions(n))
             N == Cardinality(xs)
             m == last - first
         IN  2 * Dot(X, X) <= (N * N) * (m * m + Slack(m) * Slack(m))
<1> DEFINE X == Centred(xs, Positions(n))
           N == Cardinality(xs)
           m == last - first
           k == Total(Masked(xs, Positions(n)))
           u == Indicator(xs, n)
           W == [i \in 1..n |-> IF i \in xs THEN Offset(i, first, last) ELSE 0]
           bound == 2 * (m * m) + 2 * (Slack(m) * Slack(m))
<1>1. n \in Nat /\ Positions(n) \in [1..n -> Int] /\ \A i \in 1..n : Positions(n)[i] = i
  BY DEF Positions
<1>2. /\ X \in [1..n -> Int] /\ k \in Int /\ Dot(X, u) = 0
      /\ \A i \in xs : X[i] = N * i - k
      /\ \A i \in (1..n) \ xs : X[i] = 0
  <2>1. /\ X \in [1..n -> Int] /\ k \in Int /\ Dot(X, u) = 0
        /\ \A i \in xs : X[i] = N * Positions(n)[i] - k
        /\ \A i \in (1..n) \ xs : X[i] = 0
    <3>1. IsCentred(X, k, xs, Positions(n), n)
      BY <1>1, CentredNamed
    <3> HIDE DEF X, k
    <3> QED BY ONLY <3>1 DEF IsCentred
  <2> HIDE DEF X, N, k, u
  <2> QED BY <1>1, <2>1
<1>3. Dot(X, X) \in Int /\ Dot(X, X) > 0
  BY <1>1, FitLineIs
<1>4. N \in Nat /\ u \in [1..n -> Int] /\ \A i \in 1..n : u[i] = IF i \in xs THEN 1 ELSE 0
  <2>1. N \in Nat /\ u \in [1..n -> Int]
    BY <1>1, IndicatorCounts
  <2> QED BY <2>1 DEF Indicator
<1>5. first \in 1..n /\ last \in 1..n /\ m \in Int
  OBVIOUS
<1>6. /\ W \in [1..n -> Int]
      /\ \A i \in 1..n : W[i] = IF i \in xs THEN Offset(i, first, last) ELSE 0
  <2>1. \A i \in 1..n : Offset(i, first, last) \in Int
    BY <1>5 DEF Offset
  <2> QED BY <2>1
<1>7. Dot(W, W) \in Int /\ Dot(W, W) <= bound
  <2> DEFINE f == [i \in 1..n |-> W[i] * W[i]]
  <2>1. f \in [1..n -> Int]
    <3>1. \A i \in 1..n : W[i] \in Int
      BY <1>6
    <3> HIDE DEF W
    <3>2. \A i \in 1..n : W[i] * W[i] \in Int
      BY <3>1, SquareIsPositive
    <3> QED BY <3>2
  <2>2. ASSUME NEW i \in 1..n
        PROVE  f[i] <= (IF first <= i /\ i <= last
                        THEN Offset(i, first, last) * Offset(i, first, last) ELSE 0)
    <3>1. Offset(i, first, last) \in Int
      BY <1>5 DEF Offset
    <3>2. Offset(i, first, last) * Offset(i, first, last) \in Int
          /\ Offset(i, first, last) * Offset(i, first, last) >= 0
      BY <3>1, SquareIsPositive
    <3>3. CASE i \in xs
      <4>1. f[i] = Offset(i, first, last) * Offset(i, first, last) /\ first <= i /\ i <= last
        BY <1>6, <3>3
      <4> HIDE DEF f, W
      <4> QED BY <3>2, <4>1
    <3>4. CASE i \notin xs
      <4>1. f[i] = 0 * 0
        BY <1>6, <3>4
      <4> HIDE DEF f, W
      <4> QED BY <3>2, <4>1
    <3> QED BY <3>3, <3>4
  <2>3. Dot(W, W) = Total(f)
    BY <1>6 DEF Dot
  <2> HIDE DEF f, W
  <2>4. Total(f) <= bound
    BY <1>5, <2>1, <2>2, OffsetsOfFive
  <2>5. Dot(W, W) \in Int
    BY <1>1, <1>6, DotSymmetric
  <2> QED BY <2>3, <2>4, <2>5
<1> HIDE DEF X, N, k, u, W
<1> DEFINE s == N * (first + last) - 2 * k
           Z == Comb(N, W, s, u)
<1>8. s \in Int /\ N \in Int
  BY <1>2, <1>4, <1>5
<1>9. IsComb(Z, n, N, W, s, u)
  <2> HIDE DEF s
  <2> QED BY <1>1, <1>4, <1>6, <1>8, CombIs
<1>10. Comb(2, X, 0, X) = Z
  <2>1. ASSUME NEW i \in 1..n PROVE 2 * X[i] + 0 * X[i] = N * W[i] + s * u[i]
    <3>1. X[i] \in Int
      BY <1>2
    <3>2. CASE i \in xs
      <4>1. W[i] = 2 * i - (first + last) /\ u[i] = 1 /\ X[i] = N * i - k
        BY <1>2, <1>4, <1>6, <3>2 DEF Offset
      <4>2. N * (2 * i - (first + last)) = 2 * (N * i) - N * (first + last)
        <5>1. i \in Int /\ first + last \in Int
          BY <1>5
        <5>2. \A a, b \in Int : N * (2 * a - b) = 2 * (N * a) - N * b
          BY <1>8
        <5> QED BY <5>1, <5>2
      <4>3. N * i \in Int /\ N * (first + last) \in Int
        BY <1>5, <1>8
      <4> QED BY <1>2, <3>1, <4>1, <4>2, <4>3
    <3>3. CASE i \notin xs
      <4>1. W[i] = 0 /\ u[i] = 0 /\ X[i] = 0
        BY <1>2, <1>4, <1>6, <3>3
      <4>2. N * 0 = 0 /\ s * 0 = 0
        BY <1>8
      <4> QED BY <4>1, <4>2
    <3> QED BY <3>2, <3>3
  <2>2. Comb(2, X, 0, X) = [i \in 1..n |-> 2 * X[i] + 0 * X[i]]
    BY <1>2 DEF Comb
  <2>3. Z = [i \in 1..n |-> N * W[i] + s * u[i]]
    BY <1>6 DEF Comb
  <2> HIDE DEF Z, s
  <2> QED BY <2>1, <2>2, <2>3
<1>11. Dot(Comb(2, X, 0, X), X) = 2 * Dot(X, X) + 0 * Dot(X, X)
  <2> DEFINE two == 2
             none == 0
  <2>1. two \in Int /\ none \in Int
    OBVIOUS
  <2>2. IsComb(Comb(two, X, none, X), n, two, X, none, X)
    <3> HIDE DEF two, none
    <3> QED BY <1>1, <1>2, <2>1, CombIs
  <2> QED BY <1>2, <2>2 DEF IsComb
<1>12. Dot(Z, X) = N * Dot(W, X) + s * Dot(u, X)
  BY <1>2, <1>9 DEF IsComb
<1>13. Dot(u, X) = 0 /\ Dot(W, X) = Dot(X, W) /\ Dot(X, W) \in Int
  <2>1. \A f, g \in [1..n -> Int] : Dot(f, g) \in Int /\ Dot(f, g) = Dot(g, f)
    BY <1>1, DotSymmetric
  <2>2. X \in [1..n -> Int] /\ u \in [1..n -> Int] /\ W \in [1..n -> Int] /\ Dot(X, u) = 0
    BY <1>2, <1>4, <1>6
  <2>3. Dot(u, X) = Dot(X, u) /\ Dot(W, X) = Dot(X, W) /\ Dot(X, W) \in Int
    BY <2>1, <2>2, Zenon
  <2> QED BY <2>2, <2>3
<1> DEFINE A == Dot(X, X)
           B == Dot(X, W)
           C == Dot(W, W)
<1>14. 2 * A = N * B
  <2>1. s * 0 = 0
    BY <1>8
  <2>2. 2 * A + 0 * A = N * B + 0
    BY <1>10, <1>11, <1>12, <1>13, <2>1
  <2> HIDE DEF A, B
  <2>3. N * B \in Int
    BY <1>8, <1>13 DEF B
  <2> QED BY <1>3, <2>2, <2>3 DEF A
<1>15. B * B <= A * C
  BY <1>1, <1>2, <1>6, CauchySchwarz
<1> HIDE DEF A, B, C
<1>16. 2 * A <= (N * N) * (m * m + Slack(m) * Slack(m))
  <2>1. A \in Int /\ A > 0 /\ B \in Int /\ C \in Int /\ C <= bound
    BY <1>3, <1>7, <1>13 DEF A, B, C
  <2> DEFINE q == N * N
             r == m * m + Slack(m) * Slack(m)
  <2>2. q \in Int /\ q >= 0 /\ r \in Int /\ bound = 2 * r
    <3>1. m * m \in Int /\ Slack(m) * Slack(m) \in Int
      BY <1>5 DEF Slack
    <3>2. q \in Int /\ q >= 0
      BY <1>8, SquareIsPositive
    <3> QED BY <3>1, <3>2
  <2>3. 4 * (A * A) = q * (B * B)
    <3>1. (2 * A) * (2 * A) = (N * B) * (N * B)
      BY <1>14
    <3>2. (2 * A) * (2 * A) = 4 * (A * A) /\ (N * B) * (N * B) = q * (B * B)
      BY <1>8, <2>1
    <3> QED BY <3>1, <3>2
  <2>4. q * (B * B) <= q * (A * C)
    <3>1. B * B \in Int /\ A * C \in Int
      BY <2>1
    <3>2. \A a, b \in Int : a <= b => q * a <= q * b
      <4> HIDE DEF q
      <4> QED BY <2>2
    <3> HIDE DEF q
    <3> QED BY <1>15, <3>1, <3>2
  <2>5. 4 * (A * A) <= A * (q * C)
    <3>1. q * (A * C) = A * (q * C)
      <4> HIDE DEF q
      <4> QED BY <2>1, <2>2
    <3> QED BY <2>3, <2>4, <3>1
  <2> HIDE DEF q, r, bound, m
  <2>6. 4 * A <= q * C
    <3>1. 4 * (A * A) = A * (4 * A)
      BY <2>1
    <3>2. A * (4 * A) <= A * (q * C)
      BY <2>5, <3>1
    <3>3. 4 * A \in Int /\ q * C \in Int
      BY <2>1, <2>2
    <3>4. \A a, b \in Int : A * a <= A * b => a <= b
      BY <2>1
    <3> QED BY <3>2, <3>3, <3>4
  <2>7. q * C <= q * (2 * r)
    <3>1. \A a, b \in Int : a <= b => q * a <= q * b
      BY <2>2
    <3>2. 2 * r \in Int
      BY <2>2
    <3> QED BY <2>1, <2>2, <3>1, <3>2
  <2>8. q * (2 * r) = 2 * (q * r) /\ q * r \in Int /\ q * C \in Int
    BY <2>1, <2>2
  <2>9. 2 * A <= q * r
    BY <2>1, <2>6, <2>7, <2>8
  <2> QED BY <2>9 DEF q, r
<1> QED BY <1>16 DEF A, X, N, m

(* Products against a square keep the order of what is squared.            *)
LEMMA RootsInOrder ==
  ASSUME NEW a \in Int, NEW b \in Int, b >= 0, a * a <= b * b
  PROVE  a <= b
<1>1. CASE a <= 0
  BY <1>1
<1>2. CASE a > 0
  <2>1. ASSUME a > b PROVE FALSE
    <3>1. a * a >= a * (b + 1)
      <4>1. \A x, y \in Int : x <= y => a * x <= a * y
        BY <1>2
      <4> QED BY <2>1, <4>1
    <3>2. a * (b + 1) = a * b + a /\ a * b \in Int
      OBVIOUS
    <3>3. a * b >= b * b
      <4>1. \A x, y \in Int : x <= y => b * x <= b * y
        OBVIOUS
      <4>2. b * b <= b * a /\ b * a = a * b
        BY <2>1, <4>1
      <4> QED BY <4>2
    <3>4. a * a \in Int /\ b * b \in Int
      OBVIOUS
    <3> QED BY <1>2, <3>1, <3>2, <3>3, <3>4
  <2> QED BY <2>1
<1> QED BY <1>1, <1>2

(* With a line that fits to nine tenths, what the ends rise by follows the *)
(* slope but for the slack.                                                *)
LEMMA RiseByNumbers ==
  ASSUME NEW N \in Int, N > 0, NEW m \in 1..4, NEW R \in Int,
         NEW A \in Int, A > 0, NEW B \in Int, NEW C \in Int,
         B * B <= A * C,
         NEW d \in Int, d = A * (N * R) - B * (N * m),
         d * d <= (A * C - B * B) * (A * 2 - (N * m) * (N * m)),
         2 * A <= (N * N) * (m * m + Slack(m) * Slack(m)),
         10 * B < 13 * A, 10 * (B * B) >= 9 * (A * C)
  PROVE  2 * R <= 3 * m
<1> DEFINE q == Slack(m)
           P == A * C - B * B
           K == A * 2 - (N * m) * (N * m)
           e == A * R - B * m
           NN == N * N
<1>1. q \in 0..2 /\ 3 * m >= q
  BY DEF Slack
<1>2. P \in Int /\ P >= 0 /\ K \in Int /\ e \in Int /\ NN \in Int /\ NN > 0
  <2>1. A * C \in Int /\ B * B \in Int /\ A * 2 \in Int /\ A * R \in Int /\ B * m \in Int
    OBVIOUS
  <2>2. N * m \in Int /\ \A x \in Int : x * x \in Int
    OBVIOUS
  <2>3. NN > 0
    <3>1. N # 0
      OBVIOUS
    <3> QED BY <3>1, SquareIsPositive
  <2> QED BY <2>1, <2>2, <2>3
<1>3. 9 * P <= B * B
  <2>1. A * C \in Int /\ B * B \in Int
    OBVIOUS
  <2> QED BY <2>1
<1>4. K <= NN * (q * q)
  <2>1. (N * m) * (N * m) = NN * (m * m)
    OBVIOUS
  <2>2. NN * (m * m + q * q) = NN * (m * m) + NN * (q * q)
    <3>1. m * m \in Int /\ q * q \in Int
      BY <1>1
    <3> DEFINE mm == m * m
               qq == q * q
    <3>2. mm \in Int /\ qq \in Int
      BY <3>1
    <3> HIDE DEF mm, qq, NN
    <3>3. NN * (mm + qq) = NN * mm + NN * qq
      BY <1>2, <3>2
    <3> QED BY <3>3 DEF mm, qq
  <2>3. NN * (m * m) \in Int /\ NN * (q * q) \in Int /\ A * 2 = 2 * A
    <3>1. m * m \in Int /\ q * q \in Int
      BY <1>1
    <3> HIDE DEF NN, q
    <3> QED BY <1>2, <3>1
  <2> DEFINE s == NN * (m * m)
             t == NN * (q * q)
  <2>4. 2 * A <= s + t /\ K = 2 * A - s /\ s \in Int /\ t \in Int
    <3>1. 2 * A <= s + t
      BY <2>2
    <3>2. K = 2 * A - s
      BY <2>1, <2>3
    <3> QED BY <2>3, <3>1, <3>2
  <2> HIDE DEF s, t, K
  <2>5. K <= t
    BY <2>4
  <2> QED BY <2>5 DEF t
<1>5. d = N * e
  <2>1. A * (N * R) = N * (A * R) /\ B * (N * m) = N * (B * m)
    OBVIOUS
  <2>2. N * (A * R - B * m) = N * (A * R) - N * (B * m)
    <3>1. A * R \in Int /\ B * m \in Int
      OBVIOUS
    <3>2. \A x, y \in Int : N * (x - y) = N * x - N * y
      OBVIOUS
    <3> QED BY <3>1, <3>2
  <2> QED BY <2>1, <2>2
<1>6. d * d <= P * K
  OBVIOUS
<1> HIDE DEF P, K, e, q
<1>7. 9 * (NN * (e * e)) <= (B * B) * (NN * (q * q))
  <2>1. d * d = NN * (e * e)
    BY <1>2, <1>5
  <2> HIDE DEF NN
  <2> DEFINE b == B * B
             r == NN * (q * q)
             f == NN * (e * e)
  <2>2. b \in Int /\ b >= 0 /\ r \in Int /\ r >= 0 /\ f \in Int
    <3>1. b \in Int /\ b >= 0
      BY SquareIsPositive
    <3>2. q * q \in Int /\ q * q >= 0
      BY <1>1, SquareIsPositive
    <3>3. e * e \in Int
      BY <1>2
    <3> QED BY <1>2, <3>1, <3>2, <3>3
  <2>3. K <= r
    BY <1>4
  <2>4. f <= P * K
    BY <1>6, <2>1
  <2> HIDE DEF b, r, f
  <2>5. P * K <= P * r
    <3>1. \A x, y \in Int : x <= y => P * x <= P * y
      BY <1>2
    <3> QED BY <1>2, <2>2, <2>3, <3>1
  <2>6. 9 * (P * r) <= b * r
    <3>1. \A x, y \in Int : x <= y => x * r <= y * r
      BY <2>2
    <3>2. (9 * P) * r <= b * r
      <4>1. 9 * P <= b /\ 9 * P \in Int
        BY <1>2, <1>3 DEF b
      <4> QED BY <2>2, <3>1, <4>1
    <3>3. (9 * P) * r = 9 * (P * r)
      BY <1>2, <2>2
    <3> QED BY <3>2, <3>3
  <2>7. P * K \in Int /\ P * r \in Int /\ b * r \in Int
    BY <1>2, <2>2
  <2>8. 9 * f <= b * r
    BY <2>2, <2>4, <2>5, <2>6, <2>7
  <2> QED BY <2>8 DEF b, r, f
<1>8. (3 * e) * (3 * e) <= (q * B) * (q * B)
  <2> HIDE DEF NN
  <2>1. 9 * (NN * (e * e)) = NN * ((3 * e) * (3 * e))
    BY <1>2
  <2>2. (B * B) * (NN * (q * q)) = NN * ((q * B) * (q * B))
    BY <1>1, <1>2
  <2>3. NN * ((3 * e) * (3 * e)) <= NN * ((q * B) * (q * B))
    BY <1>7, <2>1, <2>2
  <2>4. (3 * e) * (3 * e) \in Int /\ (q * B) * (q * B) \in Int
    BY <1>1, <1>2
  <2>5. \A x, y \in Int : NN * x <= NN * y => x <= y
    BY <1>2
  <2> QED BY <2>3, <2>4, <2>5
<1>9. 3 * e = 3 * (A * R) - 3 * (B * m) /\ A * R \in Int /\ B * m \in Int
  BY DEF e
<1>10. CASE B >= 0
  <2>1. 3 * e <= q * B
    <3>1. q * B \in Int /\ q * B >= 0
      BY <1>1, <1>10
    <3>2. 3 * e \in Int
      BY <1>2
    <3> DEFINE x == 3 * e
               z == q * B
    <3> HIDE DEF x, z
    <3>3. x \in Int /\ z \in Int /\ z >= 0 /\ x * x <= z * z
      BY <1>8, <3>1, <3>2 DEF x, z
    <3>4. x <= z
      BY <3>3, RootsInOrder
    <3> QED BY <3>4 DEF x, z
  <2>2. 3 * (A * R) <= B * (3 * m + q)
    <3>1. B * (3 * m + q) = 3 * (B * m) + q * B /\ q * B \in Int
      BY <1>1
    <3> QED BY <1>9, <2>1, <3>1
  <2> DEFINE c == 3 * m + q
  <2>3. c \in Nat /\ c > 0
    BY <1>1
  <2> HIDE DEF c
  <2>4. (10 * B) * c < (13 * A) * c
    BY <2>3
  <2>5. A * (30 * R) < A * (13 * c)
    <3>1. (10 * B) * c = 10 * (B * c) /\ (13 * A) * c = A * (13 * c) /\ B * c \in Int
          /\ A * (13 * c) \in Int
      BY <2>3
    <3>2. A * (30 * R) = 10 * (3 * (A * R))
      OBVIOUS
    <3>3. 3 * (A * R) <= B * c
      BY <2>2 DEF c
    <3> QED BY <1>9, <2>4, <3>1, <3>2, <3>3
  <2>6. 30 * R < 13 * c
    <3>1. \A x, y \in Int : A * x < A * y => x < y
      OBVIOUS
    <3>2. 30 * R \in Int /\ 13 * c \in Int
      BY <2>3
    <3> QED BY <2>5, <3>1, <3>2
  <2>7. 30 * R < 13 * (3 * m + q)
    BY <2>6 DEF c
  <2> QED BY <2>7 DEF q, Slack
<1>11. CASE B < 0
  <2> DEFINE nB == -B
  <2>1. 3 * e <= q * nB
    <3>1. q * nB \in Int /\ q * nB >= 0
      <4>1. nB \in Nat
        BY <1>11
      <4> HIDE DEF nB
      <4> QED BY <1>1, <4>1
    <3>2. 3 * e \in Int
      BY <1>2
    <3>3. (q * B) * (q * B) = (q * nB) * (q * nB)
      BY <1>1
    <3> DEFINE x == 3 * e
               z == q * nB
    <3> HIDE DEF x, z
    <3>4. x \in Int /\ z \in Int /\ z >= 0 /\ x * x <= z * z
      BY <1>8, <3>1, <3>2, <3>3 DEF x, z
    <3>5. x <= z
      BY <3>4, RootsInOrder
    <3> QED BY <3>5 DEF x, z
  <2>2. 3 * (A * R) <= B * (3 * m - q)
    <3>1. B * (3 * m - q) = 3 * (B * m) - q * B /\ q * B \in Int /\ q * nB = -(q * B)
      BY <1>1
    <3> HIDE DEF nB
    <3> QED BY <1>9, <2>1, <3>1
  <2>3. B * (3 * m - q) <= 0
    <3>1. 3 * m - q \in Nat
      BY <1>1
    <3>2. \A x \in Nat : B * x <= 0
      BY <1>11
    <3> QED BY <3>1, <3>2
  <2>4. A * R <= 0
    <3>1. B * (3 * m - q) \in Int
      BY <1>1
    <3> QED BY <1>9, <2>2, <2>3, <3>1
  <2>5. R <= 0
    <3>1. \A x \in Int : x > 0 => A * x > 0
      OBVIOUS
    <3> QED BY <2>4, <3>1
  <2> QED BY <2>5
<1> QED BY <1>10, <1>11

(* A vector that takes the difference of two places.                       *)
LEMMA TakesDifference ==
  ASSUME NEW n \in Nat, NEW first \in 1..n, NEW last \in 1..n, first # last
  PROVE  \E E \in [1..n -> Int] :
           /\ Dot(E, E) = 2
           /\ \A f \in [1..n -> Int] : Dot(f, E) = f[last] - f[first]
<1> DEFINE one == 1
           minus == -1
           U == Indicator({last}, n)
           W == Indicator({first}, n)
           E == Comb(one, U, minus, W)
<1>1. one \in Int /\ minus \in Int
  OBVIOUS
<1>2. U \in [1..n -> Int] /\ W \in [1..n -> Int]
  BY IndicatorCounts
<1>3. U[last] = 1 /\ U[first] = 0 /\ W[last] = 0 /\ W[first] = 1
  BY DEF Indicator
<1>4. \A f \in [1..n -> Int] : Dot(U, f) = f[last] /\ Dot(W, f) = f[first]
  BY DotUnit
<1> HIDE DEF U, W
<1>5. IsComb(E, n, one, U, minus, W)
  <2> HIDE DEF one, minus, E
  <2>1. IsComb(Comb(one, U, minus, W), n, one, U, minus, W)
    BY <1>1, <1>2, CombIs
  <2> QED BY <2>1 DEF E
<1>6. E \in [1..n -> Int]
  BY <1>5 DEF IsComb
<1>7. ASSUME NEW f \in [1..n -> Int] PROVE Dot(f, E) = f[last] - f[first]
  <2>1. Dot(E, f) = one * Dot(U, f) + minus * Dot(W, f)
    BY <1>5 DEF IsComb
  <2>2. f[last] \in Int /\ f[first] \in Int
    OBVIOUS
  <2>3. Dot(E, f) = f[last] - f[first]
    <3> HIDE DEF E
    <3> QED BY <1>4, <2>1, <2>2
  <2> HIDE DEF E
  <2>4. Dot(f, E) = Dot(E, f)
    BY <1>6, DotSymmetric
  <2> QED BY <2>3, <2>4
<1>8. E[last] = 1 /\ E[first] = -1
  <2>1. E[last] = one * U[last] + minus * W[last] /\ E[first] = one * U[first] + minus * W[first]
    BY <1>5 DEF IsComb
  <2> HIDE DEF E
  <2> QED BY <1>3, <2>1
<1>9. Dot(E, E) = 2
  <2> HIDE DEF E
  <2>1. Dot(E, E) = E[last] - E[first]
    BY <1>6, <1>7
  <2> QED BY <1>8, <2>1
<1> HIDE DEF E
<1> QED BY <1>6, <1>7, <1>9

(* A line through at most five points that is classified as linear and is  *)
(* not rejected bounds what the last rises above the first.                *)
LEMMA RiseIsBounded ==
  ASSUME NEW n \in 1..5, NEW xs \in SUBSET (1..n), NEW y \in [1..n -> Int],
         Cardinality(xs) >= 2,
         NEW first \in xs, NEW last \in xs, \A i \in xs : first <= i /\ i <= last,
         OnALine(FitLine(xs, y)),
         ClassifyExponent(FitLine(xs, y)) = "constant_or_linear"
  PROVE  2 * (y[last] - y[first]) <= 3 * (last - first)
<1> DEFINE X == Centred(xs, Positions(n))
           Y == Centred(xs, y)
           N == Cardinality(xs)
           L == FitLine(xs, y)
           A == Dot(X, X)
           B == Dot(X, Y)
           C == Dot(Y, Y)
           m == last - first
           R == y[last] - y[first]
<1>1. n \in Nat /\ Positions(n) \in [1..n -> Int] /\ \A i \in 1..n : Positions(n)[i] = i
  BY DEF Positions
<1>2. /\ X \in [1..n -> Int] /\ Y \in [1..n -> Int]
      /\ L.sxx = A /\ L.sxy = B /\ L.syy = C
      /\ A \in Int /\ B \in Int /\ C \in Int /\ A > 0
  BY <1>1, FitLineIs
<1>3. first \in 1..n /\ last \in 1..n /\ first <= last /\ R \in Int
  OBVIOUS
<1> DEFINE k == Total(Masked(xs, Positions(n)))
           l == Total(Masked(xs, y))
<1>6. ASSUME NEW f \in [1..n -> Int]
      PROVE  /\ Total(Masked(xs, f)) \in Int
             /\ \A i \in xs : Centred(xs, f)[i] = N * f[i] - Total(Masked(xs, f))
  <2>1. n \in Nat
    BY <1>1
  <2> HIDE DEF X, Y, N, L, A, B, C, m, R, k, l
  <2>2. /\ Total(Masked(xs, f)) \in Int
        /\ \A i \in xs : Centred(xs, f)[i] = Cardinality(xs) * f[i] - Total(Masked(xs, f))
    <3>1. IsCentred(Centred(xs, f), Total(Masked(xs, f)), xs, f, n)
      BY <2>1, CentredNamed
    <3> QED BY ONLY <3>1 DEF IsCentred
  <2> QED BY <2>2 DEF N
<1>7. k \in Int /\ \A i \in xs : X[i] = N * Positions(n)[i] - k
  BY <1>1, <1>6
<1>8. l \in Int /\ \A i \in xs : Y[i] = N * y[i] - l
  BY <1>6
<1>4. CASE first = last
  BY <1>3, <1>4
<1>5. CASE first # last
  <2>1. first < last /\ m \in 1..4
    BY <1>3, <1>5
  <2>2. N \in Int /\ N > 0
    <3>1. N \in Nat
      BY <1>1, IndicatorCounts
    <3> QED BY <3>1
  <2>3. PICK E \in [1..n -> Int] :
          /\ Dot(E, E) = 2
          /\ \A f \in [1..n -> Int] : Dot(f, E) = f[last] - f[first]
    BY <1>1, <1>3, <1>5, TakesDifference
  <2>4. Dot(X, E) = N * m
    <3>1. X[last] = N * Positions(n)[last] - k /\ X[first] = N * Positions(n)[first] - k
      BY <1>7
    <3>2. Dot(X, E) = X[last] - X[first]
      BY <1>2, <2>3
    <3> HIDE DEF X, k, N
    <3>3. Positions(n)[last] = last /\ Positions(n)[first] = first
      BY <1>1, <1>3
    <3>4. Dot(X, E) = (N * last - k) - (N * first - k)
      BY <3>1, <3>2, <3>3
    <3>5. N * (last - first) = N * last - N * first /\ N * last \in Int /\ N * first \in Int
      BY <1>3, <2>2
    <3> QED BY <1>7, <3>4, <3>5
  <2>5. Dot(Y, E) = N * R
    <3> DEFINE a == y[last]
               b == y[first]
    <3>1. Y[last] = N * a - l /\ Y[first] = N * b - l
      BY <1>8
    <3>2. Dot(Y, E) = Y[last] - Y[first]
      BY <1>2, <2>3
    <3>3. a \in Int /\ b \in Int /\ R = a - b
      BY <1>3
    <3> HIDE DEF Y, l, N, a, b, R
    <3>4. Dot(Y, E) = (N * a - l) - (N * b - l)
      BY <3>1, <3>2
    <3>5. N * (a - b) = N * a - N * b /\ N * a \in Int /\ N * b \in Int
      BY <2>2, <3>3
    <3> QED BY <1>8, <3>3, <3>4, <3>5
  <2>6. B * B <= A * C
    <3> HIDE DEF X, Y
    <3> QED BY <1>1, <1>2, CauchySchwarz
  <2> DEFINE d == A * (N * R) - B * (N * m)
  <2>7. d * d <= (A * C - B * B) * (A * 2 - (N * m) * (N * m))
    <3> HIDE DEF X, Y, N
    <3>1. LET dd == Dot(X, X) * Dot(Y, E) - Dot(X, Y) * Dot(X, E)
          IN  dd * dd <= (Dot(X, X) * Dot(Y, Y) - Dot(X, Y) * Dot(X, Y))
                           * (Dot(X, X) * Dot(E, E) - Dot(X, E) * Dot(X, E))
      BY <1>1, <1>2, <2>3, CauchySchwarzBeyond
    <3> QED BY <2>3, <2>4, <2>5, <3>1
  <2>8. 2 * A <= (N * N) * (m * m + Slack(m) * Slack(m))
    BY <2>1, SpreadOfFive
  <2>9. 10 * B < 13 * A
    <3>1. 10 * L.sxy < 13 * L.sxx
      BY DEF ClassifyExponent
    <3> HIDE DEF L, A, B
    <3> QED BY <1>2, <3>1
  <2>10. 10 * (B * B) >= 9 * (A * C)
    <3>1. L.syy = 0 \/ 10 * L.sxy * L.sxy >= 9 * L.sxx * L.syy
      BY DEF OnALine
    <3> HIDE DEF L, A, B, C
    <3>2. CASE C = 0
      <4>1. B * B \in Int /\ B * B >= 0 /\ A * 0 = 0
        BY <1>2, SquareIsPositive
      <4> QED BY <3>2, <4>1
    <3>3. CASE 10 * B * B >= 9 * A * C
      <4>1. 10 * B * B = 10 * (B * B) /\ 9 * A * C = 9 * (A * C)
        BY <1>2
      <4> QED BY <3>3, <4>1
    <3> QED BY <1>2, <3>1, <3>2, <3>3
  <2>11. d \in Int
    <3> HIDE DEF A, B, N, R, m
    <3> QED BY <1>2, <1>3, <2>1, <2>2
  <2> HIDE DEF A, B, C, N, m, R, d
  <2>12. d = A * (N * R) - B * (N * m)
    BY DEF d
  <2>13. 2 * R <= 3 * m
    BY <1>2, <1>3, <2>1, <2>2, <2>6, <2>7, <2>8, <2>9, <2>10, <2>11, <2>12, RiseByNumbers
  <2> QED BY <2>13 DEF R, m
<1> QED BY <1>4, <1>5

-----------------------------------------------------------------------------
(* The median of an odd number of timings of which one may be paused.      *)

LEMMA PlacesCounted ==
  ASSUME NEW c \in Nat
  PROVE  IsFiniteSet(1..c) /\ Cardinality(1..c) = c
BY FS_Interval

(* As many records as places.                                              *)
LEMMA TimingsOfPlaces ==
  ASSUME NEW n \in Nat, NEW I \in SUBSET (1..n), NEW g \in [1..n -> Int]
  PROVE  LET T == {[at |-> i, ms |-> g[i]] : i \in I}
         IN  IsFiniteSet(T) /\ Cardinality(T) = Cardinality(I)
<1> DEFINE T == {[at |-> i, ms |-> g[i]] : i \in I}
           f == [i \in I |-> [at |-> i, ms |-> g[i]]]
<1>1. IsFiniteSet(I)
  <2>1. IsFiniteSet(1..n)
    BY FS_Interval
  <2> QED BY <2>1, FS_Subset
<1>2. f \in [I -> T]
  OBVIOUS
<1>3. \A i, j \in I : f[i] = f[j] => i = j
  <2> SUFFICES ASSUME NEW i \in I, NEW j \in I, f[i] = f[j] PROVE i = j
    OBVIOUS
  <2>1. f[i].at = i /\ f[j].at = j
    OBVIOUS
  <2> QED BY <2>1
<1>4. \A t \in T : \E i \in I : f[i] = t
  OBVIOUS
<1> HIDE DEF f, T
<1>5. f \in Bijection(I, T)
  BY <1>2, <1>3, <1>4 DEF Bijection, Injection, Surjection, IsInjective
<1>6. ExistsBijection(I, T)
  BY <1>5 DEF ExistsBijection
<1> QED BY <1>1, <1>6, FS_Bijection DEF T

(* The places whose timing comes before that of place j.                   *)
Sooner(g, n, j) == {i \in 1..n : g[i] < g[j] \/ (g[i] = g[j] /\ i < j)}

(* The median is the timing of a place with as many before as after it.    *)
LEMMA MedianIsAPlace ==
  ASSUME NEW n \in Nat, NEW g \in [1..n -> Int],
         \E j \in 1..n : 2 * Cardinality(Sooner(g, n, j)) + 1 = n
  PROVE  \E j \in 1..n : /\ Median({[at |-> i, ms |-> g[i]] : i \in 1..n}).ms = g[j]
                         /\ 2 * Cardinality(Sooner(g, n, j)) + 1 = n
<1> DEFINE T == {[at |-> i, ms |-> g[i]] : i \in 1..n}
           rec(j) == [at |-> j, ms |-> g[j]]
           before(t) == {u \in T : u.ms < t.ms \/ (u.ms = t.ms /\ u.at < t.at)}
           middle(t) == 2 * Cardinality(before(t)) + 1 = Cardinality(T)
<1>1. Cardinality(T) = n
  <2>1. (1..n) \in SUBSET (1..n)
    OBVIOUS
  <2>2. Cardinality(T) = Cardinality(1..n)
    BY <2>1, TimingsOfPlaces
  <2>3. Cardinality(1..n) = n
    BY FS_Interval
  <2> QED BY <2>2, <2>3
<1>2. ASSUME NEW j \in 1..n
      PROVE  Cardinality(before(rec(j))) = Cardinality(Sooner(g, n, j))
  <2>1. before(rec(j)) = {[at |-> i, ms |-> g[i]] : i \in Sooner(g, n, j)}
    BY DEF Sooner
  <2>2. Sooner(g, n, j) \in SUBSET (1..n)
    BY DEF Sooner
  <2> HIDE DEF T, rec, before
  <2> QED BY <2>1, <2>2, TimingsOfPlaces
<1>3. Median(T) = CHOOSE t \in T : middle(t)
  BY DEF Median
<1>4. \E t \in T : middle(t)
  <2>1. PICK j \in 1..n : 2 * Cardinality(Sooner(g, n, j)) + 1 = n
    OBVIOUS
  <2>2. rec(j) \in T
    OBVIOUS
  <2> HIDE DEF T, rec, before
  <2>3. middle(rec(j))
    BY <1>1, <1>2, <2>1
  <2> QED BY <2>2, <2>3
<1>5. Median(T) \in T /\ middle(Median(T))
  <2> HIDE DEF T, middle
  <2> QED BY <1>3, <1>4
<1>6. PICK j \in 1..n : Median(T) = rec(j)
  <2> HIDE DEF middle
  <2> QED BY <1>5
<1>7. 2 * Cardinality(Sooner(g, n, j)) + 1 = n
  <2> HIDE DEF T, rec, before
  <2> QED BY <1>1, <1>2, <1>5, <1>6
<1>8. Median(T).ms = g[j]
  BY <1>6
<1> HIDE DEF T
<1> QED BY <1>7, <1>8 DEF T

(* At least three timings of which at most one was paused: what is kept is *)
(* one that was not.                                                       *)
LEMMA MedianIsNotPaused ==
  ASSUME NEW n \in {2 * k + 1 : k \in 1..3}, NEW ms \in Int, Pause \in Nat \ {0},
         NEW paused \in {{}} \cup {{i} : i \in 1..n}
  PROVE  Median({[at |-> i, ms |-> IF i \in paused THEN ms + Pause ELSE ms] : i \in 1..n}).ms = ms
<1> DEFINE g == [i \in 1..n |-> IF i \in paused THEN ms + Pause ELSE ms]
           T == {[at |-> i, ms |-> IF i \in paused THEN ms + Pause ELSE ms] : i \in 1..n}
<1>1. PICK k \in 1..3 : n = 2 * k + 1
  OBVIOUS
<1>2. n \in Nat /\ n >= 3 /\ k + 1 \in 1..n /\ k + 2 \in 1..n
  BY <1>1
<1>3. g \in [1..n -> Int] /\ \A i \in 1..n : g[i] = IF i \in paused THEN ms + Pause ELSE ms
  <2>1. \A i \in 1..n : (IF i \in paused THEN ms + Pause ELSE ms) \in Int
    OBVIOUS
  <2> QED BY <2>1
<1>4. T = {[at |-> i, ms |-> g[i]] : i \in 1..n}
  OBVIOUS
<1> HIDE DEF g, T
<1>5. ASSUME NEW j \in 1..n, j \notin paused, \A p \in paused : p > j
      PROVE  Cardinality(Sooner(g, n, j)) = j - 1
  <2>1. Sooner(g, n, j) = 1..(j - 1)
    <3>1. ASSUME NEW i \in 1..n PROVE i \in Sooner(g, n, j) <=> i < j
      BY <1>3, <1>5 DEF Sooner
    <3> QED BY <3>1 DEF Sooner
  <2>2. Cardinality(1..(j - 1)) = j - 1
    BY FS_Interval
  <2> QED BY <2>1, <2>2
<1>6. ASSUME NEW j \in 1..n, NEW p \in 1..n, paused = {p}, p < j
      PROVE  Cardinality(Sooner(g, n, j)) = j - 2
  <2>1. Sooner(g, n, j) = (1..(j - 1)) \ {p}
    <3>1. ASSUME NEW i \in 1..n PROVE i \in Sooner(g, n, j) <=> (i < j /\ i # p)
      BY <1>3, <1>6 DEF Sooner
    <3> QED BY <3>1 DEF Sooner
  <2> DEFINE c == j - 1
             S == 1..c
  <2>2. c \in Int /\ c >= 1 /\ c = j - 1 /\ p \in S
    BY <1>6
  <2>3. IsFiniteSet(S) /\ Cardinality(S) = c
    <3> HIDE DEF c
    <3>1. c \in Nat
      BY <2>2
    <3> QED BY <3>1, PlacesCounted
  <2>4. Cardinality(S \ {p}) = c - 1
    <3> HIDE DEF S, c
    <3> QED BY <2>2, <2>3, FS_RemoveElement
  <2>5. c - 1 = j - 2
    OBVIOUS
  <2> QED BY <2>1, <2>4, <2>5
<1>7. ASSUME NEW p \in 1..n, paused = {p}
      PROVE  Cardinality(Sooner(g, n, p)) = n - 1
  <2>1. Sooner(g, n, p) = (1..n) \ {p}
    <3>1. ASSUME NEW i \in 1..n PROVE i \in Sooner(g, n, p) <=> i # p
      BY <1>3, <1>7 DEF Sooner
    <3> QED BY <3>1 DEF Sooner
  <2>2. IsFiniteSet(1..n) /\ Cardinality(1..n) = n
    BY <1>2, FS_Interval
  <2> QED BY <2>1, <2>2, FS_RemoveElement
<1>8. \E j \in 1..n : 2 * Cardinality(Sooner(g, n, j)) + 1 = n
  <2>1. CASE \A p \in paused : p > k + 1
    <3>1. k + 1 \notin paused
      BY <1>2, <2>1
    <3>2. Cardinality(Sooner(g, n, k + 1)) = (k + 1) - 1
      BY <1>2, <1>5, <2>1, <3>1
    <3> QED BY <1>1, <1>2, <3>2
  <2>2. CASE \E p \in paused : ~(p > k + 1)
    <3>1. PICK p \in 1..n : paused = {p} /\ p < k + 2
      BY <1>2, <2>2
    <3>2. Cardinality(Sooner(g, n, k + 2)) = (k + 2) - 2
      BY <1>2, <1>6, <3>1
    <3> QED BY <1>1, <1>2, <3>2
  <2> QED BY <2>1, <2>2
<1>9. PICK j \in 1..n : /\ Median({[at |-> i, ms |-> g[i]] : i \in 1..n}).ms = g[j]
                        /\ 2 * Cardinality(Sooner(g, n, j)) + 1 = n
  BY <1>2, <1>3, <1>8, MedianIsAPlace
<1>10. j \notin paused
  <2>1. ASSUME j \in paused PROVE FALSE
    <3>1. paused = {j}
      BY <2>1
    <3>2. Cardinality(Sooner(g, n, j)) = n - 1
      BY <1>7, <3>1
    <3> QED BY <1>2, <1>9, <3>2
  <2> QED BY <2>1
<1>11. Median(T).ms = ms
  BY <1>3, <1>4, <1>9, <1>10
<1> QED BY <1>11 DEF T

-----------------------------------------------------------------------------
(***************************************************************************)
(* The invariant of the gate: the samples are the costs until one is over  *)
(* the budget, an exit code is the one the deliverable gives for a defect, *)
(* and each finding is about them or about what went wrong on the way.     *)
(***************************************************************************)

Verdicts ==
  {"refused", "exceeded_budget", "below_measurement_floor", "insufficient_points", "unfittable",
   "constant_or_linear", "superlinear", "quadratic_or_worse", "inconclusive",
   "mutation_ineffective", "vacuous", "partially_verifies", "verifies", "artifact_absent",
   "complied", "not_complied", "partial"}
Sample == [ms : Int, used : BOOLEAN, over_budget : BOOLEAN]
Outcome == [kind : Kinds, applied : BOOLEAN, exit_code : ExitCodes,
            reference : {"unasked"} \cup ExitCodes]
GateFinding ==
  [check : {"growth", "honesty", "skill_compliance"}, verdict : Verdicts, passed : BOOLEAN]

GateTyped ==
  /\ stage \in {"start", "growth", "honesty", "mutate", "notes", "done", "exit"}
  /\ work \in Deliverable /\ arm \in Nat /\ upset \in SUBSET Upsets
  /\ samples \in Seq(Sample) /\ outcomes \in Seq(Outcome) /\ findings \in Seq(GateFinding)
  /\ stage \in {"honesty", "mutate", "notes"} => arm > 0

(* What a sample says of the size it is of: its cost, or that it is over   *)
(* the budget, after which no more are taken.                              *)
SampleIsTrue(w, ss, wrong, i) ==
  /\ i <= Sizes /\ i # w.throws
  /\ ss[i].over_budget => i = Len(ss) /\ ("first_run" \in wrong \/ w.cost[i] > Budget)
  /\ ~ss[i].over_budget =>
       /\ ss[i].ms = w.cost[i] /\ w.cost[i] <= Budget
       /\ ss[i].used <=> w.cost[i] >= Floor

SamplesAreTrue == \A i \in DOMAIN samples : SampleIsTrue(work, samples, upset, i)

(* What an outcome tells of the deliverable: an exit code is the command's *)
(* on the defect m, or the reference's where the command has just run.     *)
OutcomeIsTrue(w, o, m) ==
  /\ o.kind = m /\ (o.applied <=> w.target)
  /\ o.exit_code = "zero" => m \notin w.catches
  /\ o.exit_code = "other" => m \in w.catches
  /\ o.reference = "unasked" <=> o.exit_code # "zero"
  /\ o.reference = "zero" => m \notin w.real \/ w.rewrites
  /\ o.reference = "other" => m \in w.real

OutcomesAreTrue ==
  /\ Len(outcomes) <= 2
  /\ \A i \in DOMAIN outcomes : OutcomeIsTrue(work, outcomes[i], Mutations[i])

(* What a finding says of the deliverable and of what was seen of it.      *)
GrowthIsTrue(w, ss, f) ==
  /\ f.check = "growth"
  /\ \/ /\ f.verdict = "refused" /\ ~f.passed
        /\ w.entry = "missing" \/ w.throws \in 1..Sizes
     \/ /\ f.verdict = FitGrowth(ss) /\ (f.passed <=> FitGrowth(ss) \in GrowthAccepted)
        /\ w.entry = "callable"
        /\ Len(ss) = Sizes \/ \E i \in DOMAIN ss : ss[i].over_budget

HonestyIsTrue(w, os, wrong, said, f) ==
  \/ f.verdict = "refused" /\ ~f.passed /\ (w.script = "missing" \/ "probe" \in wrong)
  \/ f.verdict = "inconclusive" /\ ~f.passed /\ (~w.passes \/ "baseline" \in wrong)
  \/ /\ w.script = "declared" /\ w.passes /\ Len(os) = 2
     /\ f.verdict = said /\ (f.passed <=> said = "verifies")

FindingsAreTrue ==
  /\ stage = "growth" => findings = <<>> /\ outcomes = <<>>
  /\ stage \in {"honesty", "mutate"} =>
       Len(findings) = 1 /\ GrowthIsTrue(work, samples, findings[1])
  /\ stage = "mutate" => work.script = "declared" /\ work.passes
  /\ stage = "honesty" => outcomes = <<>>
  /\ stage = "notes" \/ (stage = "done" /\ arm > 0) =>
       /\ Len(findings) >= 2 /\ GrowthIsTrue(work, samples, findings[1])
       /\ findings[2].check = "honesty"
       /\ HonestyIsTrue(work, outcomes, upset, HonestyVerdict, findings[2])
  /\ stage = "notes" => Len(findings) = 2
  /\ stage = "done" /\ arm > 0 =>
       Len(findings) = 3 /\ findings[3].check = "skill_compliance"

GateInv == GateTyped /\ SamplesAreTrue /\ OutcomesAreTrue /\ FindingsAreTrue

(* What is known of a deliverable.                                         *)
LEMMA WorkIs ==
  ASSUME NEW w \in Deliverable
  PROVE  /\ w.entry \in {"callable", "missing", "import_throws"} /\ w.cost \in [1..Sizes -> Int]
         /\ w.throws \in Nat /\ w.script \in {"declared", "missing", "unparsable"}
         /\ w.passes \in BOOLEAN /\ w.target \in BOOLEAN /\ w.rewrites \in BOOLEAN
         /\ w.catches \in SUBSET Kinds /\ w.real \in SUBSET Kinds
         /\ Sizes \in 2..5 /\ Len(w.cost) = Sizes /\ DOMAIN w.cost = 1..Sizes
<1>1. Sizes \in 2..5
  BY GateAssumption
<1>2. w.cost \in [1..Sizes -> Int]
  BY DEF Deliverable
<1>3. Len(w.cost) = Sizes /\ DOMAIN w.cost = 1..Sizes
  BY <1>1, <1>2
<1> QED BY <1>1, <1>2, <1>3 DEF Deliverable

LEMMA GateBegins == GateInit => GateInv
<1> SUFFICES ASSUME GateInit PROVE GateInv
  OBVIOUS
<1>1. Control \in Deliverable
  BY GateAssumption
<1>2. GateTyped
  <2>1. samples \in Seq(Sample) /\ outcomes \in Seq(Outcome) /\ findings \in Seq(GateFinding)
    BY DEF GateInit
  <2>2. work \in Deliverable /\ arm \in Nat /\ upset \in SUBSET Upsets /\ stage = "start"
    BY <1>1 DEF GateInit
  <2> QED BY <2>1, <2>2 DEF GateTyped
<1>3. SamplesAreTrue /\ OutcomesAreTrue /\ FindingsAreTrue
  BY DEF GateInit, SamplesAreTrue, OutcomesAreTrue, FindingsAreTrue
<1> QED BY <1>2, <1>3 DEF GateInv

LEMMA BeginGateKeeps ==
  ASSUME GateInv, BeginGate
  PROVE  GateInv'
<1>1. work' \in Deliverable
  BY GateAssumption DEF BeginGate
<1>2. GateTyped'
  <2>1. /\ samples' \in Seq(Sample) /\ outcomes' \in Seq(Outcome) /\ findings' \in Seq(GateFinding)
    BY DEF BeginGate
  <2>2. arm' \in Nat /\ upset' \in SUBSET Upsets /\ stage' = "growth"
    BY DEF BeginGate, GateInv, GateTyped
  <2> QED BY <1>1, <2>1, <2>2 DEF GateTyped
<1>3. SamplesAreTrue'
  BY DEF BeginGate, SamplesAreTrue
<1>4. OutcomesAreTrue'
  BY DEF BeginGate, OutcomesAreTrue
<1>5. FindingsAreTrue'
  BY DEF BeginGate, FindingsAreTrue
<1> QED BY <1>2, <1>3, <1>4, <1>5 DEF GateInv

(* While no series has ended, every size timed was within the budget.      *)
LEMMA TimeSizeKeeps ==
  ASSUME GateInv, TimeSize
  PROVE  GateInv'
<1> DEFINE k == Len(samples) + 1
           ms == work.cost[k]
<1>1. /\ stage = "growth" /\ work.entry = "callable" /\ MoreSizes /\ k # work.throws
      /\ UNCHANGED <<work, arm, stage, outcomes, findings>>
  BY DEF TimeSize, GateStays, NextSize
<1>2. /\ GateTyped /\ samples \in Seq(Sample) /\ upset \in SUBSET Upsets /\ work \in Deliverable
      /\ work.cost \in [1..Sizes -> Int] /\ Len(work.cost) = Sizes /\ Sizes \in Nat
  BY WorkIs DEF GateInv, GateTyped
<1>3. k \in 1..Sizes /\ ms \in Int /\ Len(samples) \in Nat
  BY <1>1, <1>2 DEF MoreSizes, NextSize
<1>4. PICK cold \in BOOLEAN, paused \in {{}} \cup {{i} : i \in 1..Repeats} :
        LET first == IF cold THEN ms + Pause ELSE ms
            timings == {[at |-> i, ms |-> IF i \in paused THEN ms + Pause ELSE ms] : i \in 1..Repeats}
            kept == Median(timings).ms
        IN  /\ samples' = Append(samples,
                 IF first > Budget THEN [ms |-> first, used |-> FALSE, over_budget |-> TRUE]
                 ELSE [ms |-> kept, used |-> kept >= Floor, over_budget |-> FALSE])
            /\ upset' = IF cold /\ first > Budget THEN upset \cup {"first_run"} ELSE upset
  BY DEF TimeSize, NextSize
<1> DEFINE first == IF cold THEN ms + Pause ELSE ms
           s == IF first > Budget THEN [ms |-> first, used |-> FALSE, over_budget |-> TRUE]
                ELSE [ms |-> ms, used |-> ms >= Floor, over_budget |-> FALSE]
<1>5. Pause \in Nat \ {0} /\ Repeats \in {2 * j + 1 : j \in 1..3} /\ Budget \in Int /\ Floor \in Int
  BY GateAssumption
<1>6. Median({[at |-> i, ms |-> IF i \in paused THEN ms + Pause ELSE ms] : i \in 1..Repeats}).ms = ms
  <2> HIDE DEF ms, k
  <2> QED BY <1>3, <1>5, MedianIsNotPaused
<1>7. /\ samples' = Append(samples, s) /\ upset' \in SUBSET Upsets /\ upset \subseteq upset'
      /\ cold /\ first > Budget => "first_run" \in upset'
  BY <1>2, <1>4, <1>6 DEF Upsets
<1> HIDE DEF k
<1>8. s \in Sample /\ first \in Int
  BY <1>3, <1>5 DEF Sample
<1> HIDE DEF s
<1>9. /\ Len(samples') = k /\ samples' \in Seq(Sample)
      /\ samples'[k] = s /\ \A i \in 1..Len(samples) : samples'[i] = samples[i]
  BY <1>2, <1>7, <1>8 DEF k
<1>10. GateTyped'
  BY <1>1, <1>2, <1>7, <1>9 DEF GateTyped
<1>11. \A i \in DOMAIN samples : ~samples[i].over_budget
  <2> SUFFICES ASSUME NEW i \in DOMAIN samples, samples[i].over_budget PROVE FALSE
    OBVIOUS
  <2>1. i = Len(samples)
    BY DEF GateInv, SamplesAreTrue, SampleIsTrue
  <2>2. samples # <<>>
    BY <1>2
  <2> QED BY <1>1, <2>1, <2>2 DEF MoreSizes, SeriesEnded
<1>12. ASSUME NEW i \in 1..Len(samples) PROVE SampleIsTrue(work', samples', upset', i)
  <2>1. SampleIsTrue(work, samples, upset, i) /\ ~samples[i].over_budget
    BY <1>2, <1>11 DEF GateInv, SamplesAreTrue
  <2>2. samples'[i] = samples[i] /\ work' = work
    BY <1>1, <1>9
  <2> QED BY <2>1, <2>2 DEF SampleIsTrue
<1>13. SampleIsTrue(work', samples', upset', k)
  <2>1. s.over_budget => "first_run" \in upset' \/ work.cost[k] > Budget
    BY <1>3, <1>5, <1>7 DEF s
  <2>2. ~s.over_budget => /\ s.ms = work.cost[k] /\ work.cost[k] <= Budget
                          /\ s.used <=> work.cost[k] >= Floor
    <3>1. CASE first > Budget
      <4>1. s.over_budget = TRUE
        BY <3>1 DEF s
      <4> QED BY <4>1
    <3>2. CASE ~(first > Budget)
      <4>1. s = [ms |-> ms, used |-> ms >= Floor, over_budget |-> FALSE]
        BY <3>2 DEF s
      <4>2. s.ms = ms /\ s.used = (ms >= Floor)
        BY <4>1
      <4>3. ms <= Budget
        BY <1>3, <1>5, <3>2
      <4> QED BY <4>2, <4>3, Zenon
    <3> QED BY <3>1, <3>2
  <2>3. samples'[k] = s /\ work' = work /\ Len(samples') = k
    BY <1>1, <1>9
  <2>4. k <= Sizes
    BY <1>3
  <2>5. k # work'.throws
    BY <1>1
  <2> QED BY <2>1, <2>2, <2>3, <2>4, <2>5, Zenon DEF SampleIsTrue
<1>14. SamplesAreTrue'
  <2>1. ASSUME NEW i \in DOMAIN samples' PROVE i \in 1..Len(samples) \/ i = k
    BY <1>3, <1>9 DEF k
  <2>2. ASSUME NEW i \in DOMAIN samples' PROVE SampleIsTrue(work', samples', upset', i)
    BY <1>12, <1>13, <2>1
  <2> QED BY <2>2 DEF SamplesAreTrue
<1>15. OutcomesAreTrue' /\ FindingsAreTrue'
  <2>1. findings = <<>> /\ outcomes = <<>>
    BY <1>1 DEF GateInv, FindingsAreTrue
  <2> QED BY <1>1, <2>1 DEF OutcomesAreTrue, FindingsAreTrue
<1> QED BY <1>10, <1>14, <1>15 DEF GateInv

LEMMA FindingAppended ==
  ASSUME GateInv, NEW f \in GateFinding, findings' = Append(findings, f)
  PROVE  /\ findings' \in Seq(GateFinding) /\ Len(findings') = Len(findings) + 1
         /\ findings'[Len(findings) + 1] = f
         /\ \A i \in 1..Len(findings) : findings'[i] = findings[i]
<1>1. findings \in Seq(GateFinding)
  BY DEF GateInv, GateTyped
<1> QED BY <1>1

LEMMA GrowthRefusedKeeps ==
  ASSUME GateInv, GrowthRefused
  PROVE  GateInv'
<1> DEFINE f == Finding("growth", "refused", FALSE)
<1>1. /\ UNCHANGED <<work, arm, samples, outcomes, upset>> /\ stage = "growth"
      /\ findings' = Append(findings, f) /\ stage' = IF arm = 0 THEN "done" ELSE "honesty"
  BY DEF GrowthRefused, GateStays
<1>2. f \in GateFinding /\ f.check = "growth" /\ f.verdict = "refused" /\ ~f.passed
  BY DEF Finding, GateFinding, Verdicts
<1> HIDE DEF f
<1>3. findings = <<>> /\ outcomes = <<>> /\ GateTyped
  BY <1>1 DEF GateInv, FindingsAreTrue
<1>4. findings' \in Seq(GateFinding) /\ Len(findings') = 1 /\ findings'[1] = f
  BY <1>1, <1>2, <1>3
<1>5. GateTyped'
  BY <1>1, <1>3, <1>4 DEF GateTyped
<1>6. work.entry = "missing" \/ work.throws \in 1..Sizes
  <2>1. Sizes \in Nat /\ Len(work.cost) = Sizes /\ samples \in Seq(Sample)
    BY <1>3, WorkIs DEF GateTyped
  <2>2. ASSUME MoreSizes, NextSize = work.throws PROVE work.throws \in 1..Sizes
    BY <2>1, <2>2 DEF MoreSizes, NextSize
  <2> QED BY <2>2 DEF GrowthRefused
<1>7. GrowthIsTrue(work, samples, f)
  BY <1>2, <1>6 DEF GrowthIsTrue
<1>8. SamplesAreTrue' /\ OutcomesAreTrue'
  BY <1>1 DEF GateInv, SamplesAreTrue, OutcomesAreTrue
<1>9. FindingsAreTrue'
  <2>1. arm \in Nat
    BY <1>3 DEF GateTyped
  <2>2. \/ stage' = "done" /\ ~(arm' > 0)
        \/ stage' = "honesty" /\ outcomes' = <<>>
    BY <1>1, <1>3, <2>1
  <2>3. Len(findings') = 1 /\ GrowthIsTrue(work', samples', findings'[1])
    BY <1>1, <1>4, <1>7
  <2> QED BY <2>2, <2>3 DEF FindingsAreTrue
<1> QED BY <1>5, <1>8, <1>9 DEF GateInv

LEMMA VerdictsAre ==
  /\ \A ss : FitGrowth(ss) \in Verdicts
  /\ HonestyVerdict \in Verdicts /\ Compliance \in Verdicts
<1>1. ASSUME NEW ss PROVE FitGrowth(ss) \in Verdicts
  BY DEF FitGrowth, ClassifyExponent, Verdicts
<1>2. HonestyVerdict \in Verdicts
  BY DEF HonestyVerdict, Verdicts
<1>3. Compliance \in Verdicts
  BY DEF Compliance, Verdicts
<1> QED BY <1>1, <1>2, <1>3

(* The series is over: a size was over the budget, or all were timed.      *)
LEMMA GrowthFindingKeeps ==
  ASSUME GateInv, GrowthFinding
  PROVE  GateInv'
<1> DEFINE f == Finding("growth", FitGrowth(samples), FitGrowth(samples) \in GrowthAccepted)
<1>1. /\ UNCHANGED <<work, arm, samples, outcomes, upset>> /\ stage = "growth"
      /\ work.entry = "callable" /\ ~MoreSizes
      /\ findings' = Append(findings, f) /\ stage' = IF arm = 0 THEN "done" ELSE "honesty"
  BY DEF GrowthFinding, GateStays
<1>2. /\ f \in GateFinding /\ f.check = "growth" /\ f.verdict = FitGrowth(samples)
      /\ f.passed = (FitGrowth(samples) \in GrowthAccepted)
  BY VerdictsAre DEF Finding, GateFinding
<1> HIDE DEF f
<1>3. findings = <<>> /\ outcomes = <<>> /\ GateTyped
  BY <1>1 DEF GateInv, FindingsAreTrue
<1>4. findings' \in Seq(GateFinding) /\ Len(findings') = 1 /\ findings'[1] = f
  BY <1>1, <1>2, <1>3
<1>5. GateTyped'
  BY <1>1, <1>3, <1>4 DEF GateTyped
<1>6. Len(samples) = Sizes \/ \E i \in DOMAIN samples : samples[i].over_budget
  <2>1. /\ Sizes \in Nat /\ Len(work.cost) = Sizes /\ samples \in Seq(Sample)
        /\ work.cost \in [1..Sizes -> Int]
    BY <1>3, WorkIs DEF GateTyped
  <2>2. CASE SeriesEnded
    <3>1. Len(samples) \in DOMAIN samples
      BY <2>1, <2>2 DEF SeriesEnded
    <3>2. SampleIsTrue(work, samples, upset, Len(samples))
      BY <3>1 DEF GateInv, SamplesAreTrue
    <3>3. ASSUME ~samples[Len(samples)].over_budget PROVE FALSE
      <4>1. /\ samples[Len(samples)].ms = work.cost[Len(samples)]
            /\ work.cost[Len(samples)] <= Budget /\ Len(samples) <= Sizes
        BY <3>2, <3>3 DEF SampleIsTrue
      <4>2. samples[Len(samples)].ms > Budget
        BY <2>2, <3>3 DEF SeriesEnded
      <4>3. Budget \in Int /\ work.cost[Len(samples)] \in Int
        BY <2>1, <3>1, <4>1, GateAssumption
      <4> QED BY <4>1, <4>2, <4>3
    <3> QED BY <3>1, <3>3
  <2>3. CASE ~SeriesEnded
    <3>1. ~(Len(samples) + 1 <= Sizes) /\ Len(samples) \in Nat
      BY <1>1, <2>1, <2>3 DEF MoreSizes, NextSize
    <3>2. Len(samples) <= Sizes
      <4>1. CASE samples = <<>>
        BY <2>1, <4>1
      <4>2. CASE samples # <<>>
        <5>1. Len(samples) \in DOMAIN samples
          BY <2>1, <4>2
        <5> QED BY <5>1 DEF GateInv, SamplesAreTrue, SampleIsTrue
      <4> QED BY <4>1, <4>2
    <3> QED BY <2>1, <3>1, <3>2
  <2> QED BY <2>2, <2>3
<1>7. GrowthIsTrue(work, samples, f)
  BY <1>1, <1>2, <1>6 DEF GrowthIsTrue
<1>8. SamplesAreTrue' /\ OutcomesAreTrue'
  BY <1>1 DEF GateInv, SamplesAreTrue, OutcomesAreTrue
<1>9. FindingsAreTrue'
  <2>1. arm \in Nat
    BY <1>3 DEF GateTyped
  <2>2. \/ stage' = "done" /\ ~(arm' > 0)
        \/ stage' = "honesty" /\ outcomes' = <<>>
    BY <1>1, <1>3, <2>1
  <2>3. Len(findings') = 1 /\ GrowthIsTrue(work', samples', findings'[1])
    BY <1>1, <1>4, <1>7
  <2> QED BY <2>2, <2>3 DEF FindingsAreTrue
<1> QED BY <1>5, <1>8, <1>9 DEF GateInv

(* The first finding still holds of what has not changed.                  *)
LEMMA GrowthStaysTrue ==
  ASSUME GateInv, stage \in {"honesty", "mutate", "notes"}, UNCHANGED <<work, samples, arm>>,
         UNCHANGED findings \/ \E f \in GateFinding : findings' = Append(findings, f)
  PROVE  /\ GrowthIsTrue(work', samples', findings'[1]) /\ Len(findings) >= 1
         /\ Len(findings') >= 1 /\ findings' \in Seq(GateFinding) /\ arm' > 0
         /\ findings \in Seq(GateFinding)
<1>1. GrowthIsTrue(work, samples, findings[1]) /\ Len(findings) >= 1
  BY DEF GateInv, FindingsAreTrue
<1>2. findings \in Seq(GateFinding) /\ arm > 0
  BY DEF GateInv, GateTyped
<1>3. findings' \in Seq(GateFinding) /\ Len(findings') >= 1 /\ findings'[1] = findings[1]
  <2>1. CASE UNCHANGED findings
    BY <1>1, <1>2, <2>1
  <2>2. CASE \E f \in GateFinding : findings' = Append(findings, f)
    BY <1>1, <1>2, <2>2
  <2> QED BY <2>1, <2>2
<1> QED BY <1>1, <1>2, <1>3

(* A step of the honesty check that ends it with finding f.                *)
LEMMA HonestyEnds ==
  ASSUME GateInv, NEW f \in GateFinding, f.check = "honesty", Len(findings) = 1,
         stage \in {"honesty", "mutate"}, stage' = "notes", findings' = Append(findings, f),
         UNCHANGED <<work, arm, samples, outcomes>>, upset' \in SUBSET Upsets, upset \subseteq upset',
         HonestyIsTrue(work', outcomes', upset', HonestyVerdict', f)
  PROVE  GateInv'
<1>1. /\ GrowthIsTrue(work', samples', findings'[1]) /\ findings' \in Seq(GateFinding) /\ arm' > 0
      /\ findings \in Seq(GateFinding)
  BY GrowthStaysTrue
<1>2. Len(findings') = 2 /\ findings'[2] = f
  <2>1. Len(findings') = Len(findings) + 1 /\ findings'[Len(findings) + 1] = f
    BY FindingAppended
  <2> QED BY <2>1
<1>3. GateTyped'
  BY <1>1 DEF GateInv, GateTyped
<1>4. SamplesAreTrue'
  <2> SUFFICES ASSUME NEW i \in DOMAIN samples PROVE SampleIsTrue(work, samples, upset', i)
    BY DEF SamplesAreTrue
  <2>1. SampleIsTrue(work, samples, upset, i)
    BY DEF GateInv, SamplesAreTrue
  <2> QED BY <2>1, Zenon DEF SampleIsTrue
<1>5. OutcomesAreTrue'
  BY DEF GateInv, OutcomesAreTrue
<1>6. FindingsAreTrue'
  BY <1>1, <1>2 DEF FindingsAreTrue
<1> QED BY <1>3, <1>4, <1>5, <1>6 DEF GateInv

LEMMA UndeclaredKeeps ==
  ASSUME GateInv, Undeclared
  PROVE  GateInv'
<1> DEFINE f == Finding("honesty", "refused", FALSE)
<1>1. /\ UNCHANGED <<work, arm, samples, outcomes, upset>> /\ stage = "honesty"
      /\ work.script = "missing" /\ Len(findings) = 1 /\ upset \in SUBSET Upsets
      /\ findings' = Append(findings, f) /\ stage' = "notes"
  BY DEF Undeclared, HonestyStops, GateStays, GateInv, GateTyped, FindingsAreTrue
<1>2. f \in GateFinding /\ f.check = "honesty" /\ f.verdict = "refused" /\ ~f.passed
  BY DEF Finding, GateFinding, Verdicts
<1> HIDE DEF f
<1>3. HonestyIsTrue(work', outcomes', upset', HonestyVerdict', f)
  BY <1>1, <1>2 DEF HonestyIsTrue
<1> QED BY <1>1, <1>2, <1>3, HonestyEnds

(* The command on the code as delivered.                                   *)
LEMMA BaselineKeeps ==
  ASSUME GateInv, Baseline
  PROVE  GateInv'
<1>1. /\ UNCHANGED <<work, arm, samples, outcomes>> /\ stage = "honesty" /\ work.script = "declared"
      /\ GateTyped /\ upset \in SUBSET Upsets /\ Len(findings) = 1 /\ work \in Deliverable
  BY DEF Baseline, GateStays, GateInv, GateTyped, FindingsAreTrue
<1>2. PICK code \in {"null", IF work.passes THEN "zero" ELSE "other"} :
        /\ IF code = "zero" THEN stage' = "mutate" /\ UNCHANGED findings ELSE HonestyStops("inconclusive")
        /\ upset' = IF code = "null" THEN upset \cup {"baseline"} ELSE upset
  BY DEF Baseline
<1>3. upset' \in SUBSET Upsets /\ upset \subseteq upset'
  BY <1>1, <1>2 DEF Upsets
<1>4. CASE code # "zero"
  <2> DEFINE f == Finding("honesty", "inconclusive", FALSE)
  <2>1. findings' = Append(findings, f) /\ stage' = "notes"
    BY <1>2, <1>4 DEF HonestyStops
  <2>2. f \in GateFinding /\ f.check = "honesty" /\ f.verdict = "inconclusive" /\ ~f.passed
    BY DEF Finding, GateFinding, Verdicts
  <2>3. ~work.passes \/ "baseline" \in upset'
    BY <1>2, <1>4
  <2> HIDE DEF f
  <2>4. HonestyIsTrue(work', outcomes', upset', HonestyVerdict', f)
    BY <1>1, <2>2, <2>3 DEF HonestyIsTrue
  <2> QED BY <1>1, <1>3, <2>1, <2>2, <2>4, HonestyEnds
<1>5. CASE code = "zero"
  <2>1. stage' = "mutate" /\ UNCHANGED findings /\ upset' = upset /\ work.passes
    <3>1. work.passes \in BOOLEAN
      BY <1>1, WorkIs
    <3> QED BY <1>2, <1>5, <3>1
  <2>2. GateTyped'
    BY <1>1, <2>1 DEF GateTyped
  <2>3. SamplesAreTrue' /\ OutcomesAreTrue'
    BY <1>1, <2>1 DEF GateInv, SamplesAreTrue, OutcomesAreTrue
  <2>4. FindingsAreTrue'
    BY <1>1, <2>1 DEF GateInv, FindingsAreTrue
  <2> QED BY <2>2, <2>3, <2>4 DEF GateInv
<1> QED BY <1>4, <1>5

LEMMA HonestyThrowsKeeps ==
  ASSUME GateInv, HonestyThrows
  PROVE  GateInv'
<1> DEFINE f == Finding("honesty", "refused", FALSE)
<1>1. /\ UNCHANGED <<work, arm, samples, outcomes>> /\ stage \in {"honesty", "mutate"}
      /\ Len(findings) = 1 /\ upset' = upset \cup {"probe"}
      /\ findings' = Append(findings, f) /\ stage' = "notes"
  BY DEF HonestyThrows, HonestyStops, GateStays, GateInv, FindingsAreTrue
<1>2. f \in GateFinding /\ f.check = "honesty" /\ f.verdict = "refused" /\ ~f.passed
  BY DEF Finding, GateFinding, Verdicts
<1>3. upset' \in SUBSET Upsets /\ upset \subseteq upset' /\ "probe" \in upset'
  BY <1>1 DEF Upsets, GateInv, GateTyped
<1> HIDE DEF f
<1>4. HonestyIsTrue(work', outcomes', upset', HonestyVerdict', f)
  BY <1>2, <1>3 DEF HonestyIsTrue
<1> QED BY <1>1, <1>2, <1>3, <1>4, HonestyEnds

LEMMA HonestyFindingKeeps ==
  ASSUME GateInv, HonestyFinding
  PROVE  GateInv'
<1> DEFINE f == Finding("honesty", HonestyVerdict, HonestyVerdict = "verifies")
<1>1. /\ UNCHANGED <<work, arm, samples, outcomes, upset>> /\ stage = "mutate"
      /\ Len(findings) = 1 /\ Len(outcomes) = 2 /\ upset \in SUBSET Upsets
      /\ findings' = Append(findings, f) /\ stage' = "notes"
      /\ work.script = "declared" /\ work.passes
  BY DEF HonestyFinding, GateStays, GateInv, FindingsAreTrue, GateTyped, Mutations
<1>2. /\ f \in GateFinding /\ f.check = "honesty" /\ f.verdict = HonestyVerdict
      /\ f.passed = (HonestyVerdict = "verifies")
  BY VerdictsAre DEF Finding, GateFinding
<1> HIDE DEF f
<1>3. HonestyVerdict' = HonestyVerdict
  BY <1>1 DEF HonestyVerdict, KindsDetected, KindsProbed, Effective, Detected, Confirmed
<1>4. HonestyIsTrue(work', outcomes', upset', HonestyVerdict', f)
  BY <1>1, <1>2, <1>3 DEF HonestyIsTrue
<1> QED BY <1>1, <1>2, <1>4, HonestyEnds

(* A defect injected: what the exit codes tell of it.                      *)
LEMMA MutateKeeps ==
  ASSUME GateInv, Mutate
  PROVE  GateInv'
<1>1. /\ UNCHANGED <<work, arm, stage, samples, findings, upset>> /\ stage = "mutate"
      /\ GateTyped /\ outcomes \in Seq(Outcome) /\ work \in Deliverable
      /\ Len(outcomes) < 2
  BY DEF Mutate, GateStays, GateInv, GateTyped, Mutations
<1> DEFINE n == Len(outcomes) + 1
           m == Mutations[n]
<1>2. n \in 1..2 /\ m \in Kinds /\ Len(outcomes) \in Nat
  BY <1>1 DEF Mutations, Kinds
<1>3. PICK code \in {"null", IF m \in work.catches THEN "other" ELSE "zero"},
            answer \in {"null", ReferenceCode(m)} :
        outcomes' = Append(outcomes,
          IF ~work.target THEN NotApplied(m)
          ELSE [kind |-> m, applied |-> TRUE, exit_code |-> code,
                reference |-> IF code = "zero" THEN answer ELSE "unasked"])
  BY DEF Mutate
<1> HIDE DEF m, n
<1> DEFINE asked == IF code = "zero" THEN answer ELSE "unasked"
           o == IF ~work.target THEN NotApplied(m)
                ELSE [kind |-> m, applied |-> TRUE, exit_code |-> code, reference |-> asked]
<1>4. outcomes' = Append(outcomes, o)
  BY <1>3
<1>5. /\ code \in ExitCodes /\ asked \in {"unasked"} \cup ExitCodes
      /\ code = "zero" => m \notin work.catches
      /\ code = "other" => m \in work.catches
      /\ asked = "unasked" <=> code # "zero"
      /\ asked = "zero" => m \notin work.real \/ work.rewrites
      /\ asked = "other" => m \in work.real
  BY <1>3 DEF ExitCodes, ReferenceCode
<1> HIDE DEF asked
<1>6. o \in Outcome /\ OutcomeIsTrue(work, o, m)
  <2>0. work.target \in BOOLEAN
    BY <1>1, WorkIs
  <2>1. CASE work.target
    <3> DEFINE applied == TRUE
    <3>1. o = [kind |-> m, applied |-> applied, exit_code |-> code, reference |-> asked]
          /\ applied \in BOOLEAN /\ applied = work.target
      BY <2>0, <2>1
    <3> HIDE DEF applied, o
    <3>2. o.kind = m /\ o.applied = applied /\ o.exit_code = code /\ o.reference = asked
      BY <3>1
    <3>3. o \in Outcome
      BY <1>2, <1>5, <3>1 DEF Outcome
    <3>4. o.applied <=> work.target
      BY <3>1, <3>2
    <3> QED BY <1>5, <3>2, <3>3, <3>4 DEF OutcomeIsTrue
  <2>2. CASE ~work.target
    <3> DEFINE applied == FALSE
    <3>1. o = [kind |-> m, applied |-> applied, exit_code |-> "null", reference |-> "unasked"]
          /\ applied \in BOOLEAN /\ applied = work.target
      BY <2>0, <2>2 DEF NotApplied
    <3> HIDE DEF applied, o
    <3>2. o.kind = m /\ o.applied = applied /\ o.exit_code = "null" /\ o.reference = "unasked"
      BY <3>1
    <3>3. o \in Outcome
      BY <1>2, <3>1 DEF Outcome, ExitCodes
    <3>4. o.applied <=> work.target
      BY <3>1, <3>2
    <3> QED BY <3>2, <3>3, <3>4 DEF OutcomeIsTrue
  <2> QED BY <2>0, <2>1, <2>2
<1> HIDE DEF o
<1>7. /\ outcomes' \in Seq(Outcome) /\ Len(outcomes') = n /\ outcomes'[n] = o
      /\ \A i \in 1..Len(outcomes) : outcomes'[i] = outcomes[i]
  BY <1>1, <1>4, <1>6 DEF n
<1>8. GateTyped'
  BY <1>1, <1>7 DEF GateTyped
<1>9. SamplesAreTrue'
  BY <1>1 DEF GateInv, SamplesAreTrue
<1>10. OutcomesAreTrue'
  <2>1. Len(outcomes') <= 2
    BY <1>2, <1>7
  <2>2. ASSUME NEW i \in DOMAIN outcomes' PROVE OutcomeIsTrue(work', outcomes'[i], Mutations[i])
    <3>1. i \in 1..Len(outcomes) \/ i = n
      BY <1>2, <1>7, <2>2 DEF n
    <3>2. CASE i \in 1..Len(outcomes)
      <4>1. OutcomeIsTrue(work, outcomes[i], Mutations[i])
        BY <1>1, <3>2 DEF GateInv, OutcomesAreTrue
      <4> QED BY <1>1, <1>7, <3>2, <4>1
    <3>3. CASE i = n
      BY <1>1, <1>6, <1>7, <3>3 DEF m
    <3> QED BY <3>1, <3>2, <3>3
  <2> QED BY <2>1, <2>2 DEF OutcomesAreTrue
<1>11. FindingsAreTrue'
  BY <1>1 DEF GateInv, FindingsAreTrue
<1> QED BY <1>8, <1>9, <1>10, <1>11 DEF GateInv

LEMMA ComplianceFindingKeeps ==
  ASSUME GateInv, ComplianceFinding
  PROVE  GateInv'
<1> DEFINE f == Finding("skill_compliance", Compliance, Compliance = "complied")
<1>1. /\ UNCHANGED <<work, arm, samples, outcomes, upset>> /\ stage = "notes"
      /\ findings' = Append(findings, f) /\ stage' = "done" /\ GateTyped
  BY DEF ComplianceFinding, GateStays, GateInv
<1>2. f \in GateFinding /\ f.check = "skill_compliance"
  BY VerdictsAre DEF Finding, GateFinding
<1> HIDE DEF f
<1>3. /\ Len(findings) = 2 /\ findings[2].check = "honesty"
      /\ HonestyIsTrue(work, outcomes, upset, HonestyVerdict, findings[2])
  BY <1>1 DEF GateInv, FindingsAreTrue
<1>4. /\ GrowthIsTrue(work', samples', findings'[1]) /\ findings' \in Seq(GateFinding) /\ arm' > 0
  BY <1>1, <1>2, GrowthStaysTrue
<1>5. /\ Len(findings') = Len(findings) + 1 /\ findings'[Len(findings) + 1] = f
      /\ \A i \in 1..Len(findings) : findings'[i] = findings[i]
  BY <1>1, <1>2, FindingAppended
<1>6. Len(findings') = 3 /\ findings'[3] = f /\ findings'[2] = findings[2]
  BY <1>3, <1>5
<1>7. GateTyped'
  BY <1>1, <1>4 DEF GateTyped
<1>8. SamplesAreTrue' /\ OutcomesAreTrue'
  BY <1>1 DEF GateInv, SamplesAreTrue, OutcomesAreTrue
<1>9. HonestyVerdict' = HonestyVerdict
  BY <1>1 DEF HonestyVerdict, KindsDetected, KindsProbed, Effective, Detected, Confirmed
<1>10. FindingsAreTrue'
  <2>1. HonestyIsTrue(work', outcomes', upset', HonestyVerdict', findings'[2])
    BY <1>1, <1>3, <1>6, <1>9
  <2>2. findings'[2].check = "honesty" /\ findings'[3].check = "skill_compliance"
    BY <1>2, <1>3, <1>6
  <2> QED BY <1>1, <1>4, <1>6, <2>1, <2>2 DEF FindingsAreTrue
<1> QED BY <1>7, <1>8, <1>10 DEF GateInv

LEMMA EndGateKeeps ==
  ASSUME GateInv, EndGate
  PROVE  GateInv'
<1>1. /\ UNCHANGED <<work, samples, outcomes, findings, upset>> /\ stage = "done" /\ GateTyped
      /\ arm \in Nat /\ Arms \in Nat
  BY GateAssumption DEF EndGate, GateInv, GateTyped
<1>2. \/ stage' = "start" /\ arm' = arm + 1
      \/ stage' = "exit" /\ arm' = arm
  BY DEF EndGate
<1>3. GateTyped'
  <2>1. arm' \in Nat /\ stage' \in {"start", "exit"}
    BY <1>1, <1>2
  <2> QED BY <1>1, <2>1 DEF GateTyped
<1>4. SamplesAreTrue' /\ OutcomesAreTrue'
  BY <1>1 DEF GateInv, SamplesAreTrue, OutcomesAreTrue
<1>5. FindingsAreTrue'
  <2>1. CASE stage' = "start"
    BY <2>1 DEF FindingsAreTrue
  <2>2. CASE stage' = "exit"
    BY <2>2 DEF FindingsAreTrue
  <2> QED BY <1>2, <2>1, <2>2
<1> QED BY <1>3, <1>4, <1>5 DEF GateInv

LEMMA GateRejectsKeeps ==
  ASSUME GateInv, GateRejects
  PROVE  GateInv'
<1>1. UNCHANGED <<work, arm, samples, outcomes, findings, upset>> /\ stage' = "exit" /\ GateTyped
  BY DEF GateRejects, GateInv
<1>2. GateTyped'
  BY <1>1 DEF GateTyped
<1>3. SamplesAreTrue' /\ OutcomesAreTrue'
  BY <1>1 DEF GateInv, SamplesAreTrue, OutcomesAreTrue
<1>4. FindingsAreTrue'
  BY <1>1 DEF FindingsAreTrue
<1> QED BY <1>2, <1>3, <1>4 DEF GateInv

(* Every step keeps the invariant.                                         *)
LEMMA GateKeepsInv == GateInv /\ [GateNext]_gateVars => GateInv'
<1> SUFFICES ASSUME GateInv, [GateNext]_gateVars PROVE GateInv'
  OBVIOUS
<1>1. CASE BeginGate
  BY <1>1, BeginGateKeeps
<1>2. CASE GrowthRefused
  BY <1>2, GrowthRefusedKeeps
<1>3. CASE TimeSize
  BY <1>3, TimeSizeKeeps
<1>4. CASE GrowthFinding
  BY <1>4, GrowthFindingKeeps
<1>5. CASE Baseline
  BY <1>5, BaselineKeeps
<1>6. CASE Mutate
  BY <1>6, MutateKeeps
<1>7. CASE HonestyThrows
  BY <1>7, HonestyThrowsKeeps
<1>8. CASE HonestyFinding
  BY <1>8, HonestyFindingKeeps
<1>9. CASE ComplianceFinding
  BY <1>9, ComplianceFindingKeeps
<1>10. CASE EndGate
  BY <1>10, EndGateKeeps
<1>11. CASE Undeclared
  BY <1>11, UndeclaredKeeps
<1>12. CASE GateRejects
  BY <1>12, GateRejectsKeeps
<1>13. CASE UNCHANGED gateVars
  <2>1. HonestyVerdict' = HonestyVerdict
    BY <1>13 DEF gateVars, HonestyVerdict, KindsDetected, KindsProbed, Effective, Detected, Confirmed
  <2>2. GateTyped' /\ SamplesAreTrue' /\ OutcomesAreTrue'
    BY <1>13 DEF gateVars, GateInv, GateTyped, SamplesAreTrue, OutcomesAreTrue
  <2>3. FindingsAreTrue'
    BY <1>13, <2>1 DEF gateVars, GateInv, FindingsAreTrue
  <2> QED BY <2>2, <2>3 DEF GateInv
<1> QED BY <1>1, <1>2, <1>3, <1>4, <1>5, <1>6, <1>7, <1>8, <1>9, <1>10, <1>11, <1>12, <1>13
    DEF GateNext

LEMMA GateInvHolds == GateSpec => []GateInv
<1>1. GateInit => GateInv
  BY GateBegins
<1>2. GateInv /\ [GateNext]_gateVars => GateInv'
  BY GateKeepsInv
<1> QED BY <1>1, <1>2, PTL DEF GateSpec

-----------------------------------------------------------------------------
(* From the invariant to what a verdict is worth.                          *)

(* A series to the end, within the budget, is the cost at every size.      *)
LEMMA SeriesIsTheCost ==
  ASSUME GateInv, Len(samples) = Sizes, \A i \in DOMAIN samples : ~samples[i].over_budget
  PROVE  /\ Used(samples) = {i \in 1..Sizes : work.cost[i] >= Floor}
         /\ Fit(samples) = FitLine({i \in 1..Sizes : work.cost[i] >= Floor}, work.cost)
         /\ work.throws \notin 1..Sizes /\ samples # <<>>
         /\ \A i \in 1..Sizes : samples[i].used <=> work.cost[i] >= Floor
<1>1. /\ samples \in Seq(Sample) /\ DOMAIN samples = 1..Sizes
      /\ work.cost \in [1..Sizes -> Int] /\ Sizes \in 2..5 /\ DOMAIN work.cost = 1..Sizes
  <2>1. samples \in Seq(Sample) /\ work \in Deliverable
    BY DEF GateInv, GateTyped
  <2>2. work.cost \in [1..Sizes -> Int] /\ Sizes \in 2..5 /\ DOMAIN work.cost = 1..Sizes
    BY <2>1, WorkIs
  <2> QED BY <2>1, <2>2
<1>2. ASSUME NEW i \in 1..Sizes
      PROVE  /\ samples[i].ms = work.cost[i] /\ i # work.throws
             /\ samples[i].used <=> work.cost[i] >= Floor
  <2>1. SampleIsTrue(work, samples, upset, i) /\ ~samples[i].over_budget
    BY <1>1 DEF GateInv, SamplesAreTrue
  <2> QED BY <2>1, Zenon DEF SampleIsTrue
<1>3. Used(samples) = {i \in 1..Sizes : work.cost[i] >= Floor}
  <2>1. \A i \in 1..Sizes : samples[i].used <=> work.cost[i] >= Floor
    BY <1>2
  <2> QED BY <1>1, <2>1, Zenon DEF Used
<1>4. [i \in DOMAIN samples |-> samples[i].ms] = work.cost
  <2>1. \A i \in 1..Sizes : samples[i].ms = work.cost[i]
    BY <1>2
  <2> QED BY <1>1, <2>1
<1>5. samples # <<>>
  BY <1>1
<1>6. \A i \in 1..Sizes : samples[i].used <=> work.cost[i] >= Floor
  BY <1>2
<1>7. work.throws \notin 1..Sizes
  BY <1>2
<1> QED BY <1>3, <1>4, <1>5, <1>6, <1>7 DEF Fit

(* The least of some places is one of them.                                *)
LEMMA LeastPlace ==
  ASSUME NEW n \in Nat, NEW xs \in SUBSET (1..n), xs # {}
  PROVE  Min(xs) \in xs /\ \A i \in xs : Min(xs) <= i
<1>1. \E x \in xs : \A i \in xs : x <= i
  <2>1. xs \in SUBSET Nat
    OBVIOUS
  <2> QED BY <2>1, LeastNatural
<1> QED BY <1>1 DEF Min

(* What the growth check accepts is bounded at every size.                 *)
LEMMA AcceptedIsBounded ==
  ASSUME GateInv, GrowthIsTrue(work, samples, findings[1]), findings[1].passed
  PROVE  work.entry = "callable" /\ work.throws \notin DOMAIN work.cost /\ CostIsBounded(work)
<1>1. /\ FitGrowth(samples) \in GrowthAccepted /\ work.entry = "callable"
      /\ Len(samples) = Sizes \/ \E i \in DOMAIN samples : samples[i].over_budget
  BY DEF GrowthIsTrue
<1>2. \A i \in DOMAIN samples : ~samples[i].over_budget
  <2>1. "exceeded_budget" \notin GrowthAccepted
    BY DEF GrowthAccepted
  <2> QED BY <1>1, <2>1 DEF FitGrowth
<1>3. /\ work.cost \in [1..Sizes -> Int] /\ Sizes \in 2..5 /\ DOMAIN work.cost = 1..Sizes
      /\ Len(work.cost) = Sizes /\ Floor \in Int /\ MinPoints \in Nat /\ MinPoints >= 2
  <2>1. work \in Deliverable
    BY DEF GateInv, GateTyped
  <2> QED BY <2>1, WorkIs, GateAssumption
<1> DEFINE xs == {i \in 1..Sizes : work.cost[i] >= Floor}
<1>4. /\ Used(samples) = xs /\ Fit(samples) = FitLine(xs, work.cost)
      /\ work.throws \notin 1..Sizes /\ samples # <<>>
      /\ \A i \in 1..Sizes : samples[i].used <=> work.cost[i] >= Floor
  BY <1>1, <1>2, SeriesIsTheCost
<1>5. CASE work.cost[Sizes] < Floor
  <2>1. CostIsBounded(work)
    BY <1>3, <1>5 DEF CostIsBounded
  <2> QED BY <1>1, <1>3, <1>4, <2>1
<1>6. CASE ~(work.cost[Sizes] < Floor)
  <2>1. Sizes \in xs
    BY <1>3, <1>6
  <2>2. samples[Len(samples)].used
    BY <1>1, <1>2, <1>3, <1>4, <2>1
  <2>3. ~(Cardinality(xs) < MinPoints)
    <3>1. "insufficient_points" \notin GrowthAccepted
      BY DEF GrowthAccepted
    <3> QED BY <1>1, <1>2, <1>4, <2>2, <3>1 DEF FitGrowth
  <2>4. /\ OnALine(Fit(samples)) /\ ClassifyExponent(Fit(samples)) = "constant_or_linear"
    <3>1. FitGrowth(samples) = IF ~OnALine(Fit(samples)) THEN "unfittable" ELSE ClassifyExponent(Fit(samples))
      BY <1>2, <1>4, <2>3 DEF FitGrowth
    <3>2. ClassifyExponent(Fit(samples)) \in {"constant_or_linear", "superlinear", "quadratic_or_worse"}
      BY DEF ClassifyExponent
    <3> QED BY <1>1, <3>1, <3>2 DEF GrowthAccepted
  <2>5. Cardinality(xs) >= 2
    <3>1. Cardinality(xs) \in Nat
      <4>1. xs \in SUBSET (1..Sizes) /\ Sizes \in Nat
        BY <1>3
      <4> HIDE DEF xs
      <4> QED BY <4>1, IndicatorCounts
    <3> HIDE DEF xs
    <3> QED BY <1>3, <2>3, <3>1
  <2>6. Min(xs) \in xs /\ \A i \in xs : Min(xs) <= i
    <3>1. xs \in SUBSET (1..Sizes) /\ xs # {} /\ Sizes \in Nat
      BY <1>3, <2>1
    <3> HIDE DEF xs
    <3> QED BY <3>1, LeastPlace
  <2> DEFINE first == Min(xs)
  <2>7. \A i \in xs : first <= i /\ i <= Sizes
    BY <1>3, <2>6
  <2>8. 2 * (work.cost[Sizes] - work.cost[first]) <= 3 * (Sizes - first)
    <3> DEFINE n == Sizes
               y == work.cost
               last == Sizes
    <3>1. /\ n \in 1..5 /\ xs \in SUBSET (1..n) /\ y \in [1..n -> Int]
          /\ first \in xs /\ last \in xs /\ \A i \in xs : first <= i /\ i <= last
          /\ OnALine(FitLine(xs, y)) /\ ClassifyExponent(FitLine(xs, y)) = "constant_or_linear"
      BY <1>3, <1>4, <2>1, <2>4, <2>6, <2>7
    <3> HIDE DEF n, xs, y, first, last
    <3>2. 2 * (y[last] - y[first]) <= 3 * (last - first)
      BY <2>5, <3>1, RiseIsBounded
    <3> QED BY <3>2 DEF y, last
  <2>9. CostIsBounded(work)
    <3>1. xs # {}
      BY <2>1
    <3>2. {i \in 1..Len(work.cost) : work.cost[i] >= Floor} = xs
      BY <1>3
    <3> HIDE DEF xs
    <3> QED BY <1>3, <2>8, <3>1, <3>2 DEF CostIsBounded
  <2> QED BY <1>1, <1>3, <1>4, <2>9
<1> QED BY <1>5, <1>6

(* What counts as tried and as caught, against what the deliverable does   *)
(* and what had no exit code.                                              *)
Tells ==
  /\ KindsDetected \subseteq KindsProbed /\ KindsProbed \subseteq Kinds
  /\ work.catches \subseteq KindsDetected /\ KindsDetected \subseteq work.catches \cup CutShort
  /\ KindsProbed \ KindsDetected \subseteq work.real \cup Unanswered
  /\ work.rewrites \/ work.real \subseteq KindsProbed
  /\ Effective = {} <=> KindsProbed = {}

LEMMA OutcomesTell ==
  ASSUME GateInv, Len(outcomes) = 2
  PROVE  /\ \A i \in DOMAIN outcomes : outcomes[i].applied <=> work.target
         /\ DOMAIN outcomes # {}
         /\ work.catches \subseteq Kinds /\ work.real \subseteq Kinds
         /\ work.target => Tells
<1>1. DOMAIN outcomes = 1..2 /\ work \in Deliverable /\ outcomes \in Seq(Outcome)
  BY DEF GateInv, GateTyped
<1>2. ASSUME NEW i \in 1..2 PROVE OutcomeIsTrue(work, outcomes[i], Mutations[i])
  BY <1>1 DEF GateInv, OutcomesAreTrue
<1>3. work.catches \subseteq Kinds /\ work.real \subseteq Kinds /\ work.target \in BOOLEAN
  BY <1>1, WorkIs
<1>4. ASSUME NEW i \in 1..2 PROVE outcomes[i].applied <=> work.target
  BY <1>2, Zenon DEF OutcomeIsTrue
<1>5. ASSUME work.target PROVE Tells
  <2>1. ASSUME NEW i \in 1..2
        PROVE  /\ outcomes[i].kind = Mutations[i] /\ outcomes[i].applied
               /\ outcomes[i].exit_code \in ExitCodes
               /\ outcomes[i].reference \in {"unasked"} \cup ExitCodes
               /\ outcomes[i].exit_code = "zero" => Mutations[i] \notin work.catches
               /\ outcomes[i].exit_code = "other" => Mutations[i] \in work.catches
               /\ outcomes[i].reference = "unasked" <=> outcomes[i].exit_code # "zero"
               /\ outcomes[i].reference = "zero" => Mutations[i] \notin work.real \/ work.rewrites
               /\ outcomes[i].reference = "other" => Mutations[i] \in work.real
    <3>1. outcomes[i] \in Outcome
      BY <1>1
    <3>2. OutcomeIsTrue(work, outcomes[i], Mutations[i]) /\ outcomes[i].applied
      BY <1>2, <1>4, <1>5
    <3> QED BY <3>1, <3>2 DEF OutcomeIsTrue, Outcome
  <2>2. Mutations[1] = "type_error" /\ Mutations[2] = "syntax_error" /\ Kinds = {Mutations[1], Mutations[2]}
        /\ Mutations[1] # Mutations[2]
    BY DEF Mutations, Kinds
  <2> DEFINE ended(i) == outcomes[i].exit_code
             asked(i) == outcomes[i].reference
             kind(i) == Mutations[i]
  <2>3. /\ Effective = {i \in 1..2 : asked(i) # "zero"}
        /\ KindsProbed = {kind(i) : i \in Effective}
        /\ KindsDetected = {k \in KindsProbed : \A i \in Effective : kind(i) = k => ended(i) # "zero"}
        /\ CutShort = {kind(i) : i \in {j \in 1..2 : ended(j) = "null"}}
        /\ Unanswered = {kind(i) : i \in {j \in 1..2 : asked(j) = "null"}}
    <3>1. Effective = {i \in 1..2 : asked(i) # "zero"}
      BY <1>1, <2>1 DEF Effective, Confirmed
    <3>2. \A i \in Effective : i \in 1..2
      BY <3>1
    <3>3. KindsProbed = {kind(i) : i \in Effective}
      BY <2>1, <3>2 DEF KindsProbed
    <3>4. KindsDetected = {k \in KindsProbed : \A i \in Effective : kind(i) = k => ended(i) # "zero"}
      BY <2>1, <3>2 DEF KindsDetected, Detected
    <3>5. CutShort = {kind(i) : i \in {j \in 1..2 : ended(j) = "null"}}
      BY <1>1, <2>1 DEF CutShort
    <3>6. Unanswered = {kind(i) : i \in {j \in 1..2 : asked(j) = "null"}}
      BY <1>1, <2>1 DEF Unanswered
    <3> QED BY <3>1, <3>3, <3>4, <3>5, <3>6
  <2>4. \A i \in 1..2, j \in 1..2 : kind(i) = kind(j) => i = j
    BY <2>2
  <2>5. \A k \in Kinds : \E i \in 1..2 : kind(i) = k
    BY <2>2
  <2>6. \A i \in 1..2 : kind(i) \in Kinds
    BY <2>2
  <2>7. \A i \in 1..2 :
          /\ ended(i) \in {"zero", "other", "null"} /\ asked(i) \in {"unasked", "zero", "other", "null"}
          /\ ended(i) = "zero" => kind(i) \notin work.catches
          /\ ended(i) = "other" => kind(i) \in work.catches
          /\ asked(i) = "unasked" <=> ended(i) # "zero"
          /\ asked(i) = "zero" => kind(i) \notin work.real \/ work.rewrites
          /\ asked(i) = "other" => kind(i) \in work.real
    BY <2>1 DEF ExitCodes
  <2> HIDE DEF ended, asked, kind
  <2>8. ASSUME NEW i \in 1..2
        PROVE  /\ kind(i) \in KindsProbed <=> asked(i) # "zero"
               /\ kind(i) \in KindsDetected <=> ended(i) # "zero"
               /\ ended(i) = "null" => kind(i) \in CutShort
               /\ asked(i) = "null" => kind(i) \in Unanswered
    <3>1. kind(i) \in KindsProbed <=> asked(i) # "zero"
      BY <2>3, <2>4
    <3>2. ended(i) # "zero" => asked(i) # "zero"
      BY <2>7
    <3>3. kind(i) \in KindsDetected <=> ended(i) # "zero"
      BY <2>3, <2>4, <2>7, <3>1, <3>2
    <3> QED BY <2>3, <3>1, <3>3
  <2>9. KindsProbed \subseteq Kinds /\ (Effective = {} <=> KindsProbed = {})
    <3>1. \A i \in Effective : i \in 1..2
      BY <2>3
    <3>2. KindsProbed = {kind(i) : i \in Effective}
      BY <2>3
    <3> QED BY <2>6, <3>1, <3>2
  <2>10. KindsDetected \subseteq KindsProbed
    BY <2>3
  <2>11. ASSUME NEW k \in Kinds
         PROVE  /\ k \in work.catches => k \in KindsDetected
                /\ k \in KindsDetected => k \in work.catches \cup CutShort
                /\ k \in KindsProbed \ KindsDetected => k \in work.real \cup Unanswered
                /\ k \in work.real => work.rewrites \/ k \in KindsProbed
    <3>1. PICK i \in 1..2 : kind(i) = k
      BY <2>5
    <3> QED BY <2>7, <2>8, <3>1
  <2> QED BY <1>3, <2>9, <2>10, <2>11 DEF Tells
<1> QED BY <1>1, <1>3, <1>4, <1>5

(* What the gate knows when it has judged.                                 *)
LEMMA JudgedIs ==
  ASSUME GateInv, Judged
  PROVE  /\ Len(findings) = 3 /\ findings \in Seq(GateFinding)
         /\ GrowthIsTrue(work, samples, findings[1])
         /\ findings[1].check = "growth" /\ findings[2].check = "honesty"
         /\ findings[3].check = "skill_compliance"
         /\ HonestyIsTrue(work, outcomes, upset, HonestyVerdict, findings[2])
         /\ GatePassed <=> findings[1].passed /\ findings[2].passed
         /\ VerdictOf("growth") = {findings[1].verdict}
         /\ VerdictOf("honesty") = {findings[2].verdict}
<1>1. /\ Len(findings) = 3 /\ findings \in Seq(GateFinding)
      /\ GrowthIsTrue(work, samples, findings[1])
      /\ findings[2].check = "honesty" /\ findings[3].check = "skill_compliance"
      /\ HonestyIsTrue(work, outcomes, upset, HonestyVerdict, findings[2])
  BY DEF Judged, GateInv, GateTyped, FindingsAreTrue
<1>2. findings[1].check = "growth"
  BY <1>1 DEF GrowthIsTrue
<1>3. DOMAIN findings = 1..3
  BY <1>1
<1>4. GatePassed <=> findings[1].passed /\ findings[2].passed
  <2>1. GatePassed <=> \A i \in 1..3 : ~Blocking(findings[i])
    BY <1>3 DEF GatePassed
  <2>2. /\ Blocking(findings[1]) <=> ~findings[1].passed
        /\ Blocking(findings[2]) <=> ~findings[2].passed
        /\ ~Blocking(findings[3])
    BY <1>1, <1>2 DEF Blocking
  <2>3. \A i \in 1..3 : i = 1 \/ i = 2 \/ i = 3
    OBVIOUS
  <2>4. 1 \in 1..3 /\ 2 \in 1..3
    OBVIOUS
  <2> QED BY <2>1, <2>2, <2>3, <2>4
<1>5. /\ {j \in DOMAIN findings : findings[j].check = "growth"} = {1}
      /\ {j \in DOMAIN findings : findings[j].check = "honesty"} = {2}
  BY <1>1, <1>2, <1>3
<1>6. VerdictOf("growth") = {findings[1].verdict} /\ VerdictOf("honesty") = {findings[2].verdict}
  BY <1>5 DEF VerdictOf
<1> QED BY <1>1, <1>2, <1>4, <1>6

(* What a finding that the defects were tried says of them.                *)
LEMMA TriedMeans ==
  ASSUME GateInv, Judged,
         findings[2].verdict \in {"verifies", "partially_verifies", "vacuous", "mutation_ineffective"}
  PROVE  /\ work.script = "declared" /\ work.passes /\ HonestyVerdict = findings[2].verdict
         /\ work.target /\ Tells
         /\ findings[2].passed <=> findings[2].verdict = "verifies"
<1>1. HonestyIsTrue(work, outcomes, upset, HonestyVerdict, findings[2])
  BY JudgedIs
<1>2. /\ work.script = "declared" /\ work.passes /\ Len(outcomes) = 2
      /\ HonestyVerdict = findings[2].verdict
      /\ findings[2].passed <=> findings[2].verdict = "verifies"
  BY <1>1 DEF HonestyIsTrue
<1>3. \E i \in DOMAIN outcomes : outcomes[i].applied
  BY <1>2 DEF HonestyVerdict
<1>4. work.target /\ Tells
  BY <1>2, <1>3, OutcomesTell
<1> QED BY <1>2, <1>4

LEMMA InvEarns == GateInv => GateIsEarned
<1> SUFFICES ASSUME GateInv, Judged, GatePassed
             PROVE  /\ work.entry = "callable" /\ work.throws \notin DOMAIN work.cost
                    /\ CostIsBounded(work)
                    /\ work.script = "declared" /\ work.passes /\ work.target
                    /\ work.catches \cup CutShort # {}
                    /\ work.rewrites \/ work.real \subseteq work.catches \cup CutShort
  BY DEF GateIsEarned
<1>1. /\ GrowthIsTrue(work, samples, findings[1]) /\ findings[1].passed /\ findings[2].passed
      /\ HonestyIsTrue(work, outcomes, upset, HonestyVerdict, findings[2])
  BY JudgedIs
<1>2. /\ work.entry = "callable" /\ work.throws \notin DOMAIN work.cost /\ CostIsBounded(work)
  BY <1>1, AcceptedIsBounded
<1>3. findings[2].verdict = "verifies"
  BY <1>1 DEF HonestyIsTrue
<1>4. work.script = "declared" /\ work.passes /\ work.target /\ Tells /\ HonestyVerdict = "verifies"
  BY <1>3, TriedMeans
<1>5. KindsDetected # {} /\ KindsDetected = KindsProbed
  BY <1>4 DEF HonestyVerdict
<1>6. work.catches \cup CutShort # {}
  BY <1>4, <1>5 DEF Tells
<1>7. work.rewrites \/ work.real \subseteq work.catches \cup CutShort
  BY <1>4, <1>5 DEF Tells
<1> QED BY <1>2, <1>4, <1>6, <1>7

(* A cost that doubles with the size lies on the line of slope one.        *)
LEMMA DoublingIsALine ==
  ASSUME NEW n \in Nat, n >= 2, NEW y \in [1..n -> Int], \A i \in 1..n : y[i] = y[1] + i - 1
  PROVE  OnALine(FitLine(1..n, y)) /\ ClassifyExponent(FitLine(1..n, y)) = "constant_or_linear"
<1> DEFINE xs == 1..n
           P == Positions(n)
           u == Indicator(xs, n)
           c == y[1] - 1
           X == Centred(xs, P)
           Y == Centred(xs, y)
           one == 1
           L == FitLine(xs, y)
<1>1. xs \in SUBSET (1..n) /\ Cardinality(xs) = n /\ one \in Int
  BY PlacesCounted
<1>2. P \in [1..n -> Int] /\ \A i \in 1..n : P[i] = i
  BY DEF Positions
<1>3. u \in [1..n -> Int] /\ Total(u) = n /\ \A i \in 1..n : u[i] = 1
  <2>1. u \in [1..n -> Int] /\ Total(u) = Cardinality(xs)
    BY <1>1, IndicatorCounts
  <2> QED BY <1>1, <2>1 DEF Indicator
<1>4. 1 \in 1..n /\ c \in Int /\ \A i \in 1..n : y[i] = i + c
  OBVIOUS
<1> HIDE DEF P, u, c, one
<1>5. IsComb(Comb(one, P, c, u), n, one, P, c, u)
  BY <1>1, <1>2, <1>3, <1>4, CombIs
<1>6. Comb(one, P, c, u) = y
  <2>1. \A i \in 1..n : Comb(one, P, c, u)[i] = one * P[i] + c * u[i]
    BY <1>5 DEF IsComb
  <2>2. \A i \in 1..n : one * P[i] + c * u[i] = y[i]
    BY <1>2, <1>3, <1>4 DEF one
  <2>3. Comb(one, P, c, u) \in [1..n -> Int]
    BY <1>5 DEF IsComb
  <2> QED BY <2>1, <2>2, <2>3
<1> DEFINE t == Total(P)
<1>7. t \in Int /\ Masked(xs, P) = P /\ Masked(xs, y) = y
  <2>1. Masked(xs, P) = P
    BY <1>2 DEF Masked
  <2>2. Masked(xs, y) = y
    BY DEF Masked
  <2>3. Total(Masked(xs, P)) \in Int
    <3>1. IsCentred(Centred(xs, P), Total(Masked(xs, P)), xs, P, n)
      BY <1>1, <1>2, CentredNamed
    <3> QED BY ONLY <3>1 DEF IsCentred
  <2> QED BY <2>1, <2>2, <2>3
<1>8. Total(y) = t + c * n
  <2>1. Total(y) = one * t + c * Total(u)
    BY <1>5, <1>6 DEF IsComb
  <2> HIDE DEF t
  <2> QED BY <1>3, <1>4, <1>7, <2>1 DEF one
<1>9. /\ X \in [1..n -> Int] /\ \A i \in 1..n : X[i] = n * i - t
  <2>1. /\ X \in [1..n -> Int] /\ \A i \in xs : X[i] = Cardinality(xs) * P[i] - Total(Masked(xs, P))
    <3>1. IsCentred(X, Total(Masked(xs, P)), xs, P, n)
      BY <1>1, <1>2, CentredNamed
    <3> HIDE DEF X, P
    <3> QED BY ONLY <3>1 DEF IsCentred
  <2> HIDE DEF X
  <2> QED BY <1>1, <1>2, <1>7, <2>1
<1>10. /\ Y \in [1..n -> Int] /\ \A i \in 1..n : Y[i] = n * y[i] - Total(y)
  <2>1. /\ Y \in [1..n -> Int] /\ \A i \in xs : Y[i] = Cardinality(xs) * y[i] - Total(Masked(xs, y))
    <3>1. IsCentred(Y, Total(Masked(xs, y)), xs, y, n)
      BY <1>1, CentredNamed
    <3> HIDE DEF Y
    <3> QED BY ONLY <3>1 DEF IsCentred
  <2> HIDE DEF Y
  <2> QED BY <1>1, <1>7, <2>1
<1>11. Y = X
  <2>1. ASSUME NEW i \in 1..n PROVE Y[i] = X[i]
    <3>1. Y[i] = n * (i + c) - (t + c * n)
      BY <1>4, <1>8, <1>10
    <3>2. n * (i + c) = n * i + n * c /\ n * c = c * n /\ n * i \in Int /\ n * c \in Int
      BY <1>4
    <3>3. X[i] = n * i - t /\ t \in Int
      BY <1>7, <1>9
    <3> DEFINE v == n * i
               w == n * c
    <3>4. /\ Y[i] = (v + w) - (t + w) /\ X[i] = v - t
          /\ v \in Int /\ w \in Int /\ t \in Int
      BY ONLY <3>1, <3>2, <3>3
    <3> HIDE DEF X, Y, t, v, w
    <3> QED BY ONLY <3>4
  <2> HIDE DEF X, Y
  <2> QED BY <1>9, <1>10, <2>1
<1> DEFINE A == Dot(X, X)
<1>12. L.sxx = A /\ L.sxy = A /\ L.syy = A /\ A \in Int /\ A > 0
  <2>1. Cardinality(xs) >= 2
    BY <1>1
  <2>2. /\ L.sxx = Dot(X, X) /\ L.sxy = Dot(X, Y) /\ L.syy = Dot(Y, Y)
        /\ Dot(X, X) \in Int /\ Dot(X, X) > 0
    BY <1>1, <2>1, FitLineIs DEF P
  <2> HIDE DEF X, Y, L
  <2> QED BY <1>11, <2>2
<1> HIDE DEF L, A
<1>13. OnALine(L)
  <2>1. 10 * A * A >= 9 * A * A
    <3>1. 10 * A * A = 10 * (A * A) /\ 9 * A * A = 9 * (A * A)
      BY <1>12
    <3>2. A * A \in Int /\ A * A >= 0
      BY <1>12, SquareIsPositive
    <3> QED BY <3>1, <3>2
  <2> QED BY <1>12, <2>1 DEF OnALine
<1>14. ClassifyExponent(L) = "constant_or_linear"
  <2>1. 10 * A < 13 * A
    BY <1>12
  <2> QED BY <1>12, <2>1 DEF ClassifyExponent
<1> QED BY <1>13, <1>14 DEF L

(* Growth of sound work is accepted.                                       *)
LEMMA SoundGrowthIsAccepted ==
  ASSUME GateInv, upset = {}, Sound(work), GrowthIsTrue(work, samples, findings[1])
  PROVE  findings[1].passed
<1>1. /\ work.cost \in [1..Sizes -> Int] /\ Sizes \in 2..5 /\ DOMAIN work.cost = 1..Sizes
      /\ Floor \in Int /\ Budget \in Int /\ MinPoints \in Nat /\ MinPoints >= 2 /\ MinPoints <= Sizes
  <2>1. work \in Deliverable
    BY DEF GateInv, GateTyped
  <2> QED BY <2>1, WorkIs, GateAssumption
<1>2. /\ work.entry = "callable" /\ work.throws \notin 1..Sizes
      /\ \/ \A i \in 1..Sizes : work.cost[i] < Floor
         \/ \A i \in 1..Sizes : work.cost[i] >= Floor /\ work.cost[i] = work.cost[1] + i - 1
      /\ \A i \in 1..Sizes : work.cost[i] <= Budget
  BY <1>1 DEF Sound
<1>3. /\ findings[1].passed <=> FitGrowth(samples) \in GrowthAccepted
      /\ Len(samples) = Sizes \/ \E i \in DOMAIN samples : samples[i].over_budget
  BY <1>2 DEF GrowthIsTrue
<1>4. \A i \in DOMAIN samples : ~samples[i].over_budget
  <2> SUFFICES ASSUME NEW i \in DOMAIN samples, samples[i].over_budget PROVE FALSE
    OBVIOUS
  <2>1. i <= Sizes /\ work.cost[i] > Budget
    BY DEF GateInv, SamplesAreTrue, SampleIsTrue
  <2>2. i \in 1..Sizes
    <3>1. samples \in Seq(Sample)
      BY DEF GateInv, GateTyped
    <3> QED BY <1>1, <2>1, <3>1
  <2> QED BY <1>1, <1>2, <2>1, <2>2
<1> DEFINE xs == {i \in 1..Sizes : work.cost[i] >= Floor}
<1>5. /\ Len(samples) = Sizes /\ Used(samples) = xs /\ Fit(samples) = FitLine(xs, work.cost)
      /\ samples # <<>> /\ \A i \in 1..Sizes : samples[i].used <=> work.cost[i] >= Floor
  BY <1>3, <1>4, SeriesIsTheCost
<1>6. CASE \A i \in 1..Sizes : work.cost[i] < Floor
  <2>1. xs = {} /\ ~samples[Len(samples)].used
    BY <1>1, <1>5, <1>6
  <2>2. Cardinality(xs) < MinPoints
    <3>1. Cardinality(xs) = 0
      BY <2>1, FS_EmptySet
    <3> QED BY <1>1, <3>1
  <2>3. FitGrowth(samples) = "below_measurement_floor"
    <3> HIDE DEF xs
    <3> QED BY <1>4, <1>5, <2>1, <2>2 DEF FitGrowth
  <2> QED BY <1>3, <2>3 DEF GrowthAccepted
<1>7. CASE \A i \in 1..Sizes : work.cost[i] >= Floor /\ work.cost[i] = work.cost[1] + i - 1
  <2>1. xs = 1..Sizes
    BY <1>7
  <2>2. ~(Cardinality(xs) < MinPoints)
    <3>1. Cardinality(1..Sizes) = Sizes
      BY <1>1, PlacesCounted
    <3>2. Cardinality(xs) = Sizes
      BY <2>1, <3>1
    <3> HIDE DEF xs
    <3> QED BY <1>1, <3>2
  <2>3. OnALine(FitLine(xs, work.cost)) /\ ClassifyExponent(FitLine(xs, work.cost)) = "constant_or_linear"
    <3> DEFINE n == Sizes
               y == work.cost
    <3>1. n \in Nat /\ n >= 2 /\ y \in [1..n -> Int] /\ \A i \in 1..n : y[i] = y[1] + i - 1
      BY <1>1, <1>7
    <3> HIDE DEF n, y
    <3>2. OnALine(FitLine(1..n, y)) /\ ClassifyExponent(FitLine(1..n, y)) = "constant_or_linear"
      BY <3>1, DoublingIsALine
    <3> QED BY <2>1, <3>2 DEF n, y
  <2>4. FitGrowth(samples) = "constant_or_linear"
    <3> HIDE DEF xs
    <3> QED BY <1>4, <1>5, <2>2, <2>3 DEF FitGrowth
  <2> QED BY <1>3, <2>4 DEF GrowthAccepted
<1> QED BY <1>2, <1>6, <1>7

(* The growth check calls nothing too steep whose every doubling at most   *)
(* doubles the cost, and nothing too slow that is within the budget and    *)
(* was not paused.                                                         *)
LEMMA GrowthAccusesTruly ==
  ASSUME GateInv, GrowthIsTrue(work, samples, findings[1])
  PROVE  /\ findings[1].verdict \in {"superlinear", "quadratic_or_worse"} =>
              \E i \in 2..Len(work.cost) : work.cost[i] > work.cost[i - 1] + 1
         /\ findings[1].verdict = "exceeded_budget" =>
              "first_run" \in upset \/ \E i \in DOMAIN work.cost : work.cost[i] > Budget
<1>1. /\ work.cost \in [1..Sizes -> Int] /\ Sizes \in 2..5 /\ DOMAIN work.cost = 1..Sizes
      /\ Len(work.cost) = Sizes /\ Floor \in Int /\ MinPoints \in Nat /\ MinPoints >= 2
  <2>1. work \in Deliverable
    BY DEF GateInv, GateTyped
  <2> QED BY <2>1, WorkIs, GateAssumption
<1>2. ASSUME findings[1].verdict = "exceeded_budget", "first_run" \notin upset
      PROVE  \E i \in DOMAIN work.cost : work.cost[i] > Budget
  <2>1. FitGrowth(samples) = "exceeded_budget"
    BY <1>2 DEF GrowthIsTrue
  <2>2. \E i \in DOMAIN samples : samples[i].over_budget
    BY <2>1 DEF FitGrowth, ClassifyExponent
  <2>3. PICK i \in DOMAIN samples : samples[i].over_budget
    BY <2>2
  <2>4. i <= Sizes /\ work.cost[i] > Budget
    BY <1>2, <2>3 DEF GateInv, SamplesAreTrue, SampleIsTrue
  <2>5. i \in 1..Sizes
    <3>1. samples \in Seq(Sample)
      BY DEF GateInv, GateTyped
    <3> QED BY <1>1, <2>4, <3>1
  <2> QED BY <1>1, <2>4, <2>5
<1>3. ASSUME findings[1].verdict \in {"superlinear", "quadratic_or_worse"},
             \A i \in 2..Len(work.cost) : ~(work.cost[i] > work.cost[i - 1] + 1)
      PROVE  FALSE
  <2>1. /\ FitGrowth(samples) \in {"superlinear", "quadratic_or_worse"}
        /\ Len(samples) = Sizes \/ \E i \in DOMAIN samples : samples[i].over_budget
    BY <1>3 DEF GrowthIsTrue
  <2>2. \A i \in DOMAIN samples : ~samples[i].over_budget
    BY <2>1 DEF FitGrowth
  <2> DEFINE xs == {i \in 1..Sizes : work.cost[i] >= Floor}
             n == Sizes
             y == work.cost
             L == FitLine(xs, y)
  <2>3. Used(samples) = xs /\ Fit(samples) = L
    BY <2>1, <2>2, SeriesIsTheCost
  <2>4. n \in Nat /\ xs \in SUBSET (1..n) /\ y \in [1..n -> Int]
    BY <1>1
  <2>5. \A i \in 2..n : y[i] <= y[i - 1] + 1
    <3>1. \A i \in 2..n : y[i] \in Int /\ y[i - 1] \in Int
      BY <1>1
    <3>2. \A i \in 2..n : ~(y[i] > y[i - 1] + 1)
      BY <1>1, <1>3
    <3> HIDE DEF y
    <3> QED BY <3>1, <3>2
  <2> HIDE DEF xs, n, y, L
  <2>6. ~(Cardinality(xs) < MinPoints) /\ FitGrowth(samples) = ClassifyExponent(L)
    BY <2>1, <2>2, <2>3 DEF FitGrowth
  <2>7. Cardinality(xs) >= 2
    <3>1. Cardinality(xs) \in Nat
      BY <2>4, IndicatorCounts
    <3> QED BY <1>1, <2>6, <3>1
  <2>8. L.sxy <= L.sxx
    BY <2>4, <2>5, <2>7, SlopeAtMostOne DEF L
  <2>9. L.sxy \in Int /\ L.sxx \in Int /\ L.sxx > 0
    BY <2>4, <2>7, FitLineIs DEF L
  <2>10. 10 * L.sxy < 13 * L.sxx
    BY <2>8, <2>9
  <2> QED BY <2>1, <2>6, <2>10 DEF ClassifyExponent
<1> QED BY <1>2, <1>3

(* The honesty of sound work is accepted; a command is called vacuous only *)
(* if it catches nothing, or said to verify in part only if it misses      *)
(* something, that the reference fails on or does not answer on, and a     *)
(* defect ineffective only if the reference saw none.                      *)
LEMMA HonestyAccusesTruly ==
  ASSUME GateInv, Judged
  PROVE  /\ Sound(work) /\ upset = {} => findings[2].passed
         /\ findings[2].verdict = "vacuous" => work.catches = {} /\ work.real \cup Unanswered # {}
         /\ findings[2].verdict = "partially_verifies" =>
              (work.real \cup Unanswered) \ work.catches # {}
         /\ findings[2].verdict = "mutation_ineffective" =>
              work.catches = {} /\ (work.real = {} \/ work.rewrites)
<1>0. HonestyIsTrue(work, outcomes, upset, HonestyVerdict, findings[2])
  BY JudgedIs
<1>1. ASSUME Sound(work), upset = {} PROVE findings[2].passed
  <2>1. /\ work.script = "declared" /\ work.passes /\ work.target /\ work.catches = Kinds
    BY <1>1 DEF Sound
  <2>2. Len(outcomes) = 2 /\ (findings[2].passed <=> HonestyVerdict = "verifies")
    BY <1>0, <1>1, <2>1 DEF HonestyIsTrue
  <2>3. Tells /\ \E i \in DOMAIN outcomes : outcomes[i].applied
    BY <2>1, <2>2, OutcomesTell
  <2>4. KindsProbed = Kinds /\ KindsDetected = Kinds /\ Effective # {}
    <3>1. Kinds # {}
      BY DEF Kinds
    <3> QED BY <2>1, <2>3, <3>1 DEF Tells
  <2>5. Kinds # {}
    BY DEF Kinds
  <2> QED BY <2>2, <2>3, <2>4, <2>5 DEF HonestyVerdict
<1>2. ASSUME findings[2].verdict = "vacuous"
      PROVE  work.catches = {} /\ work.real \cup Unanswered # {}
  <2>1. HonestyVerdict = "vacuous" /\ Tells
    BY <1>2, TriedMeans
  <2>2. Effective # {} /\ KindsDetected = {}
    BY <2>1 DEF HonestyVerdict
  <2> QED BY <2>1, <2>2 DEF Tells
<1>3. ASSUME findings[2].verdict = "partially_verifies"
      PROVE  (work.real \cup Unanswered) \ work.catches # {}
  <2>1. HonestyVerdict = "partially_verifies" /\ Tells
    BY <1>3, TriedMeans
  <2>2. KindsDetected # KindsProbed
    BY <2>1 DEF HonestyVerdict
  <2>3. PICK k \in KindsProbed : k \notin KindsDetected
    BY <2>1, <2>2 DEF Tells
  <2>4. k \in work.real \cup Unanswered /\ k \notin work.catches
    BY <2>1, <2>3 DEF Tells
  <2> QED BY <2>4
<1>4. ASSUME findings[2].verdict = "mutation_ineffective"
      PROVE  work.catches = {} /\ (work.real = {} \/ work.rewrites)
  <2>1. HonestyVerdict = "mutation_ineffective" /\ Tells
    BY <1>4, TriedMeans
  <2>2. Effective = {}
    BY <2>1 DEF HonestyVerdict
  <2>3. KindsProbed = {} /\ work.catches = {}
    BY <2>1, <2>2 DEF Tells
  <2> QED BY <2>1, <2>3 DEF Tells
<1> QED BY <1>1, <1>2, <1>3, <1>4

LEMMA InvAccuses == GateInv => NoFalseAccusation
<1> SUFFICES ASSUME GateInv, Judged PROVE NoFalseAccusation
  BY DEF NoFalseAccusation
<1>1. /\ GrowthIsTrue(work, samples, findings[1])
      /\ GatePassed <=> findings[1].passed /\ findings[2].passed
      /\ VerdictOf("growth") = {findings[1].verdict}
      /\ VerdictOf("honesty") = {findings[2].verdict}
  BY JudgedIs
<1>2. Sound(work) /\ upset = {} => GatePassed
  BY <1>1, SoundGrowthIsAccepted, HonestyAccusesTruly
<1>3. /\ VerdictOf("growth") \cap {"superlinear", "quadratic_or_worse"} # {} =>
           \E i \in 2..Len(work.cost) : work.cost[i] > work.cost[i - 1] + 1
      /\ "exceeded_budget" \in VerdictOf("growth") =>
           "first_run" \in upset \/ \E i \in DOMAIN work.cost : work.cost[i] > Budget
  BY <1>1, GrowthAccusesTruly
<1>4. /\ "vacuous" \in VerdictOf("honesty") => work.catches = {} /\ work.real \cup Unanswered # {}
      /\ "partially_verifies" \in VerdictOf("honesty") =>
           (work.real \cup Unanswered) \ work.catches # {}
      /\ "mutation_ineffective" \in VerdictOf("honesty") =>
           work.catches = {} /\ (work.real = {} \/ work.rewrites)
  BY <1>1, HonestyAccusesTruly
<1> QED BY <1>2, <1>3, <1>4 DEF NoFalseAccusation

(***************************************************************************)
(* What passes the gate has earned it (src/probes/gate.ts), whatever is    *)
(* cut short, paused or thrown on the way, with at most one pause in the   *)
(* repeats of a size: it is called at every size, is under the floor at    *)
(* the last or rises by no more than the power 3/2, and its own command    *)
(* catches every defect that a reference would, but those on which it was  *)
(* cut short, unless it rewrites its inputs.  For any deliverables, floor, *)
(* budget and pause, three, five or seven repeats, and up to five sizes:   *)
(* beyond five the fit does not bound the rise.                            *)
(***************************************************************************)
THEOREM PassesAreEarned == GateSpec => []GateIsEarned
<1>1. GateInv => GateIsEarned
  BY InvEarns
<1>2. GateSpec => []GateInv
  BY GateInvHolds
<1> QED BY <1>1, <1>2, PTL

(***************************************************************************)
(* What the gate says against a deliverable is so (growth.ts,              *)
(* verification-honesty.ts), or something named went wrong: sound work     *)
(* passes if nothing did, a slope is called superlinear only if some       *)
(* doubling of the size more than doubles the cost, a budget exceeded only *)
(* if it is or a first run was paused, a command vacuous, or verifying in  *)
(* part, only if it misses what the reference fails on or had no exit code *)
(* on, and a defect ineffective only if the reference saw none.            *)
(***************************************************************************)
THEOREM AccusationsAreTrue == GateSpec => []NoFalseAccusation
<1>1. GateInv => NoFalseAccusation
  BY InvAccuses
<1>2. GateSpec => []GateInv
  BY GateInvHolds
<1> QED BY <1>1, <1>2, PTL

-----------------------------------------------------------------------------
(***************************************************************************)
(* The diff (HeldoutDiff). The longest common subsequence first: its table *)
(* exists, its entries are counts and rise by at most one.                 *)
(***************************************************************************)

(* The recurrence of the longest common subsequence.                       *)
Best(c, a, b, i, j) ==
  IF i = 0 \/ j = 0 THEN 0
  ELSE IF a[i] = b[j] THEN c[<<i - 1, j - 1>>] + 1
  ELSE IF c[<<i - 1, j>>] > c[<<i, j - 1>>] THEN c[<<i - 1, j>>] ELSE c[<<i, j - 1>>]

Grid(a, b) == (0..Len(a)) \X (0..Len(b))

IsTable(c, a, b) ==
  \A i \in 0..Len(a), j \in 0..Len(b) : c[<<i, j>>] = Best(c, a, b, i, j)

(* The recurrence has a solution: applied often enough, it no longer       *)
(* changes anything.                                                       *)
LEMMA TableExists ==
  ASSUME NEW a, NEW b, Len(a) \in Nat, Len(b) \in Nat
  PROVE  \E c : c = [p \in Grid(a, b) |-> Best(c, a, b, p[1], p[2])]
<1> DEFINE m == Len(a)
           n == Len(b)
           T == [Grid(a, b) -> Int]
           Apply(c) == [p \in Grid(a, b) |-> Best(c, a, b, p[1], p[2])]
           zero == [p \in Grid(a, b) |-> 0]
           g == [q \in Nat \X T |-> Apply(q[2])]
<1>1. ASSUME NEW c \in T PROVE Apply(c) \in T
  <2> SUFFICES ASSUME NEW p \in Grid(a, b) PROVE Best(c, a, b, p[1], p[2]) \in Int
    OBVIOUS
  <2>1. p[1] \in 0..m /\ p[2] \in 0..n
    BY DEF Grid
  <2> DEFINE i == p[1]
             j == p[2]
  <2> HIDE DEF i, j
  <2>2. i \in 0..m /\ j \in 0..n
    BY <2>1 DEF i, j
  <2>3. CASE i = 0 \/ j = 0
    BY <2>3 DEF Best, i, j
  <2>4. CASE i # 0 /\ j # 0
    <3>1. i - 1 \in 0..m /\ j - 1 \in 0..n
      BY <2>2, <2>4
    <3>2. <<i - 1, j - 1>> \in Grid(a, b) /\ <<i - 1, j>> \in Grid(a, b) /\ <<i, j - 1>> \in Grid(a, b)
      BY <2>2, <3>1 DEF Grid
    <3>3. c[<<i - 1, j - 1>>] \in Int /\ c[<<i - 1, j>>] \in Int /\ c[<<i, j - 1>>] \in Int
      BY <3>2
    <3> QED BY <3>3 DEF Best, i, j
  <2> QED BY <2>3, <2>4
<1>2. zero \in T /\ g \in [Nat \X T -> T]
  <2>1. zero \in T
    OBVIOUS
  <2>2. \A q \in Nat \X T : Apply(q[2]) \in T
    <3> HIDE DEF Apply, T
    <3> QED BY <1>1
  <2> HIDE DEF Apply, T, zero
  <2> QED BY <2>1, <2>2
<1>3. m + n + 1 \in Nat
  OBVIOUS
<1>4. PICK h \in [0..(m + n + 1) -> T] : Iterates(h, zero, g, m + n + 1)
  <2> HIDE DEF T, zero, g
  <2> QED BY <1>2, <1>3, IterationUpTo
<1>5. ASSUME NEW t \in 0..(m + n) PROVE h[t + 1] = Apply(h[t]) /\ h[t] \in T /\ h[t + 1] \in T
  <2>1. t \in 0..((m + n + 1) - 1) /\ t \in Nat /\ t \in 0..(m + n + 1) /\ t + 1 \in 0..(m + n + 1)
    OBVIOUS
  <2>2. h[t] \in T /\ h[t + 1] \in T
    BY <2>1
  <2>3. h[t + 1] = g[<<t, h[t]>>]
    BY <1>4, <2>1 DEF Iterates
  <2> HIDE DEF Apply, T
  <2> QED BY <2>1, <2>2, <2>3
<1> DEFINE Settled(t) == t <= m + n => \A i \in 0..m, j \in 0..n : i + j <= t => h[t + 1][<<i, j>>] = h[t][<<i, j>>]
           S == {t \in Nat : Settled(t)}
<1>6. ASSUME NEW t \in 0..(m + n), NEW i \in 0..m, NEW j \in 0..n
      PROVE  h[t + 1][<<i, j>>] = Best(h[t], a, b, i, j)
  <2>1. <<i, j>> \in Grid(a, b) /\ <<i, j>>[1] = i /\ <<i, j>>[2] = j
    BY DEF Grid
  <2>2. h[t + 1] = Apply(h[t])
    BY <1>5
  <2> QED BY <2>1, <2>2
<1>7. 0 \in S
  <2> SUFFICES ASSUME NEW i \in 0..m, NEW j \in 0..n, i + j <= 0 PROVE h[0 + 1][<<i, j>>] = h[0][<<i, j>>]
    OBVIOUS
  <2>1. i = 0 /\ j = 0 /\ 0 \in 0..(m + n)
    OBVIOUS
  <2>2. h[0 + 1][<<i, j>>] = Best(h[0], a, b, i, j)
    BY <1>6, <2>1
  <2>3. h[0] = zero /\ <<i, j>> \in Grid(a, b)
    BY <1>4 DEF Iterates, Grid
  <2> QED BY <2>1, <2>2, <2>3 DEF Best
<1>8. ASSUME NEW t \in Nat, t \in S PROVE t + 1 \in S
  <2> SUFFICES ASSUME t + 1 <= m + n, NEW i \in 0..m, NEW j \in 0..n, i + j <= t + 1
               PROVE  h[(t + 1) + 1][<<i, j>>] = h[t + 1][<<i, j>>]
    OBVIOUS
  <2>1. t \in 0..(m + n) /\ t + 1 \in 0..(m + n)
    OBVIOUS
  <2>2. h[(t + 1) + 1][<<i, j>>] = Best(h[t + 1], a, b, i, j)
    BY <1>6, <2>1
  <2>3. h[t + 1][<<i, j>>] = Best(h[t], a, b, i, j)
    BY <1>6, <2>1
  <2>4. \A x \in 0..m, y \in 0..n : x + y <= t => h[t + 1][<<x, y>>] = h[t][<<x, y>>]
    BY <1>8, <2>1
  <2>5. CASE i = 0 \/ j = 0
    BY <2>2, <2>3, <2>5 DEF Best
  <2>6. CASE i # 0 /\ j # 0
    <3>1. i - 1 \in 0..m /\ j - 1 \in 0..n /\ (i - 1) + j <= t /\ i + (j - 1) <= t /\ (i - 1) + (j - 1) <= t
      BY <2>6
    <3>2. /\ h[t + 1][<<i - 1, j - 1>>] = h[t][<<i - 1, j - 1>>]
          /\ h[t + 1][<<i - 1, j>>] = h[t][<<i - 1, j>>]
          /\ h[t + 1][<<i, j - 1>>] = h[t][<<i, j - 1>>]
      BY <2>4, <3>1
    <3> QED BY <2>2, <2>3, <3>2 DEF Best
  <2> QED BY <2>5, <2>6
<1>9. \A t \in Nat : t \in S
  <2> HIDE DEF S
  <2> QED BY <1>7, <1>8, NaturalInduction
<1> DEFINE e == h[m + n]
<1>10. m + n \in 0..(m + n) /\ Apply(e) = h[(m + n) + 1] /\ e \in T /\ h[(m + n) + 1] \in T
  <2>1. m + n \in 0..(m + n)
    OBVIOUS
  <2> HIDE DEF Apply, T
  <2> QED BY <1>5, <2>1
<1>11. \A p \in Grid(a, b) : h[(m + n) + 1][p] = e[p]
  <2> SUFFICES ASSUME NEW p \in Grid(a, b) PROVE h[(m + n) + 1][p] = e[p]
    OBVIOUS
  <2>1. p[1] \in 0..m /\ p[2] \in 0..n /\ p = <<p[1], p[2]>> /\ p[1] + p[2] <= m + n /\ m + n \in Nat
    BY DEF Grid
  <2>2. Settled(m + n)
    BY <1>9, <2>1
  <2> QED BY <2>1, <2>2
<1>12. e = Apply(e)
  <2>1. h[(m + n) + 1] = e
    <3> HIDE DEF e, Apply
    <3> QED BY <1>10, <1>11
  <2> QED BY <1>10, <2>1
<1> HIDE DEF e
<1> QED BY <1>12

(* LongestCommon is the last entry of a table its recurrence describes.    *)
LEMMA LongestCommonIs ==
  ASSUME NEW a, NEW b, Len(a) \in Nat, Len(b) \in Nat
  PROVE  \E c : IsTable(c, a, b) /\ LongestCommon(a, b) = c[<<Len(a), Len(b)>>]
<1> DEFINE Def(c) == [p \in Grid(a, b) |-> Best(c, a, b, p[1], p[2])]
           t == CHOOSE c : c = Def(c)
<1>1. t = Def(t)
  <2> HIDE DEF Def
  <2>1. \E c : c = Def(c)
    BY TableExists DEF Def
  <2> QED BY <2>1
<1>2. LongestCommon(a, b) = t[<<Len(a), Len(b)>>]
  BY DEF LongestCommon, Grid, Best
<1>3. IsTable(t, a, b)
  <2> SUFFICES ASSUME NEW i \in 0..Len(a), NEW j \in 0..Len(b) PROVE t[<<i, j>>] = Best(t, a, b, i, j)
    BY DEF IsTable
  <2>1. <<i, j>> \in Grid(a, b) /\ <<i, j>>[1] = i /\ <<i, j>>[2] = j
    BY DEF Grid
  <2> HIDE DEF t
  <2> QED BY <1>1, <2>1
<1> QED BY <1>2, <1>3

(* In the table, a value is at most one above its neighbours, and no more  *)
(* than either coordinate.                                                 *)
TableSteps(c, m, n) ==
  /\ \A i \in 0..m, j \in 0..n : c[<<i, j>>] \in Nat /\ c[<<i, j>>] <= i /\ c[<<i, j>>] <= j
  /\ \A i \in 1..m, j \in 0..n : c[<<i - 1, j>>] <= c[<<i, j>>] /\ c[<<i, j>>] <= c[<<i - 1, j>>] + 1
  /\ \A i \in 0..m, j \in 1..n : c[<<i, j - 1>>] <= c[<<i, j>>] /\ c[<<i, j>>] <= c[<<i, j - 1>>] + 1
  /\ \A i \in 1..m, j \in 1..n : c[<<i, j>>] <= c[<<i - 1, j - 1>>] + 1

(* By induction on the sum of the coordinates.                             *)
LEMMA TableIsSmooth ==
  ASSUME NEW a, NEW b, Len(a) \in Nat, Len(b) \in Nat, NEW c, IsTable(c, a, b)
  PROVE  TableSteps(c, Len(a), Len(b))
<1> DEFINE m == Len(a)
           n == Len(b)
           At(i, j) ==
             /\ c[<<i, j>>] \in Nat /\ c[<<i, j>>] <= i /\ c[<<i, j>>] <= j
             /\ i > 0 => c[<<i - 1, j>>] <= c[<<i, j>>] /\ c[<<i, j>>] <= c[<<i - 1, j>>] + 1
             /\ j > 0 => c[<<i, j - 1>>] <= c[<<i, j>>] /\ c[<<i, j>>] <= c[<<i, j - 1>>] + 1
             /\ i > 0 /\ j > 0 => c[<<i, j>>] <= c[<<i - 1, j - 1>>] + 1
           S == {t \in Nat : \A i \in 0..m, j \in 0..n : i + j <= t => At(i, j)}
<1>1. ASSUME NEW i \in 0..m, NEW j \in 0..n, i = 0 \/ j = 0 PROVE c[<<i, j>>] = 0
  BY <1>1 DEF IsTable, Best
<1>2. ASSUME NEW i \in 0..m, NEW j \in 0..n, i = 0 \/ j = 0 PROVE At(i, j)
  <2>1. c[<<i, j>>] = 0
    BY <1>1, <1>2
  <2>2. i > 0 => c[<<i - 1, j>>] = 0
    <3> SUFFICES ASSUME i > 0 PROVE c[<<i - 1, j>>] = 0
      OBVIOUS
    <3>1. i - 1 \in 0..m /\ j = 0
      BY <1>2
    <3> QED BY <3>1, <1>1
  <2>3. j > 0 => c[<<i, j - 1>>] = 0
    <3> SUFFICES ASSUME j > 0 PROVE c[<<i, j - 1>>] = 0
      OBVIOUS
    <3>1. j - 1 \in 0..n /\ i = 0
      BY <1>2
    <3> QED BY <3>1, <1>1
  <2> QED BY <1>2, <2>1, <2>2, <2>3
<1>3. 0 \in S
  <2> SUFFICES ASSUME NEW i \in 0..m, NEW j \in 0..n, i + j <= 0 PROVE At(i, j)
    OBVIOUS
  <2>1. i = 0
    OBVIOUS
  <2> HIDE DEF At
  <2> QED BY <2>1, <1>2
<1>4. ASSUME NEW t \in Nat, t \in S PROVE t + 1 \in S
  <2> SUFFICES ASSUME NEW i \in 0..m, NEW j \in 0..n, i + j <= t + 1, i # 0, j # 0 PROVE At(i, j)
    <3> HIDE DEF At
    <3> QED BY <1>2
  <2>1. i - 1 \in 0..m /\ j - 1 \in 0..n /\ (i - 1) + j <= t /\ i + (j - 1) <= t /\ (i - 1) + (j - 1) <= t
    OBVIOUS
  <2>2. At(i - 1, j) /\ At(i, j - 1) /\ At(i - 1, j - 1)
    <3> HIDE DEF At
    <3> QED BY <1>4, <2>1
  <2> DEFINE w == c[<<i, j>>]
             u == c[<<i - 1, j>>]
             l == c[<<i, j - 1>>]
             d == c[<<i - 1, j - 1>>]
  <2>3. /\ u \in Nat /\ l \in Nat /\ d \in Nat
        /\ u <= i - 1 /\ l <= j - 1 /\ d <= i - 1 /\ d <= j - 1
        /\ d <= u /\ u <= d + 1 /\ d <= l /\ l <= d + 1
    BY <2>1, <2>2
  <2>4. w = d + 1 \/ (w = u /\ u > l) \/ (w = l /\ ~(u > l))
    BY DEF IsTable, Best
  <2> HIDE DEF w, u, l, d
  <2>5. w \in Nat /\ w <= i /\ w <= j /\ u <= w /\ w <= u + 1 /\ l <= w /\ w <= l + 1 /\ w <= d + 1
    BY <2>3, <2>4
  <2> QED BY <2>5 DEF w, u, l, d
<1>5. \A t \in Nat : t \in S
  <2> HIDE DEF S
  <2> QED BY <1>3, <1>4, NaturalInduction
<1>6. ASSUME NEW i \in 0..m, NEW j \in 0..n PROVE At(i, j)
  <2>1. i + j \in S
    <3>1. i + j \in Nat
      OBVIOUS
    <3> HIDE DEF S
    <3> QED BY <1>5, <3>1
  <2>2. i + j <= i + j
    OBVIOUS
  <2> HIDE DEF At
  <2> QED BY <2>1, <2>2
<1>7. \A i \in 0..m, j \in 0..n : c[<<i, j>>] \in Nat /\ c[<<i, j>>] <= i /\ c[<<i, j>>] <= j
  BY <1>6
<1>8. ASSUME NEW i \in 1..m, NEW j \in 0..n PROVE c[<<i - 1, j>>] <= c[<<i, j>>] /\ c[<<i, j>>] <= c[<<i - 1, j>>] + 1
  <2>1. i \in 0..m /\ j \in 0..n /\ i > 0
    OBVIOUS
  <2>2. At(i, j)
    <3> HIDE DEF At
    <3> QED BY <1>6, <2>1
  <2> QED BY <2>1, <2>2
<1>9. ASSUME NEW i \in 0..m, NEW j \in 1..n PROVE c[<<i, j - 1>>] <= c[<<i, j>>] /\ c[<<i, j>>] <= c[<<i, j - 1>>] + 1
  <2>1. i \in 0..m /\ j \in 0..n /\ j > 0
    OBVIOUS
  <2>2. At(i, j)
    <3> HIDE DEF At
    <3> QED BY <1>6, <2>1
  <2> QED BY <2>1, <2>2
<1>10. ASSUME NEW i \in 1..m, NEW j \in 1..n PROVE c[<<i, j>>] <= c[<<i - 1, j - 1>>] + 1
  <2>1. i \in 0..m /\ j \in 0..n /\ i > 0 /\ j > 0
    OBVIOUS
  <2>2. At(i, j)
    <3> HIDE DEF At
    <3> QED BY <1>6, <2>1
  <2> QED BY <2>1, <2>2
<1> QED BY <1>7, <1>8, <1>9, <1>10 DEF TableSteps

(* How many edits it takes from x lines of the one to y of the other; lines*)
(* past the ends are like no other.                                        *)
Dist(c, m, n, x, y) == x + y - 2 * c[<<Lesser(x, m), Lesser(y, n)>>]

Alike(a, b, x, y) == x < Len(a) /\ y < Len(b) /\ a[x + 1] = b[y + 1]

IsDistance(D, a, b) ==
  /\ D \in [Nat \X Nat -> Nat]
  /\ D[<<0, 0>>] = 0
  /\ \A x, y \in Nat : x - y <= D[<<x, y>>] /\ y - x <= D[<<x, y>>]
  /\ \A x, y \in Nat : \E h \in Int : x + y - D[<<x, y>>] = 2 * h
  /\ \A x, y \in Nat : Alike(a, b, x, y) => D[<<x + 1, y + 1>>] = D[<<x, y>>]
  /\ \A x, y \in Nat : ~Alike(a, b, x, y) =>
        \/ D[<<x + 1, y + 1>>] = D[<<x, y + 1>>] + 1
        \/ D[<<x + 1, y + 1>>] = D[<<x + 1, y>>] + 1
  /\ \A x, y \in Nat : D[<<x + 1, y>>] <= D[<<x, y>>] + 1 /\ D[<<x, y + 1>>] <= D[<<x, y>>] + 1
  /\ \A x, y \in Nat : D[<<x, y>>] <= D[<<x + 1, y + 1>>]
  /\ \A x, y \in Nat : x >= Len(a) /\ y >= Len(b) =>
        D[<<x, y>>] = D[<<Len(a), Len(b)>>] + (x - Len(a)) + (y - Len(b))

(* Two files have a distance: x + y less twice what the first x lines of   *)
(* the one and y of the other have in common, past the ends too.           *)
LEMMA DistanceIs ==
  ASSUME NEW a, NEW b, Len(a) \in Nat, Len(b) \in Nat
  PROVE  \E D : IsDistance(D, a, b) /\ D[<<Len(a), Len(b)>>] = Len(a) + Len(b) - 2 * LongestCommon(a, b)
<1> DEFINE m == Len(a)
           n == Len(b)
<1>1. PICK c : IsTable(c, a, b) /\ LongestCommon(a, b) = c[<<m, n>>]
  BY LongestCommonIs
<1>2. TableSteps(c, m, n)
  BY <1>1, TableIsSmooth
<1> DEFINE C(x, y) == c[<<Lesser(x, m), Lesser(y, n)>>]
           D == [p \in Nat \X Nat |-> p[1] + p[2] - 2 * C(p[1], p[2])]
<1>3. ASSUME NEW x \in Nat PROVE Lesser(x, m) \in 0..m /\ Lesser(x, m) <= x
  BY DEF Lesser
<1>4. ASSUME NEW y \in Nat PROVE Lesser(y, n) \in 0..n /\ Lesser(y, n) <= y
  BY DEF Lesser
<1>5. ASSUME NEW x \in Nat, NEW y \in Nat
      PROVE  C(x, y) \in Nat /\ C(x, y) <= x /\ C(x, y) <= y
  <2> DEFINE i == Lesser(x, m)
             j == Lesser(y, n)
  <2>1. i \in 0..m /\ i <= x /\ j \in 0..n /\ j <= y
    BY <1>3, <1>4
  <2> HIDE DEF i, j
  <2>2. c[<<i, j>>] \in Nat /\ c[<<i, j>>] <= i /\ c[<<i, j>>] <= j
    BY <1>2, <2>1 DEF TableSteps
  <2>3. c[<<i, j>>] <= x /\ c[<<i, j>>] <= y
    BY <2>1, <2>2
  <2> QED BY <2>2, <2>3 DEF i, j
<1>6. ASSUME NEW x \in Nat, NEW y \in Nat PROVE D[<<x, y>>] = x + y - 2 * C(x, y)
  <2>1. <<x, y>> \in Nat \X Nat /\ <<x, y>>[1] = x /\ <<x, y>>[2] = y
    OBVIOUS
  <2> HIDE DEF C
  <2> QED BY <2>1
<1>7. ASSUME NEW x \in Nat, NEW y \in Nat
      PROVE  C(x, y) <= C(x + 1, y) /\ C(x, y) <= C(x, y + 1)
  <2>1. C(x, y) <= C(x + 1, y)
    <3>1. CASE x < m
      <4>1. Lesser(x, m) = x /\ Lesser(x + 1, m) = x + 1 /\ x + 1 \in 1..m /\ (x + 1) - 1 = x
        BY <3>1 DEF Lesser
      <4> QED BY <1>2, <1>4, <4>1 DEF TableSteps
    <3>2. CASE x >= m
      <4>1. Lesser(x + 1, m) = Lesser(x, m)
        BY <3>2 DEF Lesser
      <4> HIDE DEF m, n
      <4>2. C(x, y) \in Nat
        BY <1>5
      <4> QED BY <4>1, <4>2
    <3> QED BY <3>1, <3>2
  <2>2. C(x, y) <= C(x, y + 1)
    <3>1. CASE y < n
      <4>1. Lesser(y, n) = y /\ Lesser(y + 1, n) = y + 1 /\ y + 1 \in 1..n /\ (y + 1) - 1 = y
        BY <3>1 DEF Lesser
      <4> QED BY <1>2, <1>3, <4>1 DEF TableSteps
    <3>2. CASE y >= n
      <4>1. Lesser(y + 1, n) = Lesser(y, n)
        BY <3>2 DEF Lesser
      <4>2. C(x, y) \in Nat
        BY <1>5
      <4> QED BY <4>1, <4>2
    <3> QED BY <3>1, <3>2
  <2> QED BY <2>1, <2>2
<1>8. ASSUME NEW x \in Nat, NEW y \in Nat
      PROVE  C(x + 1, y + 1) <= C(x, y) + 1
  <2>1. CASE x < m /\ y < n
    <3>1. /\ Lesser(x, m) = x /\ Lesser(x + 1, m) = x + 1 /\ x + 1 \in 1..m /\ (x + 1) - 1 = x
          /\ Lesser(y, n) = y /\ Lesser(y + 1, n) = y + 1 /\ y + 1 \in 1..n /\ (y + 1) - 1 = y
      BY <2>1 DEF Lesser
    <3>2. c[<<x + 1, y + 1>>] <= c[<<(x + 1) - 1, (y + 1) - 1>>] + 1
      BY <1>2, <3>1 DEF TableSteps
    <3> QED BY <3>1, <3>2
  <2>2. CASE x >= m /\ y < n
    <3>1. /\ Lesser(x + 1, m) = Lesser(x, m) /\ Lesser(x, m) \in 0..m
          /\ Lesser(y, n) = y /\ Lesser(y + 1, n) = y + 1 /\ y + 1 \in 1..n /\ (y + 1) - 1 = y
      BY <2>2 DEF Lesser
    <3>2. c[<<Lesser(x, m), y + 1>>] <= c[<<Lesser(x, m), (y + 1) - 1>>] + 1
      BY <1>2, <3>1 DEF TableSteps
    <3> QED BY <3>1, <3>2
  <2>3. CASE x < m /\ y >= n
    <3>1. /\ Lesser(y + 1, n) = Lesser(y, n) /\ Lesser(y, n) \in 0..n
          /\ Lesser(x, m) = x /\ Lesser(x + 1, m) = x + 1 /\ x + 1 \in 1..m /\ (x + 1) - 1 = x
      BY <2>3 DEF Lesser
    <3>2. c[<<x + 1, Lesser(y, n)>>] <= c[<<(x + 1) - 1, Lesser(y, n)>>] + 1
      BY <1>2, <3>1 DEF TableSteps
    <3> QED BY <3>1, <3>2
  <2>4. CASE x >= m /\ y >= n
    <3>1. Lesser(x + 1, m) = Lesser(x, m) /\ Lesser(y + 1, n) = Lesser(y, n)
      BY <2>4 DEF Lesser
    <3>2. C(x, y) \in Nat
      BY <1>5
    <3> QED BY <3>1, <3>2
  <2> QED BY <2>1, <2>2, <2>3, <2>4
<1>9. ASSUME NEW x \in Nat, NEW y \in Nat, Alike(a, b, x, y)
      PROVE  C(x + 1, y + 1) = C(x, y) + 1
  <2>1. /\ Lesser(x, m) = x /\ Lesser(x + 1, m) = x + 1 /\ x + 1 \in 0..m /\ (x + 1) - 1 = x /\ x + 1 # 0
        /\ Lesser(y, n) = y /\ Lesser(y + 1, n) = y + 1 /\ y + 1 \in 0..n /\ (y + 1) - 1 = y /\ y + 1 # 0
        /\ a[x + 1] = b[y + 1]
    BY <1>9 DEF Lesser, Alike
  <2>2. c[<<x + 1, y + 1>>] = c[<<x, y>>] + 1
    <3>1. c[<<x + 1, y + 1>>] = Best(c, a, b, x + 1, y + 1)
      BY <1>1, <2>1 DEF IsTable
    <3> HIDE DEF m, n
    <3> QED BY ONLY <2>1, <3>1 DEF Best
  <2> QED BY <2>1, <2>2
<1>10. ASSUME NEW x \in Nat, NEW y \in Nat, ~Alike(a, b, x, y)
       PROVE  C(x + 1, y + 1) = C(x, y + 1) \/ C(x + 1, y + 1) = C(x + 1, y)
  <2>1. CASE x >= m
    <3>1. Lesser(x + 1, m) = Lesser(x, m)
      BY <2>1 DEF Lesser
    <3> QED BY <3>1
  <2>2. CASE y >= n
    <3>1. Lesser(y + 1, n) = Lesser(y, n)
      BY <2>2 DEF Lesser
    <3> QED BY <3>1
  <2>3. CASE x < m /\ y < n
    <3>1. /\ Lesser(x, m) = x /\ Lesser(x + 1, m) = x + 1 /\ x + 1 \in 0..m /\ (x + 1) - 1 = x /\ x + 1 # 0
          /\ Lesser(y, n) = y /\ Lesser(y + 1, n) = y + 1 /\ y + 1 \in 0..n /\ (y + 1) - 1 = y /\ y + 1 # 0
          /\ a[x + 1] # b[y + 1]
      BY <1>10, <2>3 DEF Lesser, Alike
    <3>2. c[<<x + 1, y + 1>>] = c[<<x, y + 1>>] \/ c[<<x + 1, y + 1>>] = c[<<x + 1, y>>]
      BY <1>1, <3>1 DEF IsTable, Best
    <3> QED BY <3>1, <3>2
  <2> QED BY <2>1, <2>2, <2>3
<1>11. ASSUME NEW x \in Nat, NEW y \in Nat, x >= m, y >= n PROVE C(x, y) = C(m, n)
  <2>1. Lesser(x, m) = m /\ Lesser(y, n) = n /\ Lesser(m, m) = m /\ Lesser(n, n) = n
    BY <1>11 DEF Lesser
  <2> QED BY <2>1
<1>12. C(m, n) = LongestCommon(a, b)
  <2>1. Lesser(m, m) = m /\ Lesser(n, n) = n
    BY DEF Lesser
  <2> QED BY <1>1, <2>1
<1> HIDE DEF C, D
<1>13. D \in [Nat \X Nat -> Nat]
  <2>1. ASSUME NEW x \in Nat, NEW y \in Nat PROVE x + y - 2 * C(x, y) \in Nat
    <3>1. C(x, y) \in Nat /\ C(x, y) <= x /\ C(x, y) <= y
      BY <1>5
    <3> DEFINE k == C(x, y)
    <3> HIDE DEF k
    <3>2. k \in Nat /\ k <= x /\ k <= y
      BY <3>1 DEF k
    <3>3. x + y - 2 * k \in Nat
      BY <3>2
    <3> QED BY <3>3 DEF k
  <2>2. \A p \in Nat \X Nat : p[1] \in Nat /\ p[2] \in Nat
    OBVIOUS
  <2> QED BY <2>1, <2>2 DEF D
<1>14. D[<<0, 0>>] = 0
  <2>1. 0 \in Nat /\ C(0, 0) = 0
    BY <1>5
  <2> QED BY <1>6, <2>1
<1>15. ASSUME NEW x \in Nat, NEW y \in Nat
       PROVE  /\ x - y <= D[<<x, y>>] /\ y - x <= D[<<x, y>>]
              /\ \E h \in Int : x + y - D[<<x, y>>] = 2 * h
  <2>1. D[<<x, y>>] = x + y - 2 * C(x, y) /\ C(x, y) \in Nat /\ C(x, y) <= x /\ C(x, y) <= y
    BY <1>5, <1>6
  <2>2. x + y - D[<<x, y>>] = 2 * C(x, y)
    BY <2>1
  <2>3. C(x, y) \in Int
    BY <2>1
  <2> QED BY <2>1, <2>2, <2>3
<1>16. ASSUME NEW x \in Nat, NEW y \in Nat
       PROVE  /\ Alike(a, b, x, y) => D[<<x + 1, y + 1>>] = D[<<x, y>>]
              /\ ~Alike(a, b, x, y) =>
                   \/ D[<<x + 1, y + 1>>] = D[<<x, y + 1>>] + 1
                   \/ D[<<x + 1, y + 1>>] = D[<<x + 1, y>>] + 1
              /\ D[<<x + 1, y>>] <= D[<<x, y>>] + 1 /\ D[<<x, y + 1>>] <= D[<<x, y>>] + 1
              /\ D[<<x, y>>] <= D[<<x + 1, y + 1>>]
  <2>1. x + 1 \in Nat /\ y + 1 \in Nat
    OBVIOUS
  <2>2. /\ D[<<x, y>>] = x + y - 2 * C(x, y)
        /\ D[<<x + 1, y>>] = (x + 1) + y - 2 * C(x + 1, y)
        /\ D[<<x, y + 1>>] = x + (y + 1) - 2 * C(x, y + 1)
        /\ D[<<x + 1, y + 1>>] = (x + 1) + (y + 1) - 2 * C(x + 1, y + 1)
    BY <1>6, <2>1
  <2>3. /\ C(x, y) \in Nat /\ C(x + 1, y) \in Nat /\ C(x, y + 1) \in Nat /\ C(x + 1, y + 1) \in Nat
        /\ C(x, y) <= C(x + 1, y) /\ C(x, y) <= C(x, y + 1) /\ C(x + 1, y + 1) <= C(x, y) + 1
    BY <1>5, <1>7, <1>8, <2>1
  <2> DEFINE d00 == D[<<x, y>>]
             d10 == D[<<x + 1, y>>]
             d01 == D[<<x, y + 1>>]
             d11 == D[<<x + 1, y + 1>>]
             c00 == C(x, y)
             c10 == C(x + 1, y)
             c01 == C(x, y + 1)
             c11 == C(x + 1, y + 1)
  <2>4. Alike(a, b, x, y) => c11 = c00 + 1
    BY <1>9
  <2>5. ~Alike(a, b, x, y) => c11 = c01 \/ c11 = c10
    BY <1>10
  <2> HIDE DEF d00, d10, d01, d11, c00, c10, c01, c11
  <2>6. d00 = x + y - 2 * c00 /\ d10 = (x + 1) + y - 2 * c10 /\ d01 = x + (y + 1) - 2 * c01
        /\ d11 = (x + 1) + (y + 1) - 2 * c11
    BY <2>2 DEF d00, d10, d01, d11, c00, c10, c01, c11
  <2>7. /\ c00 \in Nat /\ c10 \in Nat /\ c01 \in Nat /\ c11 \in Nat
        /\ c00 <= c10 /\ c00 <= c01 /\ c11 <= c00 + 1
    BY <2>3 DEF c00, c10, c01, c11
  <2>8. d10 <= d00 + 1 /\ d01 <= d00 + 1 /\ d00 <= d11
    BY <2>6, <2>7
  <2>9. c11 = c00 + 1 => d11 = d00
    BY <2>6, <2>7
  <2>10. c11 = c01 => d11 = d01 + 1
    BY <2>6, <2>7
  <2>11. c11 = c10 => d11 = d10 + 1
    BY <2>6, <2>7
  <2>12. Alike(a, b, x, y) => d11 = d00
    BY <2>4, <2>9
  <2>13. ~Alike(a, b, x, y) => d11 = d01 + 1 \/ d11 = d10 + 1
    BY <2>5, <2>10, <2>11
  <2> QED BY <2>8, <2>12, <2>13 DEF d00, d10, d01, d11
<1>17. ASSUME NEW x \in Nat, NEW y \in Nat, x >= m, y >= n
       PROVE  D[<<x, y>>] = D[<<m, n>>] + (x - m) + (y - n)
  <2>1. D[<<x, y>>] = x + y - 2 * C(x, y) /\ D[<<m, n>>] = m + n - 2 * C(m, n)
    BY <1>6
  <2>2. C(x, y) = C(m, n) /\ C(m, n) \in Nat /\ m \in Nat /\ n \in Nat
    BY <1>5, <1>11, <1>17
  <2> HIDE DEF m, n
  <2>3. x + y - 2 * C(m, n) = (m + n - 2 * C(m, n)) + (x - m) + (y - n)
    BY <2>2
  <2> QED BY <2>1, <2>2, <2>3
<1>18. D[<<m, n>>] = m + n - 2 * LongestCommon(a, b)
  BY <1>6, <1>12
<1>19. IsDistance(D, a, b)
  BY ONLY <1>13, <1>14, <1>15, <1>16, <1>17 DEF IsDistance
<1> QED BY <1>18, <1>19

(* No more lines are common than either file has.                          *)
LEMMA CommonIs ==
  ASSUME NEW a, NEW b, Len(a) \in Nat, Len(b) \in Nat
  PROVE  LongestCommon(a, b) \in Nat /\ LongestCommon(a, b) <= Len(a) /\ LongestCommon(a, b) <= Len(b)
<1> DEFINE m == Len(a)
           n == Len(b)
<1>1. PICK t : IsTable(t, a, b) /\ LongestCommon(a, b) = t[<<m, n>>]
  BY LongestCommonIs
<1>2. TableSteps(t, m, n)
  BY <1>1, TableIsSmooth
<1>3. m \in 0..m /\ n \in 0..n
  OBVIOUS
<1> HIDE DEF m, n
<1>4. t[<<m, n>>] \in Nat /\ t[<<m, n>>] <= m /\ t[<<m, n>>] <= n
  BY <1>2, <1>3 DEF TableSteps
<1> QED BY <1>1, <1>4 DEF m, n

-----------------------------------------------------------------------------
(***************************************************************************)
(* What the files share at both ends is shared by a longest common         *)
(* subsequence, so it can be trimmed.                                      *)
(***************************************************************************)

(* The common beginning ends at the first line that differs.               *)
LEMMA CommonPrefixIs ==
  ASSUME NEW a, NEW b, Len(a) \in Nat, Len(b) \in Nat
  PROVE  LET p == CommonPrefix(a, b)
         IN  /\ p \in Nat /\ p <= Len(a) /\ p <= Len(b)
             /\ \A i \in 1..p : a[i] = b[i]
             /\ p < Len(a) /\ p < Len(b) => a[p + 1] # b[p + 1]
<1> DEFINE n == Lesser(Len(a), Len(b))
           same == {k \in 0..n : \A i \in 1..k : a[i] = b[i]}
           p == CHOOSE k \in same : \A j \in same : j <= k
<1>1. n \in Nat /\ n <= Len(a) /\ n <= Len(b) /\ (n = Len(a) \/ n = Len(b))
  BY DEF Lesser
<1>2. same \in SUBSET (0..n) /\ 0 \in same
  <2> HIDE DEF n
  <2> QED BY <1>1
<1>3. p \in same /\ \A j \in same : j <= p
  <2> HIDE DEF n, same
  <2>1. \E k \in same : \A j \in same : j <= k
    BY <1>1, <1>2, Greatest
  <2> QED BY <2>1
<1>4. CommonPrefix(a, b) = p
  BY DEF CommonPrefix
<1> HIDE DEF p
<1>5. p \in 0..n /\ \A i \in 1..p : a[i] = b[i]
  BY <1>3
<1>6. ASSUME p < Len(a), p < Len(b) PROVE a[p + 1] # b[p + 1]
  <2> SUFFICES ASSUME a[p + 1] = b[p + 1] PROVE FALSE
    OBVIOUS
  <2>1. p + 1 \in 0..n /\ p \in Nat
    <3> HIDE DEF n
    <3> QED BY <1>1, <1>5, <1>6
  <2>2. \A i \in 1..(p + 1) : a[i] = b[i]
    BY <1>5, <2>1
  <2>3. p + 1 \in same
    <3> HIDE DEF n
    <3> QED BY <2>1, <2>2
  <2>4. p + 1 <= p
    <3> HIDE DEF same
    <3> QED BY <1>3, <2>3
  <2> QED BY <2>1, <2>4
<1>7. p \in Nat /\ p <= Len(a) /\ p <= Len(b)
  <2> HIDE DEF n
  <2> QED BY <1>1, <1>5
<1> HIDE DEF n, same
<1> QED BY <1>4, <1>5, <1>6, <1>7

(* The common end does not run into the common beginning.                  *)
LEMMA CommonSuffixIs ==
  ASSUME NEW a, NEW b, Len(a) \in Nat, Len(b) \in Nat,
         NEW p \in Nat, p <= Len(a), p <= Len(b)
  PROVE  LET s == CommonSuffix(a, b, p)
         IN  /\ s \in Nat /\ p + s <= Len(a) /\ p + s <= Len(b)
             /\ \A i \in 0..(s - 1) : a[Len(a) - i] = b[Len(b) - i]
<1> DEFINE n == Lesser(Len(a), Len(b)) - p
           same == {k \in 0..n : \A i \in 0..(k - 1) : a[Len(a) - i] = b[Len(b) - i]}
           s == CHOOSE k \in same : \A j \in same : j <= k
<1>1. n \in Nat /\ p + n <= Len(a) /\ p + n <= Len(b)
  BY DEF Lesser
<1>2. same \in SUBSET (0..n) /\ 0 \in same
  <2> HIDE DEF n
  <2> QED BY <1>1
<1>3. s \in same
  <2> HIDE DEF n, same
  <2>1. \E k \in same : \A j \in same : j <= k
    BY <1>1, <1>2, Greatest
  <2> QED BY <2>1
<1>4. CommonSuffix(a, b, p) = s
  BY DEF CommonSuffix
<1> HIDE DEF s
<1>5. s \in 0..n /\ \A i \in 0..(s - 1) : a[Len(a) - i] = b[Len(b) - i]
  BY <1>3
<1>6. s \in Nat /\ p + s <= Len(a) /\ p + s <= Len(b)
  <2> HIDE DEF n
  <2> QED BY <1>1, <1>5
<1> HIDE DEF n, same
<1> QED BY <1>4, <1>5, <1>6

EndsAlike(a, b, p, s) ==
  /\ p + s <= Len(a) /\ p + s <= Len(b)
  /\ \A i \in 1..p : a[i] = b[i]
  /\ \A i \in 0..(s - 1) : a[Len(a) - i] = b[Len(b) - i]

EndsCount(a, b, p, s) ==
  LongestCommon(a, b) = p + s + LongestCommon(SubSeq(a, p + 1, Len(a) - s), SubSeq(b, p + 1, Len(b) - s))

(* Common ends are common lines of a longest common subsequence.           *)
LEMMA TrimKeeps ==
  ASSUME NEW L, NEW a \in Seq(L), NEW b \in Seq(L), NEW p \in Nat, NEW s \in Nat, EndsAlike(a, b, p, s)
  PROVE  EndsCount(a, b, p, s)
<1>0. /\ p + s <= Len(a) /\ p + s <= Len(b)
      /\ \A i \in 1..p : a[i] = b[i]
      /\ \A i \in 0..(s - 1) : a[Len(a) - i] = b[Len(b) - i]
  BY DEF EndsAlike
<1> USE <1>0
<1> DEFINE m == Len(a)
           n == Len(b)
           u == SubSeq(a, p + 1, m - s)
           v == SubSeq(b, p + 1, n - s)
           mm == m - s - p
           nn == n - s - p
<1>1. m \in Nat /\ n \in Nat /\ mm \in Nat /\ nn \in Nat
  OBVIOUS
<1>2. Len(u) = mm /\ \A i \in 1..mm : u[i] = a[p + i]
  OBVIOUS
<1>3. Len(v) = nn /\ \A i \in 1..nn : v[i] = b[p + i]
  OBVIOUS
<1>4. PICK c : IsTable(c, a, b) /\ LongestCommon(a, b) = c[<<m, n>>]
  BY <1>1, LongestCommonIs
<1>5. PICK e : IsTable(e, u, v) /\ LongestCommon(u, v) = e[<<mm, nn>>]
  <2> HIDE DEF u, v, m, n, mm, nn
  <2>1. Len(u) \in Nat /\ Len(v) \in Nat
    BY <1>1, <1>2, <1>3
  <2>2. \E e : IsTable(e, u, v) /\ LongestCommon(u, v) = e[<<Len(u), Len(v)>>]
    BY <2>1, LongestCommonIs
  <2> QED BY <1>2, <1>3, <2>2
<1>6. TableSteps(c, m, n) /\ TableSteps(e, mm, nn)
  <2>1. TableSteps(c, m, n)
    BY <1>1, <1>4, TableIsSmooth
  <2>2. TableSteps(e, Len(u), Len(v))
    <3> HIDE DEF u, v
    <3> QED BY <1>1, <1>2, <1>3, <1>5, TableIsSmooth
  <2> QED BY <1>2, <1>3, <2>1, <2>2
<1>7. ASSUME NEW i \in 0..m, NEW j \in 0..n PROVE c[<<i, j>>] = Best(c, a, b, i, j)
  BY <1>4 DEF IsTable
<1>8. ASSUME NEW i \in 0..mm, NEW j \in 0..nn PROVE e[<<i, j>>] = Best(e, u, v, i, j)
  BY <1>2, <1>3, <1>5 DEF IsTable
<1>9. ASSUME NEW i \in 0..m, NEW j \in 0..n PROVE c[<<i, j>>] \in Nat /\ c[<<i, j>>] <= i /\ c[<<i, j>>] <= j
  BY <1>6 DEF TableSteps
<1> HIDE DEF u, v, m, n, mm, nn
<1>10. p + s <= m /\ p + s <= n /\ mm = m - s - p /\ nn = n - s - p
  BY DEF m, n, mm, nn
<1> HIDE <1>0
\* Down the prefix.
<1>11. c[<<p, p>>] = p
  <2> DEFINE S == {k \in Nat : k <= p => c[<<k, k>>] = k}
  <2>1. 0 \in S
    <3>1. 0 \in 0..m /\ 0 \in 0..n
      BY <1>1
    <3>2. c[<<0, 0>>] = 0
      BY <1>7, <3>1 DEF Best
    <3> QED BY <3>2
  <2>2. ASSUME NEW k \in Nat, k \in S PROVE k + 1 \in S
    <3> SUFFICES ASSUME k + 1 <= p PROVE c[<<k + 1, k + 1>>] = k + 1
      OBVIOUS
    <3>1. k + 1 \in 0..m /\ k + 1 \in 0..n /\ k + 1 \in 1..p /\ (k + 1) - 1 = k /\ k + 1 # 0
      BY <1>1, <1>10
    <3>2. a[k + 1] = b[k + 1] /\ c[<<k, k>>] = k
      BY <1>0, <2>2, <3>1
    <3>3. c[<<k + 1, k + 1>>] = Best(c, a, b, k + 1, k + 1)
      BY <1>7, <3>1
    <3> QED BY ONLY <3>1, <3>2, <3>3 DEF Best
  <2>3. \A k \in Nat : k \in S
    <3> HIDE DEF S
    <3> QED BY <2>1, <2>2, NaturalInduction
  <2> QED BY <2>3
\* Along its edges.
<1>12. ASSUME NEW i \in 0..mm PROVE c[<<i + p, p>>] = p
  <2> DEFINE S == {k \in Nat : k <= mm => c[<<k + p, p>>] = p}
  <2>1. 0 \in S
    <3>1. 0 + p = p
      OBVIOUS
    <3> QED BY <1>11, <3>1
  <2>2. ASSUME NEW k \in Nat, k \in S PROVE k + 1 \in S
    <3> SUFFICES ASSUME k + 1 <= mm PROVE c[<<(k + 1) + p, p>>] = p
      OBVIOUS
    <3>1. (k + 1) + p \in 0..m /\ (k + 1) + p \in 1..m /\ p \in 0..n /\ ((k + 1) + p) - 1 = k + p
      BY <1>1, <1>10
    <3>2. c[<<k + p, p>>] = p
      BY <2>2, <1>1
    <3>3. c[<<((k + 1) + p) - 1, p>>] <= c[<<(k + 1) + p, p>>]
      BY <1>6, <3>1 DEF TableSteps
    <3>4. c[<<(k + 1) + p, p>>] \in Nat /\ c[<<(k + 1) + p, p>>] <= p
      BY <1>9, <3>1
    <3>5. p <= c[<<(k + 1) + p, p>>]
      BY <3>1, <3>2, <3>3
    <3> QED BY <3>4, <3>5
  <2>3. \A k \in Nat : k \in S
    <3> HIDE DEF S
    <3> QED BY <2>1, <2>2, NaturalInduction
  <2>4. i \in Nat /\ i <= mm
    BY <1>1
  <2>5. i \in S
    <3> HIDE DEF S
    <3> QED BY <2>3, <2>4
  <2> QED BY <2>4, <2>5
<1>13. ASSUME NEW j \in 0..nn PROVE c[<<p, j + p>>] = p
  <2> DEFINE S == {k \in Nat : k <= nn => c[<<p, k + p>>] = p}
  <2>1. 0 \in S
    <3>1. 0 + p = p
      OBVIOUS
    <3> QED BY <1>11, <3>1
  <2>2. ASSUME NEW k \in Nat, k \in S PROVE k + 1 \in S
    <3> SUFFICES ASSUME k + 1 <= nn PROVE c[<<p, (k + 1) + p>>] = p
      OBVIOUS
    <3>1. (k + 1) + p \in 0..n /\ (k + 1) + p \in 1..n /\ p \in 0..m /\ ((k + 1) + p) - 1 = k + p
      BY <1>1, <1>10
    <3>2. c[<<p, k + p>>] = p
      BY <2>2, <1>1
    <3>3. c[<<p, ((k + 1) + p) - 1>>] <= c[<<p, (k + 1) + p>>]
      BY <1>6, <3>1 DEF TableSteps
    <3>4. c[<<p, (k + 1) + p>>] \in Nat /\ c[<<p, (k + 1) + p>>] <= p
      BY <1>9, <3>1
    <3>5. p <= c[<<p, (k + 1) + p>>]
      BY <3>1, <3>2, <3>3
    <3> QED BY <3>4, <3>5
  <2>3. \A k \in Nat : k \in S
    <3> HIDE DEF S
    <3> QED BY <2>1, <2>2, NaturalInduction
  <2>4. j \in Nat /\ j <= nn
    BY <1>1
  <2>5. j \in S
    <3> HIDE DEF S
    <3> QED BY <2>3, <2>4
  <2> QED BY <2>4, <2>5
\* Over what is between the ends.
<1>14. ASSUME NEW i \in 0..mm, NEW j \in 0..nn PROVE c[<<i + p, j + p>>] = p + e[<<i, j>>]
  <2> DEFINE Agree(t) == \A x \in 0..mm, y \in 0..nn : x + y <= t => c[<<x + p, y + p>>] = p + e[<<x, y>>]
             S == {t \in Nat : Agree(t)}
  <2>1. ASSUME NEW x \in 0..mm, NEW y \in 0..nn, x = 0 \/ y = 0 PROVE c[<<x + p, y + p>>] = p + e[<<x, y>>]
    <3>1. e[<<x, y>>] = 0
      BY <1>8, <2>1 DEF Best
    <3>2. CASE x = 0
      <4>1. c[<<p, y + p>>] = p /\ 0 + p = p /\ p + 0 = p
        BY <1>13
      <4> QED BY <3>1, <3>2, <4>1
    <3>3. CASE y = 0
      <4>1. c[<<x + p, p>>] = p /\ 0 + p = p /\ p + 0 = p
        BY <1>12
      <4> QED BY <3>1, <3>3, <4>1
    <3> QED BY <2>1, <3>2, <3>3
  <2>2. 0 \in S
    <3> SUFFICES ASSUME NEW x \in 0..mm, NEW y \in 0..nn, x + y <= 0 PROVE c[<<x + p, y + p>>] = p + e[<<x, y>>]
      OBVIOUS
    <3>1. x = 0
      BY <1>1
    <3> QED BY <2>1, <3>1
  <2>3. ASSUME NEW t \in Nat, t \in S PROVE t + 1 \in S
    <3>a. Agree(t)
      BY <2>3
    <3> SUFFICES Agree(t + 1)
      <4> HIDE DEF Agree
      <4> QED OBVIOUS
    <3> SUFFICES ASSUME NEW x \in 0..mm, NEW y \in 0..nn, x + y <= t + 1
                 PROVE  c[<<x + p, y + p>>] = p + e[<<x, y>>]
      OBVIOUS
    <3> SUFFICES ASSUME x # 0, y # 0
                 PROVE  c[<<x + p, y + p>>] = p + e[<<x, y>>]
      BY <2>1
    <3>1. /\ x - 1 \in 0..mm /\ y - 1 \in 0..nn
          /\ (x - 1) + y <= t /\ x + (y - 1) <= t /\ (x - 1) + (y - 1) <= t
          /\ (x + p) - 1 = (x - 1) + p /\ (y + p) - 1 = (y - 1) + p
          /\ x + p \in 0..m /\ y + p \in 0..n /\ x + p # 0 /\ y + p # 0
          /\ x \in 1..mm /\ y \in 1..nn /\ p + x = x + p /\ p + y = y + p
      BY <1>1, <1>10
    <3> DEFINE cd == c[<<(x - 1) + p, (y - 1) + p>>]
               cu == c[<<(x - 1) + p, y + p>>]
               cl == c[<<x + p, (y - 1) + p>>]
               ed == e[<<x - 1, y - 1>>]
               eu == e[<<x - 1, y>>]
               el == e[<<x, y - 1>>]
    <3>2. cd = p + ed /\ cu = p + eu /\ cl = p + el
      BY <3>a, <3>1
    <3>3. ed \in Nat /\ eu \in Nat /\ el \in Nat
      BY <1>6, <3>1 DEF TableSteps
    <3>4. c[<<x + p, y + p>>] = IF a[x + p] = b[y + p] THEN cd + 1 ELSE IF cu > cl THEN cu ELSE cl
      <4>1. c[<<x + p, y + p>>] = Best(c, a, b, x + p, y + p)
        BY <1>7, <3>1
      <4> QED BY ONLY <3>1, <4>1 DEF Best
    <3>5. e[<<x, y>>] = IF u[x] = v[y] THEN ed + 1 ELSE IF eu > el THEN eu ELSE el
      <4>1. e[<<x, y>>] = Best(e, u, v, x, y)
        BY <1>8
      <4> QED BY ONLY <3>1, <4>1, x # 0, y # 0 DEF Best
    <3>6. u[x] = a[x + p] /\ v[y] = b[y + p]
      BY <1>2, <1>3, <3>1
    <3> HIDE DEF cd, cu, cl, ed, eu, el
    <3>7. CASE u[x] = v[y]
      <4>1. c[<<x + p, y + p>>] = cd + 1 /\ e[<<x, y>>] = ed + 1
        BY <3>4, <3>5, <3>6, <3>7
      <4> QED BY <3>2, <3>3, <4>1
    <3>8. CASE u[x] # v[y]
      <4>1. c[<<x + p, y + p>>] = IF cu > cl THEN cu ELSE cl
        BY <3>4, <3>6, <3>8
      <4>2. e[<<x, y>>] = IF eu > el THEN eu ELSE el
        BY <3>5, <3>8
      <4>3. (IF p + eu > p + el THEN p + eu ELSE p + el) = p + (IF eu > el THEN eu ELSE el)
        BY <3>3
      <4> QED BY <3>2, <4>1, <4>2, <4>3
    <3> QED BY <3>7, <3>8
  <2>4. \A t \in Nat : t \in S
    <3> HIDE DEF S
    <3> QED BY <2>2, <2>3, NaturalInduction
  <2>5. i + j \in Nat /\ i + j <= i + j
    BY <1>1
  <2>6. i + j \in S
    <3> HIDE DEF S
    <3> QED BY <2>4, <2>5
  <2> QED BY <2>5, <2>6
\* Down the suffix.
<1>15. c[<<m, n>>] = s + c[<<m - s, n - s>>]
  <2> DEFINE S == {k \in Nat : k <= s => c[<<m, n>>] = k + c[<<m - k, n - k>>]}
  <2>0. ASSUME NEW k \in Nat, k <= s PROVE c[<<m - k, n - k>>] \in Nat
    <3>1. m - k \in 0..m /\ n - k \in 0..n
      BY <1>1, <1>10, <2>0
    <3> QED BY <1>9, <3>1
  <2>1. 0 \in S
    <3>1. m - 0 = m /\ n - 0 = n
      BY <1>1
    <3>2. c[<<m, n>>] \in Nat
      BY <2>0, <3>1
    <3>3. 0 + c[<<m, n>>] = c[<<m, n>>]
      BY <3>2
    <3> QED BY <3>1, <3>3
  <2>2. ASSUME NEW k \in Nat, k \in S PROVE k + 1 \in S
    <3> SUFFICES ASSUME k + 1 <= s PROVE c[<<m, n>>] = (k + 1) + c[<<m - (k + 1), n - (k + 1)>>]
      OBVIOUS
    <3>1. /\ m - k \in 0..m /\ n - k \in 0..n /\ m - k # 0 /\ n - k # 0
          /\ (m - k) - 1 = m - (k + 1) /\ (n - k) - 1 = n - (k + 1) /\ k \in 0..(s - 1)
      BY <1>1, <1>10
    <3>2. a[m - k] = b[n - k]
      BY <1>0, <3>1 DEF m, n
    <3>3. c[<<m - k, n - k>>] = Best(c, a, b, m - k, n - k)
      BY <1>7, <3>1
    <3>4. c[<<m - k, n - k>>] = c[<<m - (k + 1), n - (k + 1)>>] + 1
      BY ONLY <3>1, <3>2, <3>3 DEF Best
    <3>5. c[<<m - (k + 1), n - (k + 1)>>] \in Nat
      BY <2>0
    <3>6. c[<<m, n>>] = k + c[<<m - k, n - k>>]
      BY <2>2
    <3> DEFINE w == c[<<m - (k + 1), n - (k + 1)>>]
    <3> HIDE DEF w
    <3>7. w \in Nat
      BY <3>5 DEF w
    <3>8. k + (w + 1) = (k + 1) + w
      BY <3>7
    <3> QED BY <3>4, <3>6, <3>8 DEF w
  <2>3. \A k \in Nat : k \in S
    <3> HIDE DEF S
    <3> QED BY <2>1, <2>2, NaturalInduction
  <2>4. s \in S
    <3> HIDE DEF S
    <3> QED BY <2>3
  <2> QED BY <2>4
<1>16. c[<<m - s, n - s>>] = p + e[<<mm, nn>>] /\ e[<<mm, nn>>] \in Nat
  <2>1. mm \in 0..mm /\ nn \in 0..nn /\ mm + p = m - s /\ nn + p = n - s
    BY <1>1, <1>10
  <2>2. c[<<mm + p, nn + p>>] = p + e[<<mm, nn>>]
    BY <1>14, <2>1
  <2>3. e[<<mm, nn>>] \in Nat
    BY <1>6, <2>1 DEF TableSteps
  <2> QED BY <2>1, <2>2, <2>3
<1>17. LongestCommon(a, b) = p + s + LongestCommon(u, v)
  <2>1. c[<<m, n>>] = p + s + e[<<mm, nn>>]
    BY <1>15, <1>16
  <2> QED BY <1>4, <1>5, <2>1
<1> QED BY <1>17 DEF EndsCount, u, v, m, n

-----------------------------------------------------------------------------
(***************************************************************************)
(* The rows of Furthest: point k of row d is the last on diagonal k whose  *)
(* distance is at most d.                                                  *)
(***************************************************************************)

Diagonals(d) == {j \in -d..d : (j + d) % 2 = 0}

(* From x lines on along diagonal k, to the first line that differs.       *)
Slide(a, b, x, k) == IF x > Len(a) \/ x - k > Len(b) THEN x ELSE Snake(a, b, x, x - k)

NextRow(a, b, v, d) == [k \in Diagonals(d) |-> Slide(a, b, Before(v, d, k), k)]

Origin == [k \in {1} |-> 0]

AreRows(f, a, b, cap) ==
  /\ f[0] = NextRow(a, b, Origin, 0)
  /\ \A d \in 1..cap : f[d] = NextRow(a, b, f[d - 1], d)

(* Furthest solves its recurrence: each row is made of the one before.     *)
LEMMA FurthestIs ==
  ASSUME NEW a, NEW b, NEW cap \in Nat
  PROVE  AreRows(Furthest(a, b, cap), a, b, cap)
<1> DEFINE Def(n, f) == [d \in 0..n |-> NextRow(a, b, IF d = 0 THEN Origin ELSE f[d - 1], d)]
           S == {n \in Nat : \E f : f = Def(n, f)}
           Body(f) ==
             [d \in 0..cap |->
                LET v == IF d = 0 THEN [k \in {1} |-> 0] ELSE f[d - 1]
                IN  [k \in {j \in -d..d : (j + d) % 2 = 0} |->
                       LET x == Before(v, d, k)
                       IN  IF x > Len(a) \/ x - k > Len(b) THEN x ELSE Snake(a, b, x, x - k)]]
           t == CHOOSE f : f = Body(f)
<1>1. 0 \in S
  <2> DEFINE f == [d \in 0..0 |-> NextRow(a, b, Origin, d)]
  <2>1. f = Def(0, f)
    OBVIOUS
  <2> QED BY <2>1
<1>2. ASSUME NEW n \in Nat, n \in S PROVE n + 1 \in S
  <2>1. PICK f : f = Def(n, f)
    BY <1>2
  <2> DEFINE e == [d \in 0..(n + 1) |-> IF d <= n THEN f[d] ELSE NextRow(a, b, f[n], n + 1)]
  <2>2. ASSUME NEW d \in 0..(n + 1) PROVE e[d] = NextRow(a, b, IF d = 0 THEN Origin ELSE e[d - 1], d)
    <3>1. CASE d <= n
      <4>1. d \in 0..n /\ e[d] = f[d]
        BY <3>1
      <4>2. f[d] = NextRow(a, b, IF d = 0 THEN Origin ELSE f[d - 1], d)
        BY <2>1, <4>1
      <4>3. d # 0 => e[d - 1] = f[d - 1]
        <5> SUFFICES ASSUME d # 0 PROVE e[d - 1] = f[d - 1]
          OBVIOUS
        <5>1. d - 1 \in 0..(n + 1) /\ d - 1 <= n
          BY <3>1
        <5> QED BY <5>1
      <4> HIDE DEF e
      <4> QED BY <4>1, <4>2, <4>3
    <3>2. CASE d = n + 1
      <4>1. ~(d <= n) /\ d # 0 /\ d - 1 = n /\ n \in 0..(n + 1) /\ n <= n
        BY <3>2
      <4>2. e[d] = NextRow(a, b, f[n], n + 1) /\ e[n] = f[n]
        BY <4>1
      <4> HIDE DEF e
      <4> QED BY <3>2, <4>1, <4>2
    <3> QED BY <3>1, <3>2
  <2>3. e = Def(n + 1, e)
    <3> DEFINE g == Def(n + 1, e)
    <3>1. \A d \in 0..(n + 1) : e[d] = g[d]
      BY <2>2
    <3>2. DOMAIN e = 0..(n + 1) /\ DOMAIN g = 0..(n + 1)
      OBVIOUS
    <3>3. e = [d \in 0..(n + 1) |-> e[d]] /\ g = [d \in 0..(n + 1) |-> g[d]]
      OBVIOUS
    <3> HIDE DEF e, g
    <3>4. e = g
      BY <3>1, <3>3
    <3> QED BY <3>4 DEF g
  <2> HIDE DEF e, Def
  <2> QED BY <2>3
<1>3. \A n \in Nat : n \in S
  <2> HIDE DEF S
  <2> QED BY <1>1, <1>2, NaturalInduction
<1>4. t = Def(cap, t)
  <2>1. \E f : f = Def(cap, f)
    BY <1>3
  <2>2. \A f : Body(f) = Def(cap, f)
    BY DEF NextRow, Diagonals, Slide, Origin
  <2>3. \E f : f = Body(f)
    <3> HIDE DEF Body, Def
    <3> QED BY <2>1, <2>2
  <2>4. t = Body(t)
    <3> HIDE DEF Body
    <3> QED BY <2>3
  <2> HIDE DEF t, Body, Def
  <2> QED BY <2>2, <2>4
<1>5. Furthest(a, b, cap) = t
  BY DEF Furthest
<1> HIDE DEF t
<1>6. t[0] = NextRow(a, b, Origin, 0)
  <2>1. 0 \in 0..cap
    OBVIOUS
  <2> QED BY <1>4, <2>1
<1>7. ASSUME NEW d \in 1..cap PROVE t[d] = NextRow(a, b, t[d - 1], d)
  <2>1. d \in 0..cap /\ d # 0
    OBVIOUS
  <2> QED BY <1>4, <2>1
<1> QED BY <1>5, <1>6, <1>7 DEF AreRows

(* A slide passes lines that are alike and stops where they are not.       *)
LEMMA SlideIs ==
  ASSUME NEW L, NEW a \in Seq(L), NEW b \in Seq(L), NEW x \in Nat, NEW k \in Int, x - k \in Nat
  PROVE  LET z == Slide(a, b, x, k)
         IN  /\ z \in Nat /\ x <= z
             /\ \A i \in x..(z - 1) : Alike(a, b, i, i - k)
             /\ ~Alike(a, b, z, z - k)
<1> DEFINE m == Len(a)
           n == Len(b)
           y == x - k
           u == SubSeq(a, x + 1, m)
           v == SubSeq(b, y + 1, n)
           p == CommonPrefix(u, v)
<1>1. CASE x > m \/ y > n
  <2>1. Slide(a, b, x, k) = x /\ ~Alike(a, b, x, y)
    BY <1>1 DEF Slide, Alike
  <2> QED BY <2>1
<1>2. CASE ~(x > m \/ y > n)
  <2>1. m \in Nat /\ n \in Nat /\ y \in Nat /\ x <= m /\ y <= n
    BY <1>2
  <2>2. Len(u) = m - x /\ \A i \in 1..(m - x) : u[i] = a[x + i]
    BY <2>1
  <2>3. Len(v) = n - y /\ \A i \in 1..(n - y) : v[i] = b[y + i]
    BY <2>1
  <2>4. Len(u) \in Nat /\ Len(v) \in Nat
    <3> HIDE DEF u, v, y
    <3> QED BY <2>1, <2>2, <2>3
  <2>5. /\ p \in Nat /\ p <= Len(u) /\ p <= Len(v)
        /\ \A i \in 1..p : u[i] = v[i]
        /\ p < Len(u) /\ p < Len(v) => u[p + 1] # v[p + 1]
    <3> HIDE DEF u, v
    <3> QED BY <2>4, CommonPrefixIs
  <2>6. Slide(a, b, x, k) = x + p
    BY <1>2 DEF Slide, Snake
  <2>7. k = x - y
    OBVIOUS
  <2> HIDE DEF u, v, p, y
  <2>8. ASSUME NEW i \in x..((x + p) - 1) PROVE Alike(a, b, i, i - k)
    <3>1. /\ i - x + 1 \in 1..p /\ i - x + 1 \in 1..(m - x) /\ i - x + 1 \in 1..(n - y)
          /\ x + (i - x + 1) = i + 1 /\ y + (i - x + 1) = (i - k) + 1 /\ i < m /\ i - k < n
      BY <2>1, <2>2, <2>3, <2>5, <2>7
    <3> DEFINE o == i - x + 1
    <3>2. u[o] = a[i + 1] /\ v[o] = b[(i - k) + 1]
      <4>1. o \in 1..(m - x) /\ o \in 1..(n - y) /\ x + o = i + 1 /\ y + o = (i - k) + 1
        BY <3>1
      <4> HIDE DEF o
      <4>2. u[o] = a[x + o] /\ v[o] = b[y + o]
        BY <2>2, <2>3, <4>1
      <4> QED BY <4>1, <4>2
    <3>3. u[o] = v[o]
      BY <2>5, <3>1
    <3> HIDE DEF o
    <3> QED BY <3>1, <3>2, <3>3 DEF Alike
  <2>9. ~Alike(a, b, x + p, (x + p) - k)
    <3> SUFFICES ASSUME Alike(a, b, x + p, (x + p) - k) PROVE FALSE
      OBVIOUS
    <3>1. x + p < m /\ (x + p) - k < n /\ a[(x + p) + 1] = b[((x + p) - k) + 1]
      BY DEF Alike
    <3>2. /\ p < m - x /\ p < n - y /\ p + 1 \in 1..(m - x) /\ p + 1 \in 1..(n - y)
          /\ x + (p + 1) = (x + p) + 1 /\ y + (p + 1) = ((x + p) - k) + 1
      BY <2>1, <2>5, <2>7, <3>1
    <3>3. u[p + 1] = a[(x + p) + 1] /\ v[p + 1] = b[((x + p) - k) + 1]
      BY <2>2, <2>3, <3>2
    <3>4. u[p + 1] # v[p + 1]
      BY <2>2, <2>3, <2>5, <3>2
    <3> QED BY <3>1, <3>3, <3>4
  <2> QED BY <2>1, <2>5, <2>6, <2>8, <2>9
<1> QED BY <1>1, <1>2

(* Along a diagonal the distance never falls, and along a slide it stays.  *)
OnDiagonal(D, a, b, k, x) ==
  \A i \in Nat : /\ D[<<x, x - k>>] <= D[<<x + i, (x + i) - k>>]
                 /\ (\A j \in x..((x + i) - 1) : Alike(a, b, j, j - k))
                       => D[<<x, x - k>>] = D[<<x + i, (x + i) - k>>]

(* By induction on how far along the diagonal.                             *)
LEMMA DistanceOnDiagonal ==
  ASSUME NEW a, NEW b, NEW D, IsDistance(D, a, b), NEW k \in Int, NEW x \in Nat, x - k \in Nat
  PROVE  OnDiagonal(D, a, b, k, x)
<1> DEFINE S == {i \in Nat : /\ D[<<x, x - k>>] <= D[<<x + i, (x + i) - k>>]
                             /\ (\A j \in x..((x + i) - 1) : Alike(a, b, j, j - k))
                                    => D[<<x, x - k>>] = D[<<x + i, (x + i) - k>>]}
<1>0. ASSUME NEW p \in Nat, NEW q \in Nat PROVE D[<<p, q>>] \in Nat
  BY DEF IsDistance
<1>1. 0 \in S
  <2>1. x + 0 = x /\ D[<<x, x - k>>] \in Nat
    BY <1>0
  <2> QED BY <2>1
<1>2. ASSUME NEW i \in Nat, i \in S PROVE i + 1 \in S
  <2> DEFINE p == x + i
             q == (x + i) - k
  <2>1. /\ p \in Nat /\ q \in Nat /\ x + (i + 1) = p + 1 /\ (x + (i + 1)) - k = q + 1
        /\ p \in x..((x + (i + 1)) - 1) /\ q = p - k
    OBVIOUS
  <2>2. \A j \in x..((x + i) - 1) : j \in x..((x + (i + 1)) - 1)
    OBVIOUS
  <2>3. D[<<x, x - k>>] <= D[<<p, q>>]
    BY <1>2
  <2>4. (\A j \in x..((x + i) - 1) : Alike(a, b, j, j - k)) => D[<<x, x - k>>] = D[<<p, q>>]
    BY <1>2
  <2> HIDE DEF p, q
  <2>5. D[<<p, q>>] <= D[<<p + 1, q + 1>>] /\ (Alike(a, b, p, q) => D[<<p + 1, q + 1>>] = D[<<p, q>>])
    BY <2>1 DEF IsDistance
  <2>6. D[<<x, x - k>>] \in Nat /\ D[<<p, q>>] \in Nat /\ D[<<p + 1, q + 1>>] \in Nat
    BY <1>0, <2>1
  <2>7. D[<<x, x - k>>] <= D[<<p + 1, q + 1>>]
    BY <2>3, <2>5, <2>6
  <2>8. ASSUME \A j \in x..((x + (i + 1)) - 1) : Alike(a, b, j, j - k)
        PROVE  D[<<x, x - k>>] = D[<<p + 1, q + 1>>]
    <3>1. Alike(a, b, p, q)
      BY <2>1, <2>8
    <3>2. D[<<x, x - k>>] = D[<<p, q>>]
      BY <2>2, <2>4, <2>8
    <3> QED BY <2>5, <3>1, <3>2
  <2> QED BY <2>1, <2>7, <2>8
<1>3. \A i \in Nat : i \in S
  <2> HIDE DEF S
  <2> QED BY <1>1, <1>2, NaturalInduction
<1> QED BY <1>3 DEF OnDiagonal

IsFurthest(D, k, d, x) ==
  /\ x \in Nat /\ x - k \in Nat /\ D[<<x, x - k>>] <= d
  /\ \A z \in Nat : z > x /\ z - k \in Nat => D[<<z, z - k>>] > d

(* Sliding on from where d edits lead reaches furthest, if d edits lead no *)
(* further than that without a slide.                                      *)
LEMMA SlideIsFurthest ==
  ASSUME NEW L, NEW a \in Seq(L), NEW b \in Seq(L), NEW D, IsDistance(D, a, b),
         NEW x \in Nat, NEW k \in Int, x - k \in Nat, NEW d \in Nat, D[<<x, x - k>>] <= d,
         \A z \in Nat : z >= x /\ z - k \in Nat =>
           ~(D[<<z, (z - k) + 1>>] + 1 <= d) /\ ~(D[<<z + 1, z - k>>] + 1 <= d)
  PROVE  IsFurthest(D, k, d, Slide(a, b, x, k))
<1> DEFINE z == Slide(a, b, x, k)
<1>1. z \in Nat /\ x <= z /\ (\A i \in x..(z - 1) : Alike(a, b, i, i - k)) /\ ~Alike(a, b, z, z - k)
  BY SlideIs
<1> HIDE DEF z
<1>2. D \in [Nat \X Nat -> Nat]
  BY DEF IsDistance
<1>3. z - k \in Nat
  BY <1>1
<1>4. D[<<z, z - k>>] <= d
  <2> DEFINE i == z - x
  <2>1. i \in Nat /\ x + i = z
    BY <1>1
  <2> HIDE DEF i
  <2>2. (\A j \in x..((x + i) - 1) : Alike(a, b, j, j - k)) => D[<<x, x - k>>] = D[<<x + i, (x + i) - k>>]
    <3>1. OnDiagonal(D, a, b, k, x)
      BY DistanceOnDiagonal
    <3> QED BY ONLY <2>1, <3>1 DEF OnDiagonal
  <2> QED BY <1>1, <2>1, <2>2
<1>5. ASSUME NEW w \in Nat, w > z, w - k \in Nat, ~(D[<<w, w - k>>] > d) PROVE FALSE
  <2> DEFINE i == w - (z + 1)
             x1 == z + 1
  <2>0. z \in Nat /\ z < w
    BY <1>1, <1>5
  <2>1. i \in Nat /\ x1 + i = w /\ x1 \in Nat /\ x1 - k \in Nat /\ x1 = z + 1
    BY <2>0, <1>3
  <2> HIDE DEF i, x1
  <2>2. D[<<x1, x1 - k>>] <= D[<<w, w - k>>]
    <3>1. OnDiagonal(D, a, b, k, x1)
      BY <2>1, DistanceOnDiagonal
    <3>2. D[<<x1, x1 - k>>] <= D[<<x1 + i, (x1 + i) - k>>]
      BY ONLY <2>1, <3>1 DEF OnDiagonal
    <3> QED BY <2>1, <3>2
  <2>3. (z + 1) - k = (z - k) + 1
    BY <1>1
  <2>4. D[<<z + 1, (z - k) + 1>>] <= d
    <3>1. D[<<w, w - k>>] \in Nat /\ D[<<x1, x1 - k>>] \in Nat
      BY <1>2, <1>5, <2>1
    <3>2. D[<<w, w - k>>] <= d
      BY <1>5, <3>1
    <3>3. D[<<x1, x1 - k>>] <= d
      BY <2>2, <3>1, <3>2
    <3> QED BY <2>1, <2>3, <3>3
  <2>5. \/ D[<<z + 1, (z - k) + 1>>] = D[<<z, (z - k) + 1>>] + 1
        \/ D[<<z + 1, (z - k) + 1>>] = D[<<z + 1, z - k>>] + 1
    BY <1>1, <1>3 DEF IsDistance
  <2>6. ~(D[<<z, (z - k) + 1>>] + 1 <= d) /\ ~(D[<<z + 1, z - k>>] + 1 <= d)
    BY <1>1, <1>3
  <2> QED BY <2>4, <2>5, <2>6
<1>6. \A w \in Nat : w > z /\ w - k \in Nat => D[<<w, w - k>>] > d
  BY <1>5
<1>7. IsFurthest(D, k, d, z)
  BY <1>1, <1>3, <1>4, <1>6 DEF IsFurthest
<1> QED BY <1>7 DEF z

(* An even number is twice another.                                        *)
LEMMA EvenIs ==
  ASSUME NEW i \in Int
  PROVE  i % 2 = 0 <=> \E h \in Int : i = 2 * h
<1>1. i = 2 * (i \div 2) + (i % 2) /\ i \div 2 \in Int /\ i % 2 \in 0..1
  OBVIOUS
<1>2. ASSUME NEW h \in Int, i = 2 * h PROVE i % 2 = 0
  BY <1>2
<1>3. ASSUME i % 2 = 0 PROVE \E h \in Int : i = 2 * h
  <2>1. i = 2 * (i \div 2)
    BY <1>1, <1>3
  <2> QED BY <1>1, <2>1
<1> QED BY <1>2, <1>3

(* Row d has the diagonals from -d to d that d steps can reach.            *)
LEMMA DiagonalsAre ==
  ASSUME NEW d \in Nat, NEW k \in Int
  PROVE  k \in Diagonals(d) <=> (-d <= k /\ k <= d /\ \E h \in Int : k + d = 2 * h)
<1>1. (k + d) % 2 = 0 <=> \E h \in Int : k + d = 2 * h
  BY EvenIs
<1>2. k \in -d..d <=> -d <= k /\ k <= d
  OBVIOUS
<1> QED BY <1>1, <1>2 DEF Diagonals

(* A diagonal has its neighbours in the row before, but at the ends.       *)
LEMMA Neighbours ==
  ASSUME NEW d \in Nat, d > 0, NEW k \in Diagonals(d)
  PROVE  /\ k \in Int /\ -d <= k /\ k <= d
         /\ k # d <=> k + 1 \in Diagonals(d - 1)
         /\ k # -d <=> k - 1 \in Diagonals(d - 1)
<1>1. k \in Int
  BY DEF Diagonals
<1>2. -d <= k /\ k <= d
  BY <1>1, DiagonalsAre
<1>3. PICK h \in Int : k + d = 2 * h
  BY <1>1, DiagonalsAre
<1>4. d - 1 \in Nat /\ k + 1 \in Int /\ k - 1 \in Int
  BY <1>1
<1>5. ASSUME k # d PROVE k + 1 \in Diagonals(d - 1)
  <2>1. (k + 1) + (d - 1) = 2 * h
    BY <1>1, <1>3
  <2>2. -(d - 1) <= k + 1 /\ k + 1 <= d - 1
    BY <1>1, <1>2, <1>3, <1>5
  <2> QED BY <1>4, <2>1, <2>2, DiagonalsAre
<1>6. ASSUME k # -d PROVE k - 1 \in Diagonals(d - 1)
  <2>1. (k - 1) + (d - 1) = 2 * (h - 1) /\ h - 1 \in Int
    BY <1>1, <1>3
  <2>2. -(d - 1) <= k - 1 /\ k - 1 <= d - 1
    BY <1>1, <1>2, <1>3, <1>6
  <2>3. \E g \in Int : (k - 1) + (d - 1) = 2 * g
    BY <2>1
  <2> QED BY <1>4, <2>2, <2>3, DiagonalsAre
<1>7. ASSUME k + 1 \in Diagonals(d - 1) PROVE k # d
  <2>1. k + 1 <= d - 1
    BY <1>4, <1>7, DiagonalsAre
  <2> QED BY <1>1, <2>1
<1>8. ASSUME k - 1 \in Diagonals(d - 1) PROVE k # -d
  <2>1. -(d - 1) <= k - 1
    BY <1>4, <1>8, DiagonalsAre
  <2> QED BY <1>1, <2>1
<1> QED BY <1>1, <1>2, <1>5, <1>6, <1>7, <1>8

RowIsFurthest(D, v, d) == \A k \in Diagonals(d) : IsFurthest(D, k, d, v[k])

(* A point that fewer than d edits reach is on a diagonal of the row before*)
LEMMA OnARow ==
  ASSUME NEW a, NEW b, NEW D, IsDistance(D, a, b), NEW d \in Nat, d > 0, NEW k \in Diagonals(d),
         NEW x \in Nat, NEW y \in Nat, x - y = k - 1 \/ x - y = k + 1, D[<<x, y>>] + 1 <= d
  PROVE  x - y \in Diagonals(d - 1)
<1>1. k \in Int /\ -d <= k /\ k <= d
  BY Neighbours
<1>2. D[<<x, y>>] \in Nat /\ x - y <= D[<<x, y>>] /\ y - x <= D[<<x, y>>]
  BY DEF IsDistance
<1>3. CASE x - y = k - 1
  <2>1. k # -d
    BY <1>1, <1>2, <1>3
  <2> QED BY <1>3, <2>1, Neighbours
<1>4. CASE x - y = k + 1
  <2>1. k # d
    BY <1>1, <1>2, <1>4
  <2> QED BY <1>4, <2>1, Neighbours
<1> QED BY <1>3, <1>4

(* A step from the furthest points of a row, and the slide after it, is    *)
(* furthest on the next: any point of the distance d comes from one of the *)
(* distance d - 1 on a neighbouring diagonal, which is no further than the *)
(* point the row holds there.                                              *)
LEMMA NextRowIsFurthest ==
  ASSUME NEW L, NEW a \in Seq(L), NEW b \in Seq(L), NEW D, IsDistance(D, a, b),
         NEW d \in Nat, d > 0, NEW v, RowIsFurthest(D, v, d - 1)
  PROVE  RowIsFurthest(D, NextRow(a, b, v, d), d)
<1> SUFFICES ASSUME NEW k \in Diagonals(d)
             PROVE  IsFurthest(D, k, d, NextRow(a, b, v, d)[k])
  BY DEF RowIsFurthest
<1> DEFINE x == Before(v, d, k)
<1>0. NextRow(a, b, v, d)[k] = Slide(a, b, x, k)
  BY DEF NextRow
<1>1. k \in Int /\ -d <= k /\ k <= d /\ (k # d <=> k + 1 \in Diagonals(d - 1))
      /\ (k # -d <=> k - 1 \in Diagonals(d - 1))
  BY Neighbours
<1>2. ASSUME NEW j \in Diagonals(d - 1)
      PROVE  /\ j \in Int /\ v[j] \in Nat /\ v[j] - j \in Nat /\ D[<<v[j], v[j] - j>>] <= d - 1
             /\ \A z \in Nat : z > v[j] /\ z - j \in Nat => D[<<z, z - j>>] > d - 1
  <2>1. IsFurthest(D, j, d - 1, v[j])
    BY DEF RowIsFurthest
  <2>2. j \in Int
    BY DEF Diagonals
  <2> QED BY <2>1, <2>2 DEF IsFurthest
<1>3. D \in [Nat \X Nat -> Nat]
  BY DEF IsDistance
<1>4. \/ k # d /\ x = v[k + 1] /\ (k # -d => v[k - 1] < v[k + 1])
      \/ k # -d /\ x = v[k - 1] + 1 /\ (k # d => ~(v[k - 1] < v[k + 1]))
  <2>1. CASE k = -d
    <3>1. k # d
      BY <2>1
    <3>2. x = v[k + 1]
      BY <2>1 DEF Before, Insertion
    <3> QED BY <2>1, <3>1, <3>2
  <2>2. CASE k # -d
    <3>1. CASE k # d /\ v[k - 1] < v[k + 1]
      <4>1. x = v[k + 1]
        BY <3>1 DEF Before, Insertion
      <4> QED BY <3>1, <4>1
    <3>2. CASE ~(k # d /\ v[k - 1] < v[k + 1])
      <4>1. x = v[k - 1] + 1
        BY <2>2, <3>2 DEF Before, Insertion
      <4> QED BY <2>2, <3>2, <4>1
    <3> QED BY <3>1, <3>2
  <2> QED BY <2>1, <2>2
<1> HIDE DEF x
<1>5. x \in Nat /\ x - k \in Nat /\ D[<<x, x - k>>] <= d
  <2>1. CASE k # d /\ x = v[k + 1]
    <3> DEFINE y == x - (k + 1)
    <3>1. x \in Nat /\ y \in Nat /\ D[<<x, y>>] <= d - 1
      BY <1>1, <1>2, <2>1
    <3>2. x - k = y + 1
      BY <1>1, <3>1
    <3> HIDE DEF y
    <3>3. D[<<x, y + 1>>] <= D[<<x, y>>] + 1
      BY <3>1 DEF IsDistance
    <3>4. D[<<x, y>>] \in Nat /\ D[<<x, y + 1>>] \in Nat
      BY <1>3, <3>1
    <3>5. D[<<x, y + 1>>] <= d
      BY <3>1, <3>3, <3>4
    <3>6. y + 1 \in Nat
      BY <3>1
    <3>7. x \in Nat /\ x - k \in Nat
      BY ONLY <3>1, <3>2, <3>6
    <3>8. D[<<x, x - k>>] <= d
      BY ONLY <3>2, <3>5, Zenon
    <3> QED BY ONLY <3>7, <3>8
  <2>2. CASE k # -d /\ x = v[k - 1] + 1
    <3> DEFINE w == v[k - 1]
               y == w - (k - 1)
    <3>1. w \in Nat /\ y \in Nat /\ D[<<w, y>>] <= d - 1 /\ x = w + 1
      BY <1>1, <1>2, <2>2
    <3>2. x - k = y
      <4> HIDE DEF w
      <4> QED BY <1>1, <3>1
    <3> HIDE DEF y, w
    <3>3. D[<<w + 1, y>>] <= D[<<w, y>>] + 1
      BY <3>1 DEF IsDistance
    <3>4. D[<<w, y>>] \in Nat /\ D[<<w + 1, y>>] \in Nat
      BY <1>3, <3>1
    <3>5. D[<<w + 1, y>>] <= d
      BY <3>1, <3>3, <3>4
    <3>6. w + 1 \in Nat
      BY <3>1
    <3>7. x \in Nat /\ x - k \in Nat
      BY ONLY <3>1, <3>2, <3>6
    <3>8. D[<<x, x - k>>] <= d
      BY ONLY <3>1, <3>2, <3>5, Zenon
    <3> QED BY ONLY <3>7, <3>8
  <2> QED BY <1>4, <2>1, <2>2
<1>6. k + 1 \in Diagonals(d - 1) => v[k + 1] <= x
  <2> SUFFICES ASSUME k + 1 \in Diagonals(d - 1) PROVE v[k + 1] <= x
    OBVIOUS
  <2>1. v[k + 1] \in Nat
    BY <1>2
  <2>2. CASE k = -d
    <3>1. x = v[k + 1]
      BY <1>4, <2>2
    <3> QED BY <2>1, <3>1
  <2>3. CASE k # -d
    <3>1. v[k - 1] \in Nat
      BY <1>1, <1>2, <2>3
    <3> QED BY <1>1, <1>4, <2>1, <3>1
  <2> QED BY <2>2, <2>3
<1>7. k - 1 \in Diagonals(d - 1) => v[k - 1] + 1 <= x
  <2> SUFFICES ASSUME k - 1 \in Diagonals(d - 1) PROVE v[k - 1] + 1 <= x
    OBVIOUS
  <2>1. v[k - 1] \in Nat /\ k # -d
    BY <1>1, <1>2
  <2>2. CASE k = d
    <3>1. x = v[k - 1] + 1
      BY <1>4, <2>2
    <3> QED BY <2>1, <3>1
  <2>3. CASE k # d
    <3>1. v[k + 1] \in Nat
      BY <1>1, <1>2, <2>3
    <3> QED BY <1>4, <2>1, <3>1
  <2> QED BY <2>2, <2>3
<1>8. ASSUME NEW z \in Nat, z >= x, z - k \in Nat
      PROVE  ~(D[<<z, (z - k) + 1>>] + 1 <= d) /\ ~(D[<<z + 1, z - k>>] + 1 <= d)
  <2> DEFINE y == z - k
  <2>1. y \in Nat /\ y + 1 \in Nat /\ z + 1 \in Nat /\ z - (y + 1) = k - 1 /\ (z + 1) - y = k + 1
        /\ z - (k - 1) = y + 1 /\ (z + 1) - (k + 1) = y
    BY <1>1, <1>8
  <2> HIDE DEF y
  <2>2. ASSUME D[<<z, y + 1>>] + 1 <= d PROVE FALSE
    <3>1. k - 1 \in Diagonals(d - 1)
      BY <2>1, <2>2, OnARow
    <3>2. v[k - 1] + 1 <= x /\ v[k - 1] \in Nat
      BY <1>2, <1>7, <3>1
    <3>3. z > v[k - 1]
      BY <1>5, <1>8, <3>2
    <3>4. D[<<z, z - (k - 1)>>] > d - 1
      BY <1>2, <2>1, <3>1, <3>3
    <3> DEFINE e == D[<<z, y + 1>>]
    <3>5. e \in Nat /\ e > d - 1 /\ e + 1 <= d
      BY <1>3, <2>1, <2>2, <3>4
    <3> HIDE DEF e
    <3> QED BY <3>5
  <2>3. ASSUME D[<<z + 1, y>>] + 1 <= d PROVE FALSE
    <3>1. k + 1 \in Diagonals(d - 1)
      BY <2>1, <2>3, OnARow
    <3>2. v[k + 1] <= x /\ v[k + 1] \in Nat
      BY <1>2, <1>6, <3>1
    <3>3. z + 1 > v[k + 1]
      BY <1>5, <1>8, <3>2
    <3>4. D[<<z + 1, (z + 1) - (k + 1)>>] > d - 1
      BY <1>2, <2>1, <3>1, <3>3
    <3> DEFINE e == D[<<z + 1, y>>]
    <3>5. e \in Nat /\ e > d - 1 /\ e + 1 <= d
      BY <1>3, <2>1, <2>3, <3>4
    <3> HIDE DEF e
    <3> QED BY <3>5
  <2> QED BY <2>2, <2>3 DEF y
<1>9. IsFurthest(D, k, d, Slide(a, b, x, k))
  <2>1. \A z \in Nat : z >= x /\ z - k \in Nat =>
          ~(D[<<z, (z - k) + 1>>] + 1 <= d) /\ ~(D[<<z + 1, z - k>>] + 1 <= d)
    BY <1>8
  <2> QED BY <1>1, <1>5, <2>1, SlideIsFurthest
<1> QED BY <1>0, <1>9 DEF x

(* The row of no edits is the slide from the origin.                       *)
LEMMA FirstRowIsFurthest ==
  ASSUME NEW L, NEW a \in Seq(L), NEW b \in Seq(L), NEW D, IsDistance(D, a, b)
  PROVE  RowIsFurthest(D, NextRow(a, b, Origin, 0), 0)
<1>1. \A k \in Diagonals(0) : k = 0
  BY DEF Diagonals
<1>2. Before(Origin, 0, 0) = 0
  <2>1. Insertion(Origin, 0, 0)
    <3> DEFINE o == 0
    <3>1. \A i \in Int : i + i = i => i = -i
      OBVIOUS
    <3>2. o \in Int /\ o + o = o
      OBVIOUS
    <3> HIDE DEF o
    <3>3. Insertion(Origin, o, o)
      BY <3>1, <3>2 DEF Insertion
    <3> QED BY <3>3 DEF o
  <2>2. Origin[0 + 1] = 0
    <3>1. 0 + 1 = 1
      OBVIOUS
    <3> QED BY <3>1 DEF Origin
  <2> QED BY <2>1, <2>2 DEF Before
<1> SUFFICES ASSUME 0 \in Diagonals(0) PROVE IsFurthest(D, 0, 0, NextRow(a, b, Origin, 0)[0])
  BY <1>1 DEF RowIsFurthest
<1>3. NextRow(a, b, Origin, 0)[0] = Slide(a, b, 0, 0)
  BY <1>2 DEF NextRow
<1>4. ASSUME NEW z \in Nat PROVE D[<<z, (z - 0) + 1>>] + 1 > 0 /\ D[<<z + 1, z - 0>>] + 1 > 0
  <2>1. z - 0 \in Nat /\ (z - 0) + 1 \in Nat /\ z + 1 \in Nat
    OBVIOUS
  <2>2. D[<<z, (z - 0) + 1>>] \in Nat /\ D[<<z + 1, z - 0>>] \in Nat
    BY <2>1 DEF IsDistance
  <2> QED BY <2>2
<1>5. D[<<0, 0 - 0>>] <= 0 /\ 0 - 0 \in Nat
  BY DEF IsDistance
<1>6. IsFurthest(D, 0, 0, Slide(a, b, 0, 0))
  <2> DEFINE o == 0
  <2>1. o \in Nat /\ o \in Int /\ o - o \in Nat /\ D[<<o, o - o>>] <= o
    BY <1>5
  <2>2. \A z \in Nat : z >= o /\ z - o \in Nat =>
          ~(D[<<z, (z - o) + 1>>] + 1 <= o) /\ ~(D[<<z + 1, z - o>>] + 1 <= o)
    <3> SUFFICES ASSUME NEW z \in Nat
                 PROVE  ~(D[<<z, (z - o) + 1>>] + 1 <= o) /\ ~(D[<<z + 1, z - o>>] + 1 <= o)
      OBVIOUS
    <3>1. D[<<z, (z - 0) + 1>>] \in Nat /\ D[<<z + 1, z - 0>>] \in Nat
      BY DEF IsDistance
    <3> QED BY <3>1
  <2> HIDE DEF o
  <2>3. IsFurthest(D, o, o, Slide(a, b, o, o))
    BY <2>1, <2>2, SlideIsFurthest
  <2> QED BY <2>3 DEF o
<1> QED BY <1>3, <1>6

(* Myers: every row holds how far d edits reach, on each diagonal.         *)
LEMMA RowsAreFurthest ==
  ASSUME NEW L, NEW a \in Seq(L), NEW b \in Seq(L), NEW D, IsDistance(D, a, b), NEW cap \in Nat
  PROVE  \A d \in 0..cap : /\ RowIsFurthest(D, Furthest(a, b, cap)[d], d)
                           /\ DOMAIN Furthest(a, b, cap)[d] = Diagonals(d)
<1> DEFINE f == Furthest(a, b, cap)
           S == {d \in Nat : d <= cap => RowIsFurthest(D, f[d], d) /\ DOMAIN f[d] = Diagonals(d)}
<1>1. AreRows(f, a, b, cap)
  BY FurthestIs
<1> HIDE DEF f
<1>2. 0 \in S
  <2>1. f[0] = NextRow(a, b, Origin, 0)
    BY <1>1 DEF AreRows
  <2>2. DOMAIN NextRow(a, b, Origin, 0) = Diagonals(0)
    BY DEF NextRow
  <2>3. RowIsFurthest(D, f[0], 0)
    BY <2>1, FirstRowIsFurthest
  <2> QED BY <2>1, <2>2, <2>3
<1>3. ASSUME NEW d \in Nat, d \in S PROVE d + 1 \in S
  <2> SUFFICES ASSUME d + 1 <= cap PROVE RowIsFurthest(D, f[d + 1], d + 1) /\ DOMAIN f[d + 1] = Diagonals(d + 1)
    OBVIOUS
  <2> DEFINE e == d + 1
  <2>1. e \in 1..cap /\ e \in Nat /\ e > 0 /\ e - 1 = d
    OBVIOUS
  <2> HIDE DEF e
  <2>2. f[e] = NextRow(a, b, f[e - 1], e)
    BY <1>1, <2>1 DEF AreRows
  <2>3. RowIsFurthest(D, f[e - 1], e - 1)
    BY <1>3, <2>1
  <2>4. RowIsFurthest(D, f[e], e)
    BY <2>1, <2>2, <2>3, NextRowIsFurthest
  <2>5. DOMAIN NextRow(a, b, f[e - 1], e) = Diagonals(e)
    BY DEF NextRow
  <2> QED BY <2>2, <2>4, <2>5 DEF e
<1>4. \A d \in Nat : d \in S
  <2> HIDE DEF S
  <2> QED BY <1>2, <1>3, NaturalInduction
<1> QED BY <1>4 DEF f

-----------------------------------------------------------------------------
(***************************************************************************)
(* The way back through the rows, and the hunks its edits are joined into. *)
(***************************************************************************)

StepBack(f, d, at) ==
  LET k == at.x - at.y
      ins == Insertion(f[d], d + 1, k)
      x == IF ins THEN f[d][k + 1] ELSE f[d][k - 1]
  IN  [x |-> x, y |-> x - (IF ins THEN k + 1 ELSE k - 1),
       edits |-> <<[ins |-> ins, at |-> x]>> \o at.edits]

IsTrack(h, f, m, n, found) ==
  /\ h[found] = [x |-> m, y |-> n, edits |-> <<>>]
  /\ \A d \in 0..(found - 1) : h[d] = StepBack(f, d, h[d + 1])

(* The walk back from the ends solves its recurrence.                      *)
LEMMA EditsTracked ==
  ASSUME NEW a, NEW b, NEW f, NEW found \in Nat
  PROVE  \E h : IsTrack(h, f, Len(a), Len(b), found) /\ Edits(a, b, f, found) = h[0].edits
<1> DEFINE m == Len(a)
           n == Len(b)
           AtEnds == [x |-> m, y |-> n, edits |-> <<>>]
           Def(j, h) == [d \in (found - j)..found |-> IF d = found THEN AtEnds ELSE StepBack(f, d, h[d + 1])]
           S == {j \in Nat : j <= found => \E h : h = Def(j, h)}
           Body(back) ==
             [d \in 0..found |->
                IF d = found THEN [x |-> Len(a), y |-> Len(b), edits |-> <<>>]
                ELSE LET at == back[d + 1]
                         k == at.x - at.y
                         ins == Insertion(f[d], d + 1, k)
                         x == IF ins THEN f[d][k + 1] ELSE f[d][k - 1]
                     IN  [x |-> x, y |-> x - (IF ins THEN k + 1 ELSE k - 1),
                          edits |-> <<[ins |-> ins, at |-> x]>> \o at.edits]]
           t == CHOOSE back : back = Body(back)
<1>1. 0 \in S
  <2> DEFINE h == [d \in (found - 0)..found |-> AtEnds]
  <2>1. \A d \in (found - 0)..found : d = found
    OBVIOUS
  <2>2. h = Def(0, h)
    <3> HIDE DEF AtEnds
    <3> QED BY <2>1
  <2> HIDE DEF h, Def
  <2> QED BY <2>2
<1>2. ASSUME NEW j \in Nat, j \in S PROVE j + 1 \in S
  <2> SUFFICES ASSUME j + 1 <= found PROVE \E h : h = Def(j + 1, h)
    OBVIOUS
  <2>1. PICK h : h = Def(j, h)
    BY <1>2
  <2> DEFINE lo == found - (j + 1)
             e == [d \in lo..found |-> IF d > lo THEN h[d] ELSE StepBack(f, d, h[d + 1])]
  <2>2. lo \in Nat /\ lo < found /\ found - j = lo + 1
    OBVIOUS
  <2>3. ASSUME NEW d \in lo..found PROVE e[d] = IF d = found THEN AtEnds ELSE StepBack(f, d, e[d + 1])
    <3> HIDE DEF lo, AtEnds
    <3>1. d # found => e[d + 1] = h[d + 1]
      <4> SUFFICES ASSUME d # found PROVE e[d + 1] = h[d + 1]
        OBVIOUS
      <4>1. d + 1 \in lo..found /\ d + 1 > lo
        BY <2>2
      <4> QED BY <4>1
    <3>2. CASE d > lo
      <4>1. d \in (found - j)..found /\ e[d] = h[d]
        BY <2>2, <3>2
      <4>2. h[d] = IF d = found THEN AtEnds ELSE StepBack(f, d, h[d + 1])
        BY <2>1, <4>1
      <4> HIDE DEF e, Def
      <4> QED BY <3>1, <4>1, <4>2
    <3>3. CASE ~(d > lo)
      <4>1. d # found /\ e[d] = StepBack(f, d, h[d + 1])
        BY <2>2, <3>3
      <4> HIDE DEF e, Def
      <4> QED BY <3>1, <4>1
    <3> QED BY <3>2, <3>3
  <2>4. e = Def(j + 1, e)
    <3> DEFINE g == Def(j + 1, e)
    <3>1. \A d \in lo..found : e[d] = g[d]
      BY <2>3
    <3>2. e = [d \in lo..found |-> e[d]] /\ g = [d \in lo..found |-> g[d]]
      <4> HIDE DEF AtEnds
      <4> QED OBVIOUS
    <3> HIDE DEF e, g
    <3>3. e = g
      BY <3>1, <3>2
    <3> QED BY <3>3 DEF g
  <2> HIDE DEF e, Def
  <2> QED BY <2>4
<1>3. \A j \in Nat : j \in S
  <2> HIDE DEF S
  <2> QED BY <1>1, <1>2, NaturalInduction
<1>4. \E h : h = Def(found, h)
  <2>1. found \in S /\ found <= found
    <3> HIDE DEF S
    <3> QED BY <1>3
  <2> HIDE DEF Def
  <2> QED BY <2>1
<1>5. t = Def(found, t)
  <2>1. found - found = 0
    OBVIOUS
  <2>2. \A back : Body(back) = Def(found, back)
    BY <2>1 DEF StepBack
  <2>3. \E back : back = Body(back)
    <3> HIDE DEF Body, Def
    <3> QED BY <1>4, <2>2
  <2>4. t = Body(t)
    <3> HIDE DEF Body
    <3> QED BY <2>3
  <2> HIDE DEF t, Body, Def
  <2> QED BY <2>2, <2>4
<1>6. Edits(a, b, f, found) = t[0].edits
  BY DEF Edits
<1> HIDE DEF t
<1>7. ASSUME NEW d \in 0..found PROVE t[d] = IF d = found THEN AtEnds ELSE StepBack(f, d, t[d + 1])
  <2>1. d \in (found - found)..found
    OBVIOUS
  <2> HIDE DEF AtEnds
  <2> QED BY <1>5, <2>1
<1>8. IsTrack(t, f, m, n, found)
  <2>1. t[found] = AtEnds
    <3>1. found \in 0..found
      OBVIOUS
    <3> HIDE DEF AtEnds
    <3> QED BY <1>7, <3>1
  <2>2. ASSUME NEW d \in 0..(found - 1) PROVE t[d] = StepBack(f, d, t[d + 1])
    <3>1. d \in 0..found /\ d # found
      OBVIOUS
    <3> HIDE DEF AtEnds
    <3> QED BY <1>7, <3>1
  <2> QED BY <2>1, <2>2 DEF IsTrack
<1> QED BY <1>6, <1>8

Edit == [ins : BOOLEAN, at : Nat]

(* The edits go from diagonal to diagonal, one of them at a time.          *)
Walks(e, K, last) ==
  /\ e \in Seq(Edit) /\ K \in [0..Len(e) -> Int] /\ K[0] = 0 /\ K[Len(e)] = last
  /\ \A i \in 1..Len(e) : K[i] = IF e[i].ins THEN K[i - 1] - 1 ELSE K[i - 1] + 1

(* Walking back, one edit is made for each row, and they lead from the     *)
(* diagonal of the origin to that of the ends.                             *)
LEMMA EditsWalk ==
  ASSUME NEW a, NEW b, Len(a) \in Nat, Len(b) \in Nat, NEW f, NEW found \in Nat,
         \A d \in 0..found : \A k \in Diagonals(d) : f[d][k] \in Nat,
         Len(a) - Len(b) \in Diagonals(found)
  PROVE  Len(Edits(a, b, f, found)) = found /\ \E K : Walks(Edits(a, b, f, found), K, Len(a) - Len(b))
<1> DEFINE m == Len(a)
           n == Len(b)
<1>1. PICK h : IsTrack(h, f, m, n, found) /\ Edits(a, b, f, found) = h[0].edits
  BY EditsTracked
<1> DEFINE k(d) == h[d].x - h[d].y
           at(d) == [ins |-> Insertion(f[d], d + 1, k(d + 1)), at |-> h[d].x]
           Good(d) ==
             /\ h[d].x \in Int /\ h[d].y \in Int /\ k(d) \in Diagonals(d)
             /\ h[d].edits \in Seq(Edit) /\ Len(h[d].edits) = found - d
             /\ \A i \in 1..(found - d) : h[d].edits[i] = at(d + i - 1)
           S == {j \in Nat : j <= found => Good(found - j)}
           Step(d) == k(d + 1) = IF at(d).ins THEN k(d) - 1 ELSE k(d) + 1
<1>2. 0 \in S
  <2>1. h[found] = [x |-> m, y |-> n, edits |-> <<>>]
    BY <1>1 DEF IsTrack
  <2>2. h[found].x = m /\ h[found].y = n /\ h[found].edits = <<>>
    BY <2>1
  <2>3. <<>> \in Seq(Edit) /\ Len(<<>>) = 0
    OBVIOUS
  <2>4. found - found = 0 /\ found - 0 = found /\ 1..0 = {}
    OBVIOUS
  <2>5. Good(found)
    <3> HIDE DEF at
    <3> QED BY <2>2, <2>3, <2>4
  <2> HIDE DEF Good
  <2> QED BY <2>4, <2>5
\* One step back.
<1>3. ASSUME NEW d \in 0..(found - 1), Good(d + 1) PROVE Good(d) /\ Step(d)
  <2> DEFINE q == k(d + 1)
             ins == Insertion(f[d], d + 1, q)
             p == IF ins THEN q + 1 ELSE q - 1
             x == f[d][p]
             rest == h[d + 1].edits
             this == [ins |-> ins, at |-> x]
  <2>1. h[d] = StepBack(f, d, h[d + 1])
    BY <1>1 DEF IsTrack
  <2>2. h[d].x = x /\ h[d].y = x - p /\ h[d].edits = <<this>> \o rest
    BY <2>1 DEF StepBack
  <2>3. d + 1 \in Nat /\ d + 1 > 0 /\ (d + 1) - 1 = d /\ q \in Diagonals(d + 1) /\ d \in 0..found
    <3>1. d \in Nat /\ d + 1 \in Nat /\ d + 1 > 0 /\ (d + 1) - 1 = d /\ d \in 0..found
      OBVIOUS
    <3>2. q \in Diagonals(d + 1)
      BY <1>3
    <3> HIDE DEF q
    <3> QED BY <3>1, <3>2
  <2>4. q \in Int /\ (q # d + 1 <=> q + 1 \in Diagonals(d)) /\ (q # -(d + 1) <=> q - 1 \in Diagonals(d))
    <3> HIDE DEF q
    <3> DEFINE e == d + 1
    <3>1. e \in Nat /\ e > 0 /\ q \in Diagonals(e) /\ e - 1 = d
      BY <2>3
    <3> HIDE DEF e
    <3>2. q \in Int /\ (q # e <=> q + 1 \in Diagonals(e - 1)) /\ (q # -e <=> q - 1 \in Diagonals(e - 1))
      BY <3>1, Neighbours
    <3> QED BY <3>1, <3>2 DEF e
  <2>5. ins \in BOOLEAN /\ (q = -(d + 1) => ins) /\ (q = d + 1 => ~ins)
    <3>1. -(d + 1) # d + 1
      OBVIOUS
    <3> HIDE DEF q
    <3> QED BY <3>1 DEF Insertion
  <2> HIDE DEF q, ins
  <2>6. p \in Diagonals(d) /\ p \in Int /\ q = IF ins THEN p - 1 ELSE p + 1
    <3>1. CASE ins
      <4>1. p = q + 1 /\ q # d + 1
        BY <2>5, <3>1
      <4> QED BY <2>4, <3>1, <4>1
    <3>2. CASE ~ins
      <4>1. p = q - 1 /\ q # -(d + 1)
        BY <2>5, <3>2
      <4> QED BY <2>4, <3>2, <4>1
    <3> QED BY <3>1, <3>2
  <2> HIDE DEF p
  <2>7. x \in Nat
    BY <2>3, <2>6
  <2>8. this \in Edit
    <3> HIDE DEF x
    <3> QED BY <2>5, <2>7 DEF Edit
  <2> HIDE DEF x
  <2>9. h[d].x \in Int /\ h[d].y \in Int /\ k(d) = p
    BY <2>2, <2>6, <2>7
  <2>10. at(d) = this
    BY <2>2 DEF q, ins
  <2>11. rest \in Seq(Edit) /\ Len(rest) = found - (d + 1)
         /\ \A i \in 1..(found - (d + 1)) : rest[i] = at((d + 1) + i - 1)
    BY <1>3
  <2> DEFINE all == <<this>> \o rest
  <2>12. <<this>> \in Seq(Edit) /\ Len(<<this>>) = 1 /\ <<this>>[1] = this
    <3> HIDE DEF this
    <3> QED BY <2>8
  <2>13. all \in Seq(Edit) /\ Len(all) = 1 + Len(rest)
    <3> DEFINE one == <<this>>
    <3> HIDE DEF one, rest
    <3>1. one \in Seq(Edit) /\ Len(one) = 1
      BY <2>12 DEF one
    <3>2. one \o rest \in Seq(Edit) /\ Len(one \o rest) = 1 + Len(rest)
      <4>1. rest \in Seq(Edit)
        BY <2>11
      <4> QED BY ONLY <3>1, <4>1, ConcatProperties
    <3> QED BY <3>2 DEF one
  <2>14. ASSUME NEW i \in 1..(found - d) PROVE all[i] = at(d + i - 1)
    <3> HIDE DEF this, rest, at
    <3>1. CASE i = 1
      <4>1. all[1] = this
        BY <2>11, <2>12
      <4>2. d + 1 - 1 = d
        BY <2>3
      <4> QED BY <2>10, <3>1, <4>1, <4>2
    <3>2. CASE i # 1
      <4>1. i - 1 \in 1..(found - (d + 1)) /\ (d + 1) + (i - 1) - 1 = d + i - 1
        BY <3>2
      <4>2. all[i] = rest[i - 1]
        BY <2>11, <2>12, <3>2, <4>1
      <4> QED BY <2>11, <4>1, <4>2
    <3> QED BY <3>1, <3>2
  <2>15. Len(all) = found - d
    BY <2>11, <2>13
  <2>16. Good(d)
    <3> HIDE DEF all, at, k
    <3> QED BY <2>2, <2>6, <2>9, <2>13, <2>14, <2>15 DEF all
  <2>17. Step(d)
    <3>1. k(d + 1) = q
      BY DEF q
    <3>2. at(d).ins = ins
      BY <2>10
    <3>3. k(d) = p /\ p \in Int /\ q = IF ins THEN p - 1 ELSE p + 1
      BY <2>6, <2>9
    <3> HIDE DEF at, k
    <3> QED BY ONLY <3>1, <3>2, <3>3
  <2> QED BY <2>16, <2>17
<1>4. ASSUME NEW j \in Nat, j \in S PROVE j + 1 \in S
  <2> SUFFICES ASSUME j + 1 <= found PROVE Good(found - (j + 1))
    OBVIOUS
  <2> DEFINE d == found - (j + 1)
  <2>1. d \in 0..(found - 1) /\ d + 1 = found - j /\ j <= found
    OBVIOUS
  <2> HIDE DEF d, Good, Step
  <2>2. Good(d + 1)
    BY <1>4, <2>1
  <2>3. Good(d)
    BY <1>3, <2>1, <2>2
  <2> QED BY <2>3 DEF d
<1>5. \A j \in Nat : j \in S
  <2> HIDE DEF S
  <2> QED BY <1>2, <1>4, NaturalInduction
<1>6. ASSUME NEW d \in 0..found PROVE Good(d)
  <2>1. found - d \in Nat /\ found - d <= found /\ found - (found - d) = d
    OBVIOUS
  <2>2. found - d \in S
    <3> HIDE DEF S
    <3> QED BY <1>5, <2>1
  <2> HIDE DEF Good
  <2> QED BY <2>1, <2>2
<1> DEFINE e == h[0].edits
           K == [i \in 0..found |-> k(i)]
<1>7. Good(0) /\ Good(found)
  <2>1. 0 \in 0..found /\ found \in 0..found
    OBVIOUS
  <2> HIDE DEF Good
  <2> QED BY <1>6, <2>1
<1>8. e \in Seq(Edit) /\ Len(e) = found /\ \A i \in 1..found : e[i] = at(i - 1)
  <2>1. found - 0 = found
    OBVIOUS
  <2>2. e \in Seq(Edit) /\ Len(e) = found /\ \A i \in 1..found : e[i] = at(0 + i - 1)
    <3> HIDE DEF at, k
    <3> QED BY <1>7, <2>1
  <2>3. ASSUME NEW i \in 1..found PROVE 0 + i - 1 = i - 1
    OBVIOUS
  <2> HIDE DEF at, e
  <2> QED BY <2>2, <2>3
<1>9. K \in [0..found -> Int]
  <2>1. ASSUME NEW i \in 0..found PROVE k(i) \in Int
    <3>1. Good(i)
      BY <1>6
    <3> QED BY <3>1
  <2> HIDE DEF k
  <2> QED BY <2>1
<1>10. K[0] = 0 /\ K[found] = m - n
  <2>1. k(0) \in Diagonals(0)
    BY <1>7
  <2>2. k(0) = 0
    <3> HIDE DEF k
    <3> QED BY <2>1 DEF Diagonals
  <2>3. k(found) = m - n
    BY <1>1 DEF IsTrack
  <2>4. 0 \in 0..found /\ found \in 0..found
    OBVIOUS
  <2> HIDE DEF k
  <2> QED BY <2>2, <2>3, <2>4
<1>11. ASSUME NEW i \in 1..found PROVE K[i] = IF e[i].ins THEN K[i - 1] - 1 ELSE K[i - 1] + 1
  <2> DEFINE d == i - 1
  <2>1. d \in 0..(found - 1) /\ d + 1 = i /\ i \in 0..found /\ d \in 0..found
    OBVIOUS
  <2>2. e[i] = at(d)
    BY <1>8
  <2>3. K[i] = k(i) /\ K[d] = k(d)
    <3> HIDE DEF d, k
    <3> QED BY <2>1
  <2> HIDE DEF d
  <2>4. Step(d)
    <3>1. Good(d + 1)
      <4> HIDE DEF Good
      <4> QED BY <1>6, <2>1
    <3> HIDE DEF Good, Step
    <3> QED BY <1>3, <2>1, <3>1
  <2>5. k(i) = IF e[i].ins THEN k(d) - 1 ELSE k(d) + 1
    <3> HIDE DEF at, k, e, K
    <3> QED BY <2>1, <2>2, <2>4
  <2> HIDE DEF e, K, k
  <2> QED BY <2>3, <2>5 DEF d
<1>12. Walks(e, K, m - n)
  <2> HIDE DEF e, K
  <2> QED BY <1>8, <1>9, <1>10, <1>11 DEF Walks
<1> QED BY <1>1, <1>8, <1>12

Tally(e, i, ins) == Cardinality({j \in 1..i : e[j].ins = ins})

(* Running counts of the removals and of the additions.                    *)
Counted(e, R, A) ==
  /\ R \in [0..Len(e) -> Nat] /\ A \in [0..Len(e) -> Nat] /\ R[0] = 0 /\ A[0] = 0
  /\ \A i \in 1..Len(e) : R[i] = IF e[i].ins THEN R[i - 1] ELSE R[i - 1] + 1
  /\ \A i \in 1..Len(e) : A[i] = IF e[i].ins THEN A[i - 1] + 1 ELSE A[i - 1]
  /\ R[Len(e)] = Cardinality({i \in DOMAIN e : ~e[i].ins})
  /\ A[Len(e)] = Cardinality({i \in DOMAIN e : e[i].ins})

(* Counting one edit further.                                              *)
LEMMA TallyIs ==
  ASSUME NEW e, NEW n \in Nat, \A i \in 1..n : e[i].ins \in BOOLEAN, NEW w \in BOOLEAN
  PROVE  /\ Tally(e, 0, w) = 0
         /\ \A i \in 0..n : Tally(e, i, w) \in Nat
         /\ \A i \in 1..n : Tally(e, i, w) = IF e[i].ins = w THEN Tally(e, i - 1, w) + 1 ELSE Tally(e, i - 1, w)
<1> DEFINE T(i) == {j \in 1..i : e[j].ins = w}
<1>1. ASSUME NEW i \in 0..n PROVE IsFiniteSet(T(i)) /\ Cardinality(T(i)) \in Nat
  <2>1. IsFiniteSet(1..i)
    BY FS_Interval
  <2>2. T(i) \subseteq 1..i
    OBVIOUS
  <2> HIDE DEF T
  <2>3. IsFiniteSet(T(i))
    BY <2>1, <2>2, FS_Subset
  <2> QED BY <2>3, FS_CardinalityType
<1>2. Tally(e, 0, w) = 0
  <2>1. T(0) = {}
    OBVIOUS
  <2>2. Cardinality(T(0)) = 0
    BY <2>1, FS_EmptySet
  <2> QED BY <2>2 DEF Tally
<1>3. ASSUME NEW i \in 1..n
      PROVE  Tally(e, i, w) = IF e[i].ins = w THEN Tally(e, i - 1, w) + 1 ELSE Tally(e, i - 1, w)
  <2>1. i - 1 \in 0..n /\ i \in 1..i /\ i \notin 1..(i - 1) /\ \A j \in 1..i : j = i \/ j \in 1..(i - 1)
    OBVIOUS
  <2>2. \A j \in 1..(i - 1) : j \in 1..i
    OBVIOUS
  <2>3. CASE e[i].ins = w
    <3>1. T(i) = T(i - 1) \cup {i} /\ i \notin T(i - 1)
      BY <2>1, <2>2, <2>3
    <3> HIDE DEF T
    <3>2. IsFiniteSet(T(i - 1))
      BY <1>1, <2>1
    <3>3. Cardinality(T(i - 1) \cup {i}) = Cardinality(T(i - 1)) + 1
      BY <3>1, <3>2, FS_AddElement
    <3>4. Cardinality(T(i)) = Cardinality(T(i - 1)) + 1
      BY <3>1, <3>3
    <3> QED BY <2>3, <3>4 DEF Tally, T
  <2>4. CASE e[i].ins # w
    <3>1. T(i) = T(i - 1)
      BY <2>1, <2>2, <2>4
    <3> QED BY <2>4, <3>1 DEF Tally
  <2> QED BY <2>3, <2>4
<1>4. \A i \in 0..n : Tally(e, i, w) \in Nat
  BY <1>1 DEF Tally
<1> QED BY <1>2, <1>3, <1>4

(* Every sequence of edits has its running counts.                         *)
LEMMA EditsCounted ==
  ASSUME NEW e \in Seq(Edit)
  PROVE  \E R, A : Counted(e, R, A)
<1> DEFINE n == Len(e)
           R == [i \in 0..n |-> Tally(e, i, FALSE)]
           A == [i \in 0..n |-> Tally(e, i, TRUE)]
<1>1. n \in Nat /\ \A i \in 1..n : e[i].ins \in BOOLEAN
  <2>1. \A i \in 1..n : e[i] \in Edit
    OBVIOUS
  <2> QED BY <2>1 DEF Edit
<1>2. /\ Tally(e, 0, FALSE) = 0
      /\ \A i \in 0..n : Tally(e, i, FALSE) \in Nat
      /\ \A i \in 1..n : Tally(e, i, FALSE) = IF e[i].ins = FALSE THEN Tally(e, i - 1, FALSE) + 1 ELSE Tally(e, i - 1, FALSE)
  <2> HIDE DEF n
  <2> QED BY <1>1, TallyIs
<1>3. /\ Tally(e, 0, TRUE) = 0
      /\ \A i \in 0..n : Tally(e, i, TRUE) \in Nat
      /\ \A i \in 1..n : Tally(e, i, TRUE) = IF e[i].ins = TRUE THEN Tally(e, i - 1, TRUE) + 1 ELSE Tally(e, i - 1, TRUE)
  <2> HIDE DEF n
  <2> QED BY <1>1, TallyIs
<1>4. DOMAIN e = 1..n
  OBVIOUS
<1>5. Tally(e, n, FALSE) = Cardinality({i \in DOMAIN e : ~e[i].ins})
  <2>1. {j \in 1..n : e[j].ins = FALSE} = {i \in DOMAIN e : ~e[i].ins}
    BY <1>1, <1>4
  <2> QED BY <2>1 DEF Tally
<1>6. Tally(e, n, TRUE) = Cardinality({i \in DOMAIN e : e[i].ins})
  <2>1. {j \in 1..n : e[j].ins = TRUE} = {i \in DOMAIN e : e[i].ins}
    BY <1>1, <1>4
  <2> QED BY <2>1 DEF Tally
<1> HIDE DEF n
<1>7. ASSUME NEW i \in 1..n
      PROVE  /\ R[i] = IF e[i].ins THEN R[i - 1] ELSE R[i - 1] + 1
             /\ A[i] = IF e[i].ins THEN A[i - 1] + 1 ELSE A[i - 1]
  <2>1. i \in 0..n /\ i - 1 \in 0..n
    BY <1>1
  <2>2. R[i] = Tally(e, i, FALSE) /\ R[i - 1] = Tally(e, i - 1, FALSE)
        /\ A[i] = Tally(e, i, TRUE) /\ A[i - 1] = Tally(e, i - 1, TRUE)
    BY <2>1
  <2> HIDE DEF R, A
  <2>3. CASE e[i].ins
    <3>1. e[i].ins = TRUE
      BY <1>1, <2>3
    <3> QED BY <1>2, <1>3, <2>2, <3>1
  <2>4. CASE ~e[i].ins
    <3>1. e[i].ins = FALSE
      BY <1>1, <2>4
    <3> QED BY <1>2, <1>3, <2>2, <3>1
  <2> QED BY <2>3, <2>4
<1>8. R \in [0..n -> Nat] /\ A \in [0..n -> Nat]
  BY <1>2, <1>3
<1>9. 0 \in 0..n /\ n \in 0..n
  BY <1>1
<1>10. R[0] = 0 /\ A[0] = 0 /\ R[n] = Tally(e, n, FALSE) /\ A[n] = Tally(e, n, TRUE)
  BY <1>2, <1>3, <1>9
<1> HIDE DEF R, A
<1>11. Counted(e, R, A)
  BY <1>5, <1>6, <1>7, <1>8, <1>10 DEF Counted, n
<1> QED BY <1>11

(* The counts are fixed by how many edits there are and where they lead.   *)
LEMMA WalkCounts ==
  ASSUME NEW e, NEW K, NEW last \in Int, Walks(e, K, last), NEW R, NEW A, Counted(e, R, A)
  PROVE  R[Len(e)] + A[Len(e)] = Len(e) /\ R[Len(e)] - A[Len(e)] = last
<1> DEFINE n == Len(e)
           S == {i \in Nat : i <= n => R[i] + A[i] = i /\ R[i] - A[i] = K[i]}
<1>0. n \in Nat
  BY DEF Walks
<1>1. 0 \in S
  <2>1. R[0] = 0 /\ A[0] = 0 /\ K[0] = 0
    BY DEF Walks, Counted
  <2> QED BY <2>1
<1>2. ASSUME NEW i \in Nat, i \in S PROVE i + 1 \in S
  <2> SUFFICES ASSUME i + 1 <= n PROVE R[i + 1] + A[i + 1] = i + 1 /\ R[i + 1] - A[i + 1] = K[i + 1]
    OBVIOUS
  <2> DEFINE j == i + 1
  <2>1. j \in 1..n /\ j - 1 = i /\ i \in 0..n /\ j = i + 1
    BY <1>0
  <2> HIDE DEF j
  <2>2. R[i] + A[i] = i /\ R[i] - A[i] = K[i]
    BY <1>0, <1>2, <2>1
  <2>3. R[i] \in Nat /\ A[i] \in Nat /\ K[i] \in Int
    <3> HIDE DEF n
    <3>1. R \in [0..n -> Nat] /\ A \in [0..n -> Nat] /\ K \in [0..n -> Int]
      BY DEF Walks, Counted, n
    <3> QED BY <2>1, <3>1
  <2>4. /\ R[j] = IF e[j].ins THEN R[i] ELSE R[i] + 1
        /\ A[j] = IF e[j].ins THEN A[i] + 1 ELSE A[i]
        /\ K[j] = IF e[j].ins THEN K[i] - 1 ELSE K[i] + 1
    <3>1. /\ R[j] = IF e[j].ins THEN R[j - 1] ELSE R[j - 1] + 1
          /\ A[j] = IF e[j].ins THEN A[j - 1] + 1 ELSE A[j - 1]
          /\ K[j] = IF e[j].ins THEN K[j - 1] - 1 ELSE K[j - 1] + 1
      BY <2>1 DEF Walks, Counted
    <3> QED BY ONLY <2>1, <3>1
  <2>5. CASE e[j].ins
    <3>1. R[j] = R[i] /\ A[j] = A[i] + 1 /\ K[j] = K[i] - 1
      BY ONLY <2>4, <2>5
    <3>2. R[i] + (A[i] + 1) = i + 1 /\ R[i] - (A[i] + 1) = K[i] - 1
      BY ONLY <2>2, <2>3, i \in Nat
    <3> QED BY <2>1, <3>1, <3>2
  <2>6. CASE ~e[j].ins
    <3>1. R[j] = R[i] + 1 /\ A[j] = A[i] /\ K[j] = K[i] + 1
      BY ONLY <2>4, <2>6
    <3>2. (R[i] + 1) + A[i] = i + 1 /\ (R[i] + 1) - A[i] = K[i] + 1
      BY ONLY <2>2, <2>3, i \in Nat
    <3> QED BY <2>1, <3>1, <3>2
  <2> QED BY <2>5, <2>6
<1>3. \A i \in Nat : i \in S
  <2> HIDE DEF S
  <2> QED BY <1>1, <1>2, NaturalInduction
<1>4. n \in S /\ n <= n
  <2> HIDE DEF S, n
  <2> QED BY <1>0, <1>3
<1>5. K[n] = last
  BY DEF Walks
<1> QED BY <1>4, <1>5

-----------------------------------------------------------------------------
(* SumOf adds its numbers up.                                              *)
LEMMA SumOfIs ==
  ASSUME NEW n \in Nat, NEW f \in [1..n -> Int]
  PROVE  \E S : Sums(S, f, n) /\ SumOf(f) = S[n]
<1>1. SumOf(f) = Total(f)
  BY DEF SumOf, Total
<1>2. \E S : Sums(S, f, n) /\ Total(f) = S[n]
  BY TotalIs
<1> QED BY <1>1, <1>2

(* Any running sums end in it.                                             *)
LEMMA SumOfUnique ==
  ASSUME NEW n \in Nat, NEW f \in [1..n -> Int], NEW S, Sums(S, f, n)
  PROVE  SumOf(f) = S[n]
<1>1. PICK T : Sums(T, f, n) /\ SumOf(f) = T[n]
  BY SumOfIs
<1>2. S[n] = T[n]
  BY <1>1, SumsUnique
<1> QED BY <1>1, <1>2

(* Of no numbers it is 0.                                                  *)
LEMMA SumOfNothing ==
  ASSUME NEW f \in [1..0 -> Int]
  PROVE  SumOf(f) = 0
<1> DEFINE o == 0
<1>1. o \in Nat /\ f \in [1..o -> Int]
  OBVIOUS
<1> HIDE DEF o
<1>2. PICK S : Sums(S, f, o) /\ SumOf(f) = S[o]
  BY <1>1, SumOfIs
<1> QED BY <1>2 DEF Sums, o

(* One number more.                                                        *)
LEMMA SumOfLonger ==
  ASSUME NEW n \in Nat, NEW f \in [1..n -> Int], NEW g \in [1..(n + 1) -> Int],
         \A i \in 1..n : g[i] = f[i]
  PROVE  SumOf(g) = SumOf(f) + g[n + 1] /\ SumOf(f) \in Int
<1>1. PICK S : Sums(S, f, n) /\ SumOf(f) = S[n]
  BY SumOfIs
<1> DEFINE T == [i \in 0..(n + 1) |-> IF i <= n THEN S[i] ELSE S[n] + g[n + 1]]
<1>2. S[n] \in Int /\ g[n + 1] \in Int /\ S \in [0..n -> Int] /\ S[0] = 0 /\ \A i \in 1..n : S[i] = S[i - 1] + f[i]
  BY <1>1 DEF Sums
<1>3. T \in [0..(n + 1) -> Int]
  <2>1. ASSUME NEW i \in 0..(n + 1), i <= n PROVE S[i] \in Int
    BY <1>2, <2>1
  <2> QED BY <1>2, <2>1
<1>4. T[0] = 0 /\ T[n + 1] = S[n] + g[n + 1]
  BY <1>2
<1>5. ASSUME NEW i \in 1..(n + 1) PROVE T[i] = T[i - 1] + g[i]
  <2>1. i \in 0..(n + 1) /\ i - 1 \in 0..(n + 1) /\ i - 1 <= n
    OBVIOUS
  <2>2. T[i - 1] = S[i - 1]
    BY <2>1
  <2>3. CASE i <= n
    <3>1. i \in 1..n /\ T[i] = S[i]
      BY <2>1, <2>3
    <3> HIDE DEF T
    <3> QED BY <1>2, <2>2, <3>1
  <2>4. CASE i = n + 1
    <3>1. i - 1 = n /\ T[i] = S[n] + g[i]
      BY <2>1, <2>4
    <3> HIDE DEF T
    <3> QED BY <2>2, <3>1
  <2> QED BY <2>3, <2>4
<1> HIDE DEF T
<1>6. Sums(T, g, n + 1)
  <2>1. (n + 1) \in Nat
    OBVIOUS
  <2> QED BY <1>3, <1>4, <1>5 DEF Sums
<1>7. SumOf(g) = T[n + 1]
  <2> DEFINE l == n + 1
  <2>1. l \in Nat /\ g \in [1..l -> Int] /\ Sums(T, g, l)
    BY <1>6
  <2> HIDE DEF l
  <2>2. SumOf(g) = T[l]
    BY <2>1, SumOfUnique
  <2> QED BY <2>2 DEF l
<1> QED BY <1>1, <1>2, <1>4, <1>7

(* A sum changes by what its last term changes.                            *)
LEMMA SumOfLastChanged ==
  ASSUME NEW n \in Nat, n > 0, NEW f \in [1..n -> Int], NEW g \in [1..n -> Int],
         \A i \in 1..(n - 1) : g[i] = f[i]
  PROVE  SumOf(g) - SumOf(f) = g[n] - f[n] /\ SumOf(f) \in Int /\ SumOf(g) \in Int
<1> DEFINE l == n - 1
           r == [i \in 1..l |-> f[i]]
<1>1. l \in Nat /\ l + 1 = n /\ r \in [1..l -> Int]
  OBVIOUS
<1>2. \A i \in 1..l : f[i] = r[i] /\ g[i] = r[i]
  OBVIOUS
<1> HIDE DEF l, r
<1>3. SumOf(f) = SumOf(r) + f[l + 1] /\ SumOf(r) \in Int
  BY <1>1, <1>2, SumOfLonger
<1>4. SumOf(g) = SumOf(r) + g[l + 1]
  BY <1>1, <1>2, SumOfLonger
<1>5. f[n] \in Int /\ g[n] \in Int
  OBVIOUS
<1> QED BY <1>1, <1>3, <1>4, <1>5

Hunk == [start : Int, removed : Nat, added : Nat]

Removals(hunks) == [i \in DOMAIN hunks |-> hunks[i].removed]
Additions(hunks) == [i \in DOMAIN hunks |-> hunks[i].added]

AddUpTo(hunks, removed, added) ==
  hunks \in Seq(Hunk) /\ SumOf(Removals(hunks)) = removed /\ SumOf(Additions(hunks)) = added

(* The counts of hunks are sequences of numbers.                           *)
LEMMA FieldsOf ==
  ASSUME NEW hunks \in Seq(Hunk)
  PROVE  /\ Removals(hunks) \in [1..Len(hunks) -> Int]
         /\ Additions(hunks) \in [1..Len(hunks) -> Int]
         /\ \A i \in 1..Len(hunks) : /\ Removals(hunks)[i] = hunks[i].removed
                                     /\ Additions(hunks)[i] = hunks[i].added
<1>1. DOMAIN hunks = 1..Len(hunks)
  OBVIOUS
<1>2. \A i \in 1..Len(hunks) : hunks[i] \in Hunk
  OBVIOUS
<1>3. \A i \in 1..Len(hunks) : hunks[i].removed \in Int /\ hunks[i].added \in Int
  BY <1>2 DEF Hunk
<1> QED BY ONLY <1>1, <1>3 DEF Removals, Additions

(* An edit adds one to one of the sums, in the last hunk or in a new one.  *)
LEMMA JoinAdds ==
  ASSUME NEW hunks \in Seq(Hunk), NEW removed \in Nat, NEW added \in Nat, AddUpTo(hunks, removed, added),
         NEW e \in Edit, NEW lastBase, NEW prefix \in Nat
  PROVE  AddUpTo(JoinEdit(hunks, e, lastBase, prefix),
                 IF e.ins THEN removed ELSE removed + 1, IF e.ins THEN added + 1 ELSE added)
<1> DEFINE n == Len(hunks)
           J == JoinEdit(hunks, e, lastBase, prefix)
<1>1. n \in Nat /\ e.ins \in BOOLEAN /\ e.at \in Nat
  BY DEF Edit
<1>2. CASE hunks # <<>> /\ e.at <= lastBase + 1
  <2> DEFINE o == hunks[n]
             r == IF e.ins THEN [o EXCEPT !.added = o.added + 1] ELSE [o EXCEPT !.removed = o.removed + 1]
             H == [hunks EXCEPT ![n] = r]
  <2>1. n > 0 /\ n \in 1..n
    BY <1>1, <1>2
  <2>2. J = H
    BY <1>2 DEF JoinEdit
  <2>3. o \in Hunk
    BY <2>1
  <2>4. /\ r \in Hunk
        /\ r.removed = IF e.ins THEN o.removed ELSE o.removed + 1
        /\ r.added = IF e.ins THEN o.added + 1 ELSE o.added
    <3> HIDE DEF o
    <3> QED BY <2>3 DEF Hunk
  <2> HIDE DEF r, o
  <2>5. H \in Seq(Hunk) /\ Len(H) = n /\ H[n] = r /\ \A i \in 1..(n - 1) : H[i] = hunks[i]
    BY <2>1, <2>4
  <2> HIDE DEF H
  <2> DEFINE f == Removals(hunks)
             g == Removals(H)
             p == Additions(hunks)
             q == Additions(H)
  <2>6. /\ f \in [1..n -> Int] /\ p \in [1..n -> Int]
        /\ \A i \in 1..n : f[i] = hunks[i].removed /\ p[i] = hunks[i].added
    BY FieldsOf
  <2>7. /\ g \in [1..n -> Int] /\ q \in [1..n -> Int]
        /\ \A i \in 1..n : g[i] = H[i].removed /\ q[i] = H[i].added
    <3>1. /\ Removals(H) \in [1..Len(H) -> Int]
          /\ Additions(H) \in [1..Len(H) -> Int]
          /\ \A i \in 1..Len(H) : Removals(H)[i] = H[i].removed /\ Additions(H)[i] = H[i].added
      BY <2>5, FieldsOf
    <3> QED BY <2>5, <3>1
  <2> HIDE DEF f, g, p, q, n
  <2>8. \A i \in 1..(n - 1) : g[i] = f[i] /\ q[i] = p[i]
    <3> SUFFICES ASSUME NEW i \in 1..(n - 1) PROVE g[i] = f[i] /\ q[i] = p[i]
      OBVIOUS
    <3>1. i \in 1..n
      BY <1>1
    <3> QED BY <2>5, <2>6, <2>7, <3>1
  <2>9. /\ g[n] = IF e.ins THEN f[n] ELSE f[n] + 1
        /\ q[n] = IF e.ins THEN p[n] + 1 ELSE p[n]
    BY <2>1, <2>4, <2>5, <2>6, <2>7 DEF o
  <2>10. SumOf(g) - SumOf(f) = g[n] - f[n] /\ SumOf(f) \in Int /\ SumOf(g) \in Int
    BY <1>1, <2>1, <2>6, <2>7, <2>8, SumOfLastChanged
  <2>11. SumOf(q) - SumOf(p) = q[n] - p[n] /\ SumOf(p) \in Int /\ SumOf(q) \in Int
    BY <1>1, <2>1, <2>6, <2>7, <2>8, SumOfLastChanged
  <2>12. SumOf(f) = removed /\ SumOf(p) = added
    BY DEF AddUpTo, f, p
  <2>13. f[n] \in Int /\ p[n] \in Int
    BY <2>1, <2>6
  <2>14. CASE e.ins
    <3>1. g[n] = f[n] /\ q[n] = p[n] + 1
      BY <2>9, <2>14
    <3>2. SumOf(g) = removed
      BY <2>10, <2>12, <2>13, <3>1
    <3>3. SumOf(q) = added + 1
      BY <2>11, <2>12, <2>13, <3>1
    <3> QED BY <2>2, <2>5, <2>14, <3>2, <3>3 DEF AddUpTo, g, q
  <2>15. CASE ~e.ins
    <3>1. g[n] = f[n] + 1 /\ q[n] = p[n]
      BY <2>9, <2>15
    <3>2. SumOf(g) = removed + 1
      BY <2>10, <2>12, <2>13, <3>1
    <3>3. SumOf(q) = added
      BY <2>11, <2>12, <2>13, <3>1
    <3> QED BY <2>2, <2>5, <2>15, <3>2, <3>3 DEF AddUpTo, g, q
  <2> QED BY <2>14, <2>15
<1>3. CASE ~(hunks # <<>> /\ e.at <= lastBase + 1)
  <2> DEFINE r == [start |-> prefix + e.at + 1,
                   removed |-> IF e.ins THEN 0 ELSE 1, added |-> IF e.ins THEN 1 ELSE 0]
             H == Append(hunks, r)
  <2>1. J = H
    BY <1>3 DEF JoinEdit
  <2>2. r \in Hunk /\ r.removed = (IF e.ins THEN 0 ELSE 1) /\ r.added = (IF e.ins THEN 1 ELSE 0)
    BY <1>1 DEF Hunk
  <2> HIDE DEF r
  <2>3. H \in Seq(Hunk) /\ Len(H) = n + 1 /\ H[n + 1] = r /\ \A i \in 1..n : H[i] = hunks[i]
    BY <2>2
  <2> HIDE DEF H
  <2> DEFINE f == Removals(hunks)
             g == Removals(H)
             p == Additions(hunks)
             q == Additions(H)
  <2>4. /\ f \in [1..n -> Int] /\ p \in [1..n -> Int]
        /\ \A i \in 1..n : f[i] = hunks[i].removed /\ p[i] = hunks[i].added
    BY FieldsOf
  <2>5. /\ g \in [1..(n + 1) -> Int] /\ q \in [1..(n + 1) -> Int]
        /\ \A i \in 1..(n + 1) : g[i] = H[i].removed /\ q[i] = H[i].added
    <3>1. /\ Removals(H) \in [1..Len(H) -> Int]
          /\ Additions(H) \in [1..Len(H) -> Int]
          /\ \A i \in 1..Len(H) : Removals(H)[i] = H[i].removed /\ Additions(H)[i] = H[i].added
      BY <2>3, FieldsOf
    <3> QED BY <2>3, <3>1
  <2> HIDE DEF f, g, p, q, n
  <2>6. n + 1 \in 1..(n + 1) /\ \A i \in 1..n : i \in 1..(n + 1)
    BY <1>1
  <2>7. \A i \in 1..n : g[i] = f[i] /\ q[i] = p[i]
    BY <2>3, <2>4, <2>5, <2>6
  <2>8. SumOf(g) = SumOf(f) + g[n + 1] /\ SumOf(f) \in Int
    BY <1>1, <2>4, <2>5, <2>7, SumOfLonger
  <2>9. SumOf(q) = SumOf(p) + q[n + 1] /\ SumOf(p) \in Int
    BY <1>1, <2>4, <2>5, <2>7, SumOfLonger
  <2>10. SumOf(f) = removed /\ SumOf(p) = added
    BY DEF AddUpTo, f, p
  <2>11. g[n + 1] = (IF e.ins THEN 0 ELSE 1) /\ q[n + 1] = (IF e.ins THEN 1 ELSE 0)
    BY <2>2, <2>3, <2>5, <2>6
  <2>12. CASE e.ins
    <3>1. SumOf(g) = removed
      BY <2>8, <2>10, <2>11, <2>12
    <3>2. SumOf(q) = added + 1
      BY <2>9, <2>10, <2>11, <2>12
    <3> QED BY <2>1, <2>3, <2>12, <3>1, <3>2 DEF AddUpTo, g, q
  <2>13. CASE ~e.ins
    <3>1. SumOf(g) = removed + 1
      BY <2>8, <2>10, <2>11, <2>13
    <3>2. SumOf(q) = added
      BY <2>9, <2>10, <2>11, <2>13
    <3> QED BY <2>1, <2>3, <2>13, <3>1, <3>2 DEF AddUpTo, g, q
  <2> QED BY <2>12, <2>13
<1> QED BY <1>2, <1>3

(* The hunks account for every edit once.                                  *)
LEMMA HunksAddUp ==
  ASSUME NEW e \in Seq(Edit), NEW prefix \in Nat, NEW R, NEW A, Counted(e, R, A)
  PROVE  AddUpTo(Hunks(e, prefix), R[Len(e)], A[Len(e)])
<1> DEFINE n == Len(e)
           Joined(h, i) == JoinEdit(h, e[i], IF i = 1 THEN -2 ELSE e[i - 1].at, prefix)
           Def(l, h) == [i \in 0..l |-> IF i = 0 THEN <<>> ELSE Joined(h[i - 1], i)]
           E == {l \in Nat : \E h : h = Def(l, h)}
           Body(h) ==
             [i \in 0..Len(e) |->
                IF i = 0 THEN <<>>
                ELSE JoinEdit(h[i - 1], e[i], IF i = 1 THEN -2 ELSE e[i - 1].at, prefix)]
           t == CHOOSE h : h = Body(h)
<1>1. n \in Nat
  OBVIOUS
<1>2. 0 \in E
  <2> DEFINE h == [i \in 0..0 |-> <<>>]
  <2>1. h = Def(0, h)
    <3>1. \A i \in 0..0 : i = 0
      OBVIOUS
    <3> HIDE DEF Joined
    <3> QED BY <3>1
  <2> HIDE DEF h, Def
  <2> QED BY <2>1
<1>3. ASSUME NEW l \in Nat, l \in E PROVE l + 1 \in E
  <2>1. PICK h : h = Def(l, h)
    BY <1>3
  <2> DEFINE g == [i \in 0..(l + 1) |-> IF i <= l THEN h[i] ELSE Joined(h[l], l + 1)]
  <2>2. ASSUME NEW i \in 0..(l + 1) PROVE g[i] = IF i = 0 THEN <<>> ELSE Joined(g[i - 1], i)
    <3> HIDE DEF Joined
    <3>1. i # 0 => g[i - 1] = h[i - 1]
      <4> SUFFICES ASSUME i # 0 PROVE g[i - 1] = h[i - 1]
        OBVIOUS
      <4>1. i - 1 \in 0..(l + 1) /\ i - 1 <= l
        OBVIOUS
      <4> QED BY <4>1
    <3>2. CASE i <= l
      <4>1. i \in 0..l /\ g[i] = h[i]
        BY <3>2
      <4>2. h[i] = IF i = 0 THEN <<>> ELSE Joined(h[i - 1], i)
        BY <2>1, <4>1
      <4> HIDE DEF g, Def
      <4> QED BY <3>1, <4>1, <4>2
    <3>3. CASE i = l + 1
      <4>1. i # 0 /\ i - 1 = l /\ g[i] = Joined(h[l], l + 1)
        BY <3>3
      <4> HIDE DEF g, Def
      <4> QED BY <3>1, <3>3, <4>1
    <3> QED BY <3>2, <3>3
  <2>3. g = Def(l + 1, g)
    <3> HIDE DEF Joined
    <3> DEFINE d == Def(l + 1, g)
    <3>1. \A i \in 0..(l + 1) : g[i] = d[i]
      BY <2>2
    <3>2. g = [i \in 0..(l + 1) |-> g[i]] /\ d = [i \in 0..(l + 1) |-> d[i]]
      OBVIOUS
    <3> HIDE DEF g, d
    <3>3. g = d
      BY <3>1, <3>2
    <3> QED BY <3>3 DEF d
  <2> HIDE DEF g, Def
  <2> QED BY <2>3
<1>4. n \in E
  <2>1. \A l \in Nat : l \in E
    <3> HIDE DEF E
    <3> QED BY <1>2, <1>3, NaturalInduction
  <2> HIDE DEF E
  <2> QED BY <1>1, <2>1
<1>5. t = Def(n, t)
  <2>1. \E h : h = Def(n, h)
    <3> HIDE DEF Def
    <3> QED BY <1>4
  <2>2. \A h : Body(h) = Def(n, h)
    OBVIOUS
  <2>3. \E h : h = Body(h)
    <3> HIDE DEF Body, Def
    <3> QED BY <2>1, <2>2
  <2>4. t = Body(t)
    <3> HIDE DEF Body
    <3> QED BY <2>3
  <2> HIDE DEF t, Body, Def
  <2> QED BY <2>2, <2>4
<1>6. Hunks(e, prefix) = t[n]
  BY DEF Hunks
<1> HIDE DEF t
<1>7. ASSUME NEW i \in 0..n PROVE t[i] = IF i = 0 THEN <<>> ELSE Joined(t[i - 1], i)
  <2> HIDE DEF Joined, n
  <2> QED BY <1>5
<1>8. R \in [0..n -> Nat] /\ A \in [0..n -> Nat] /\ R[0] = 0 /\ A[0] = 0
  BY DEF Counted
<1> DEFINE S == {i \in Nat : i <= n => AddUpTo(t[i], R[i], A[i])}
<1>9. 0 \in S
  <2>1. t[0] = <<>>
    <3>1. 0 \in 0..n
      BY <1>1
    <3> HIDE DEF Joined
    <3> QED BY <1>7, <3>1
  <2>2. <<>> \in Seq(Hunk) /\ Removals(<<>>) \in [1..0 -> Int] /\ Additions(<<>>) \in [1..0 -> Int]
    BY DEF Removals, Additions
  <2>3. SumOf(Removals(<<>>)) = 0 /\ SumOf(Additions(<<>>)) = 0
    BY <2>2, SumOfNothing
  <2> QED BY <1>8, <2>1, <2>2, <2>3 DEF AddUpTo
<1>10. ASSUME NEW i \in Nat, i \in S PROVE i + 1 \in S
  <2> SUFFICES ASSUME i + 1 <= n PROVE AddUpTo(t[i + 1], R[i + 1], A[i + 1])
    OBVIOUS
  <2> DEFINE j == i + 1
             lastBase == IF j = 1 THEN -2 ELSE e[j - 1].at
  <2>1. j \in 1..n /\ j \in 0..n /\ j # 0 /\ j - 1 = i /\ i \in 0..n
    BY <1>1
  <2>2. e[j] \in Edit
    BY <2>1
  <2> HIDE DEF j
  <2>3. AddUpTo(t[i], R[i], A[i]) /\ R[i] \in Nat /\ A[i] \in Nat
    BY <1>1, <1>8, <1>10, <2>1
  <2>4. t[j] = JoinEdit(t[i], e[j], lastBase, prefix)
    BY <1>7, <2>1
  <2> HIDE DEF lastBase
  <2>5. AddUpTo(JoinEdit(t[i], e[j], lastBase, prefix),
                IF e[j].ins THEN R[i] ELSE R[i] + 1, IF e[j].ins THEN A[i] + 1 ELSE A[i])
    <3>1. t[i] \in Seq(Hunk)
      BY <2>3 DEF AddUpTo
    <3> QED BY <2>2, <2>3, <3>1, JoinAdds
  <2>6. R[j] = (IF e[j].ins THEN R[i] ELSE R[i] + 1) /\ A[j] = (IF e[j].ins THEN A[i] + 1 ELSE A[i])
    <3>1. R[j] = (IF e[j].ins THEN R[j - 1] ELSE R[j - 1] + 1)
          /\ A[j] = (IF e[j].ins THEN A[j - 1] + 1 ELSE A[j - 1])
      BY <2>1 DEF Counted
    <3> QED BY ONLY <2>1, <3>1
  <2>7. AddUpTo(t[j], R[j], A[j])
    BY <2>4, <2>5, <2>6
  <2> QED BY <2>7 DEF j
<1>11. n \in S /\ n <= n
  <2>1. \A i \in Nat : i \in S
    <3> HIDE DEF S
    <3> QED BY <1>9, <1>10, NaturalInduction
  <2> HIDE DEF S, n
  <2> QED BY <1>1, <2>1
<1>12. AddUpTo(t[n], R[n], A[n])
  BY <1>11
<1> QED BY <1>6, <1>12

-----------------------------------------------------------------------------
(***************************************************************************)
(* The script: the first row that reaches the ends is that of the          *)
(* distance, and every way to leave EditScript gives its counts.           *)
(***************************************************************************)

Hits(a, b, cap) == {d \in 0..cap : Reaches(a, b, Furthest(a, b, cap)[d])}
Least(S) == CHOOSE d \in S : \A e \in S : d <= e
Distance(a, b) == Len(a) + Len(b) - 2 * LongestCommon(a, b)

(* The first row to reach the ends is that of the distance.                *)
LEMMA LeastHitIs ==
  ASSUME NEW L, NEW a \in Seq(L), NEW b \in Seq(L), NEW cap \in Nat
  PROVE  /\ Distance(a, b) \in Nat
         /\ Hits(a, b, cap) = {} => Distance(a, b) > cap
         /\ Hits(a, b, cap) # {} => /\ Least(Hits(a, b, cap)) = Distance(a, b)
                                    /\ Distance(a, b) <= cap
                                    /\ Len(a) - Len(b) \in Diagonals(Distance(a, b))
<1> DEFINE m == Len(a)
           n == Len(b)
           f == Furthest(a, b, cap)
           d0 == Distance(a, b)
           H == Hits(a, b, cap)
<1>1. m \in Nat /\ n \in Nat
  OBVIOUS
<1>2. PICK D : IsDistance(D, a, b) /\ D[<<m, n>>] = d0
  BY <1>1, DistanceIs DEF Distance
<1>3. d0 \in Nat
  BY <1>1, <1>2 DEF IsDistance
<1> HIDE DEF d0
<1>4. \A d \in 0..cap : RowIsFurthest(D, f[d], d) /\ DOMAIN f[d] = Diagonals(d)
  BY <1>2, RowsAreFurthest
<1> HIDE DEF f
<1>5. m - n \in Diagonals(d0)
  <2> DEFINE k == m - n
  <2>1. m - n <= d0 /\ n - m <= d0 /\ \E h \in Int : m + n - d0 = 2 * h
    <3>1. m - n <= D[<<m, n>>] /\ n - m <= D[<<m, n>>] /\ \E h \in Int : m + n - D[<<m, n>>] = 2 * h
      BY <1>1, <1>2 DEF IsDistance
    <3> HIDE DEF m, n
    <3> QED BY ONLY <1>2, <3>1
  <2>2. PICK h \in Int : m + n - d0 = 2 * h
    BY <2>1
  <2> HIDE DEF m, n
  <2>3. k \in Int /\ -d0 <= k /\ k <= d0
    BY <1>1, <1>3, <2>1
  <2>4. k + d0 = 2 * (h + d0 - n) /\ h + d0 - n \in Int
    BY <1>1, <1>3, <2>2
  <2>5. \E i \in Int : k + d0 = 2 * i
    BY <2>4
  <2> HIDE DEF k
  <2>6. k \in Diagonals(d0)
    BY <1>3, <2>3, <2>5, DiagonalsAre
  <2> QED BY <2>6 DEF k
<1>6. ASSUME NEW d \in H PROVE d0 <= d /\ d \in 0..cap
  <2>1. d \in 0..cap /\ Reaches(a, b, f[d])
    BY DEF Hits, f
  <2>2. PICK k \in DOMAIN f[d] : f[d][k] >= m /\ f[d][k] - k >= n
    BY <2>1 DEF Reaches
  <2> DEFINE x == f[d][k]
             y == x - k
  <2>3. k \in Diagonals(d) /\ k \in Int
    BY <1>4, <2>1, <2>2 DEF Diagonals
  <2>4. x \in Nat /\ y \in Nat /\ D[<<x, y>>] <= d
    BY <1>4, <2>1, <2>3 DEF RowIsFurthest, IsFurthest
  <2>5. x >= m /\ y >= n
    BY <2>2
  <2> HIDE DEF x, y
  <2>6. D[<<x, y>>] = D[<<m, n>>] + (x - m) + (y - n)
    BY <2>4, <2>5, <1>2 DEF IsDistance
  <2> HIDE DEF m, n
  <2> DEFINE v == D[<<x, y>>]
  <2>7. v = d0 + (x - m) + (y - n) /\ v <= d
    BY ONLY <1>2, <2>4, <2>6
  <2> HIDE DEF v
  <2> QED BY <1>1, <1>3, <2>1, <2>4, <2>5, <2>7
<1>7. d0 <= cap => d0 \in H
  <2> SUFFICES ASSUME d0 <= cap PROVE d0 \in H
    OBVIOUS
  <2> DEFINE k == m - n
             x == f[d0][k]
  <2>1. d0 \in 0..cap
    BY <1>3
  <2>2. IsFurthest(D, k, d0, x) /\ k \in DOMAIN f[d0]
    BY <1>4, <1>5, <2>1 DEF RowIsFurthest
  <2> HIDE DEF x
  <2>3. x \in Nat /\ \A z \in Nat : z > x /\ z - k \in Nat => D[<<z, z - k>>] > d0
    BY <2>2 DEF IsFurthest
  <2> HIDE DEF m, n
  <2>4. m - k = n /\ k \in Int
    BY <1>1
  <2> HIDE DEF k
  <2>5. x >= m
    <3> SUFFICES ASSUME m > x PROVE FALSE
      BY <1>1, <2>3
    <3>1. D[<<m, m - k>>] > d0
      BY <1>1, <2>3, <2>4
    <3> QED BY <1>2, <1>3, <2>4, <3>1
  <2>6. x >= m /\ x - k >= n
    BY <1>1, <2>3, <2>4, <2>5
  <2>7. Reaches(a, b, f[d0])
    BY <2>2, <2>6 DEF Reaches, x, m, n
  <2> QED BY <2>1, <2>7 DEF Hits, f
<1>8. H = {} => d0 > cap
  BY <1>3, <1>7
<1>9. H # {} => Least(H) = d0 /\ d0 <= cap
  <2> SUFFICES ASSUME H # {} PROVE Least(H) = d0 /\ d0 <= cap
    OBVIOUS
  <2>1. PICK d : d \in H
    OBVIOUS
  <2>2. d0 <= cap
    <3>1. d0 <= d /\ d \in 0..cap
      BY <1>6, <2>1
    <3> QED BY <1>3, <3>1
  <2>3. d0 \in H /\ (\A e \in H : d0 <= e) /\ \A e \in H : e \in 0..cap
    BY <1>6, <1>7, <2>2
  <2> HIDE DEF H
  <2>4. Least(H) \in H /\ \A e \in H : Least(H) <= e
    BY <2>3 DEF Least
  <2>5. Least(H) <= d0 /\ d0 <= Least(H) /\ Least(H) \in Nat
    BY <2>3, <2>4
  <2> QED BY <1>3, <2>2, <2>5
<1> QED BY <1>3, <1>5, <1>8, <1>9 DEF d0

(* Walking back from there takes out what is not common and puts in what   *)
(* is not.                                                                 *)
LEMMA EditsAreMinimal ==
  ASSUME NEW L, NEW a \in Seq(L), NEW b \in Seq(L), NEW cap \in Nat, NEW prefix \in Nat, Hits(a, b, cap) # {}
  PROVE  LET c == LongestCommon(a, b)
             e == Edits(a, b, Furthest(a, b, cap), Least(Hits(a, b, cap)))
         IN  /\ AddUpTo(Hunks(e, prefix), Len(a) - c, Len(b) - c)
             /\ Cardinality({i \in DOMAIN e : ~e[i].ins}) = Len(a) - c
             /\ Cardinality({i \in DOMAIN e : e[i].ins}) = Len(b) - c
<1> DEFINE m == Len(a)
           n == Len(b)
           f == Furthest(a, b, cap)
           d0 == Distance(a, b)
           e == Edits(a, b, f, Least(Hits(a, b, cap)))
           c == LongestCommon(a, b)
<1>1. m \in Nat /\ n \in Nat
  OBVIOUS
<1>2. d0 \in Nat /\ d0 <= cap /\ m - n \in Diagonals(d0) /\ Least(Hits(a, b, cap)) = d0
  BY LeastHitIs
<1>3. c \in Nat
  BY <1>1, CommonIs
<1>4. PICK D : IsDistance(D, a, b)
  BY <1>1, DistanceIs
<1>5. \A d \in 0..d0 : \A k \in Diagonals(d) : f[d][k] \in Nat
  <2> SUFFICES ASSUME NEW d \in 0..d0, NEW k \in Diagonals(d) PROVE f[d][k] \in Nat
    OBVIOUS
  <2>1. d \in 0..cap
    <3> HIDE DEF d0
    <3> QED BY <1>2
  <2>2. RowIsFurthest(D, f[d], d)
    BY <1>4, <2>1, RowsAreFurthest
  <2> QED BY <2>2 DEF RowIsFurthest, IsFurthest
<1>6. Len(e) = d0 /\ \E K : Walks(e, K, m - n)
  <2>1. Len(Edits(a, b, f, d0)) = d0 /\ \E K : Walks(Edits(a, b, f, d0), K, m - n)
    <3> HIDE DEF f, d0
    <3> QED BY <1>1, <1>2, <1>5, EditsWalk
  <2> QED BY ONLY <1>2, <2>1
<1> HIDE DEF e
<1>7. PICK K : Walks(e, K, m - n)
  BY <1>6
<1>8. e \in Seq(Edit)
  BY <1>7 DEF Walks
<1>9. PICK R, A : Counted(e, R, A)
  BY <1>8, EditsCounted
<1> DEFINE r == R[Len(e)]
           s == A[Len(e)]
<1>10. r + s = d0 /\ r - s = m - n
  <2>1. R[Len(e)] + A[Len(e)] = Len(e) /\ R[Len(e)] - A[Len(e)] = m - n
    <3>1. m - n \in Int
      BY <1>1
    <3> HIDE DEF m, n
    <3> QED BY <1>7, <1>9, <3>1, WalkCounts
  <2> HIDE DEF m, n, d0
  <2> QED BY ONLY <1>6, <2>1
<1>11. /\ r \in Nat /\ s \in Nat
       /\ r = Cardinality({i \in DOMAIN e : ~e[i].ins})
       /\ s = Cardinality({i \in DOMAIN e : e[i].ins})
  <2>1. Len(e) \in 0..Len(e)
    BY <1>8
  <2> QED BY <1>9, <2>1 DEF Counted
<1>12. AddUpTo(Hunks(e, prefix), r, s)
  BY <1>8, <1>9, HunksAddUp
<1> HIDE DEF r, s
<1>13. r = m - c /\ s = n - c
  <2>1. d0 = m + n - 2 * c
    BY DEF Distance
  <2>2. r \in Nat /\ s \in Nat
    BY <1>11
  <2> HIDE DEF d0, m, n, c
  <2>3. m \in Nat /\ n \in Nat /\ c \in Nat
    BY <1>1, <1>3
  <2> QED BY ONLY <1>10, <2>1, <2>2, <2>3
<1>14. /\ AddUpTo(Hunks(e, prefix), m - c, n - c)
       /\ Cardinality({i \in DOMAIN e : ~e[i].ins}) = m - c
       /\ Cardinality({i \in DOMAIN e : e[i].ins}) = n - c
  BY ONLY <1>11, <1>12, <1>13
<1> QED BY <1>14 DEF e

(* What DiffIsMinimal says of a script.                                    *)
IsMinimal(made, a, b, cap) ==
  LET common == LongestCommon(a, b)
  IN  /\ made.truncated => (Len(a) - common) + (Len(b) - common) > cap
      /\ ~made.truncated => made.removed = Len(a) - common /\ made.added = Len(b) - common
      /\ SumOf(Removals(made.hunks)) = made.removed
      /\ SumOf(Additions(made.hunks)) = made.added

CountsAre(made, removed, added, truncated) ==
  /\ made.removed = removed /\ made.added = added /\ made.truncated = truncated
  /\ SumOf(Removals(made.hunks)) = removed
  /\ SumOf(Additions(made.hunks)) = added

(* One hunk, or none, carries the counts of the script.                    *)
LEMMA WholeAddsUp ==
  ASSUME NEW start \in Nat, NEW removed \in Nat, NEW added \in Nat, NEW truncated \in BOOLEAN
  PROVE  CountsAre(Whole(start, removed, added, truncated), removed, added, truncated)
<1> DEFINE made == Whole(start, removed, added, truncated)
           h == made.hunks
           o == [start |-> start, removed |-> removed, added |-> added]
<1>1. /\ made.removed = removed /\ made.added = added /\ made.truncated = truncated
      /\ h = IF removed = 0 /\ added = 0 THEN <<>> ELSE <<o>>
  BY DEF Whole
<1>2. SumOf(Removals(<<>>)) = 0 /\ SumOf(Additions(<<>>)) = 0
  <2>1. Removals(<<>>) \in [1..0 -> Int] /\ Additions(<<>>) \in [1..0 -> Int]
    BY DEF Removals, Additions
  <2> QED BY <2>1, SumOfNothing
<1> HIDE DEF made
<1>3. CASE removed = 0 /\ added = 0
  <2>1. h = <<>>
    BY <1>1, <1>3
  <2> HIDE DEF h
  <2>2. SumOf(Removals(h)) = removed /\ SumOf(Additions(h)) = added
    BY <1>2, <1>3, <2>1
  <2> QED BY <1>1, <2>2 DEF CountsAre, made, h
<1>4. CASE ~(removed = 0 /\ added = 0)
  <2> DEFINE w == <<o>>
             f == Removals(<<>>)
             p == Additions(<<>>)
             g == Removals(w)
             q == Additions(w)
  <2>1. h = w
    BY <1>1, <1>4
  <2>2. w \in Seq(Hunk) /\ Len(w) = 1 /\ w[1].removed = removed /\ w[1].added = added
    <3>1. o \in Hunk /\ o.removed = removed /\ o.added = added
      BY DEF Hunk
    <3> HIDE DEF o
    <3> QED BY <3>1
  <2> HIDE DEF w
  <2>3. g \in [1..1 -> Int] /\ q \in [1..1 -> Int] /\ g[1] = removed /\ q[1] = added
    <3>1. /\ Removals(w) \in [1..Len(w) -> Int]
          /\ Additions(w) \in [1..Len(w) -> Int]
          /\ \A i \in 1..Len(w) : Removals(w)[i] = w[i].removed /\ Additions(w)[i] = w[i].added
      BY <2>2, FieldsOf
    <3> QED BY <2>2, <3>1
  <2>4. f \in [1..0 -> Int] /\ p \in [1..0 -> Int]
    BY DEF Removals, Additions
  <2> HIDE DEF f, g, p, q
  <2> DEFINE zero == 0
  <2>5. zero \in Nat /\ zero + 1 = 1 /\ 1..zero = 1..0
    OBVIOUS
  <2>6. \A i \in 1..zero : FALSE
    OBVIOUS
  <2> HIDE DEF zero
  <2>7. /\ f \in [1..zero -> Int] /\ p \in [1..zero -> Int]
        /\ g \in [1..(zero + 1) -> Int] /\ q \in [1..(zero + 1) -> Int]
    BY ONLY <2>3, <2>4, <2>5
  <2>8. SumOf(g) = SumOf(f) + g[zero + 1]
    BY <2>5, <2>6, <2>7, SumOfLonger
  <2>9. SumOf(q) = SumOf(p) + q[zero + 1]
    BY <2>5, <2>6, <2>7, SumOfLonger
  <2>10. SumOf(g) = 0 + g[1] /\ SumOf(q) = 0 + q[1]
    BY ONLY <1>2, <2>5, <2>8, <2>9 DEF f, p
  <2>11. SumOf(g) = removed /\ SumOf(q) = added
    BY <2>3, <2>10
  <2> QED BY <1>1, <2>1, <2>11 DEF CountsAre, g, q, made
<1> QED BY <1>3, <1>4

(* The script of the files: what is between the common ends is compared,   *)
(* and is not empty on either side unless it is all added or all removed.  *)
LEMMA EditScriptIs ==
  ASSUME NEW L, NEW a \in Seq(L), NEW b \in Seq(L), NEW maxD \in Nat
  PROVE  IsMinimal(EditScript(a, b, maxD), a, b, maxD)
<1> DEFINE m == Len(a)
           n == Len(b)
           p == CommonPrefix(a, b)
           s == CommonSuffix(a, b, p)
           u == SubSeq(a, p + 1, m - s)
           v == SubSeq(b, p + 1, n - s)
           cap == Lesser(maxD, Len(u) + Len(v))
           f == Furthest(u, v, cap)
           H == Hits(u, v, cap)
           e == Edits(u, v, f, Least(H))
           c == LongestCommon(a, b)
           w == LongestCommon(u, v)
           made == EditScript(a, b, maxD)
<1>1. m \in Nat /\ n \in Nat
  OBVIOUS
<1>2. p \in Nat /\ p <= m /\ p <= n /\ \A i \in 1..p : a[i] = b[i]
  BY <1>1, CommonPrefixIs
<1> HIDE DEF p
<1>3. /\ s \in Nat /\ p + s <= m /\ p + s <= n
      /\ \A i \in 0..(s - 1) : a[m - i] = b[n - i]
  BY <1>1, <1>2, CommonSuffixIs
<1> HIDE DEF s
<1>4. c = p + s + w
  <2>1. EndsAlike(a, b, p, s)
    BY <1>2, <1>3 DEF EndsAlike
  <2>2. EndsCount(a, b, p, s)
    <3> HIDE DEF m, n, u, v, cap, f, H, e, c, w, made
    <3>1. p \in Nat /\ s \in Nat
      BY <1>2, <1>3
    <3> QED BY <2>1, <3>1, TrimKeeps
  <2> QED BY <2>2 DEF EndsCount
<1>5. u \in Seq(L) /\ v \in Seq(L) /\ Len(u) = m - p - s /\ Len(v) = n - p - s
  BY <1>1, <1>2, <1>3
<1>6. Len(u) \in Nat /\ Len(v) \in Nat
  BY <1>5
<1>7. w \in Nat /\ w <= Len(u) /\ w <= Len(v)
  <2> HIDE DEF u, v
  <2> QED BY <1>6, CommonIs
<1>8. m - c = Len(u) - w /\ n - c = Len(v) - w
  <2> HIDE DEF m, n, u, v, c, w
  <2> QED BY ONLY <1>1, <1>2, <1>3, <1>4, <1>5, <1>7
<1>9. cap \in Nat
  <2> HIDE DEF u, v
  <2> QED BY <1>6 DEF Lesser
<1>10. made =
         IF u = <<>> THEN Whole(p, 0, Len(v), FALSE)
         ELSE IF v = <<>> THEN Whole(p + 1, Len(u), 0, FALSE)
         ELSE IF H = {} THEN Whole(p + 1, Len(u), Len(v), TRUE)
         ELSE [hunks |-> Hunks(e, p), truncated |-> FALSE,
               removed |-> Cardinality({i \in DOMAIN e : ~e[i].ins}),
               added |-> Cardinality({i \in DOMAIN e : e[i].ins})]
  BY DEF EditScript, p, s, Hits, Least
<1> HIDE DEF u, v, f, H, e, c, w, made, cap, m, n
<1>11. CASE u = <<>>
  <2>1. Len(u) = 0 /\ made = Whole(p, 0, Len(v), FALSE)
    BY <1>10, <1>11
  <2>2. /\ made.removed = 0 /\ made.added = Len(v) /\ ~made.truncated
        /\ SumOf(Removals(made.hunks)) = 0 /\ SumOf(Additions(made.hunks)) = Len(v)
    <3>1. CountsAre(made, 0, Len(v), FALSE)
      <4>1. p \in Nat /\ 0 \in Nat /\ FALSE \in BOOLEAN /\ TRUE \in BOOLEAN
        BY <1>2
      <4>2. CountsAre(Whole(p, 0, Len(v), FALSE), 0, Len(v), FALSE)
        BY <1>6, <4>1, WholeAddsUp
      <4> QED BY <2>1, <4>2
    <3> QED BY <3>1 DEF CountsAre
  <2>3. m - c = 0 /\ n - c = Len(v)
    BY <1>6, <1>7, <1>8, <2>1
  <2> QED BY <2>2, <2>3 DEF IsMinimal, made, c, m, n
<1>12. CASE u # <<>> /\ v = <<>>
  <2>1. Len(v) = 0 /\ made = Whole(p + 1, Len(u), 0, FALSE)
    BY <1>10, <1>12
  <2>2. /\ made.removed = Len(u) /\ made.added = 0 /\ ~made.truncated
        /\ SumOf(Removals(made.hunks)) = Len(u) /\ SumOf(Additions(made.hunks)) = 0
    <3>1. CountsAre(made, Len(u), 0, FALSE)
      <4>1. p + 1 \in Nat /\ 0 \in Nat /\ FALSE \in BOOLEAN /\ TRUE \in BOOLEAN
        BY <1>2
      <4>2. CountsAre(Whole(p + 1, Len(u), 0, FALSE), Len(u), 0, FALSE)
        BY <1>6, <4>1, WholeAddsUp
      <4> QED BY <2>1, <4>2
    <3> QED BY <3>1 DEF CountsAre
  <2>3. m - c = Len(u) /\ n - c = 0
    BY <1>6, <1>7, <1>8, <2>1
  <2> QED BY <2>2, <2>3 DEF IsMinimal, made, c, m, n
<1>13. CASE u # <<>> /\ v # <<>> /\ H = {}
  <2>1. made = Whole(p + 1, Len(u), Len(v), TRUE)
    BY <1>10, <1>13
  <2>2. /\ made.removed = Len(u) /\ made.added = Len(v) /\ made.truncated
        /\ SumOf(Removals(made.hunks)) = Len(u) /\ SumOf(Additions(made.hunks)) = Len(v)
    <3>1. CountsAre(made, Len(u), Len(v), TRUE)
      <4>1. p + 1 \in Nat /\ 0 \in Nat /\ FALSE \in BOOLEAN /\ TRUE \in BOOLEAN
        BY <1>2
      <4>2. CountsAre(Whole(p + 1, Len(u), Len(v), TRUE), Len(u), Len(v), TRUE)
        BY <1>6, <4>1, WholeAddsUp
      <4> QED BY <2>1, <4>2
    <3> QED BY <3>1 DEF CountsAre
  <2>3. Distance(u, v) > cap
    BY <1>5, <1>9, <1>13, LeastHitIs DEF H
  <2>4. Distance(u, v) = Len(u) + Len(v) - 2 * w
    BY DEF Distance, w
  <2>5. cap = IF maxD < Len(u) + Len(v) THEN maxD ELSE Len(u) + Len(v)
    BY DEF cap, Lesser
  <2>6. (m - c) + (n - c) > maxD
    BY <1>6, <1>7, <1>8, <2>3, <2>4, <2>5
  <2> QED BY <2>2, <2>6 DEF IsMinimal, made, c, m, n
<1>14. CASE u # <<>> /\ v # <<>> /\ H # {}
  <2>1. /\ made.hunks = Hunks(e, p) /\ ~made.truncated
        /\ made.removed = Cardinality({i \in DOMAIN e : ~e[i].ins})
        /\ made.added = Cardinality({i \in DOMAIN e : e[i].ins})
    BY <1>10, <1>14
  <2>2. /\ AddUpTo(Hunks(e, p), Len(u) - w, Len(v) - w)
        /\ Cardinality({i \in DOMAIN e : ~e[i].ins}) = Len(u) - w
        /\ Cardinality({i \in DOMAIN e : e[i].ins}) = Len(v) - w
    BY <1>2, <1>5, <1>9, <1>14, EditsAreMinimal DEF H, e, f, w
  <2>3. /\ made.removed = m - c /\ made.added = n - c
        /\ SumOf(Removals(made.hunks)) = m - c /\ SumOf(Additions(made.hunks)) = n - c
    BY ONLY <1>8, <2>1, <2>2 DEF AddUpTo
  <2> QED BY <2>1, <2>3 DEF IsMinimal, made, c, m, n
<1> QED BY <1>11, <1>12, <1>13, <1>14 DEF made

(* A file's script is made once, from the two files and the cap.           *)
ScriptIsMade ==
  /\ base \in DiffFiles /\ returned \in DiffFiles /\ editCap \in EditCaps
  /\ script = NoScript \/ script = EditScript(base, returned, editCap)

(* Nothing else ever becomes of it.                                        *)
LEMMA ScriptStaysMade == DiffSpec => []ScriptIsMade
<1>1. DiffInit => ScriptIsMade
  BY DEF DiffInit, ScriptIsMade
<1>2. ScriptIsMade /\ [DiffReturnedFile]_diffVars => ScriptIsMade'
  <2> SUFFICES ASSUME ScriptIsMade, [DiffReturnedFile]_diffVars PROVE ScriptIsMade'
    OBVIOUS
  <2>1. CASE DiffReturnedFile
    BY <2>1 DEF DiffReturnedFile, ScriptIsMade
  <2>2. CASE UNCHANGED diffVars
    BY <2>2 DEF diffVars, ScriptIsMade
  <2> QED BY <2>1, <2>2
<1> QED BY <1>1, <1>2, PTL DEF DiffSpec

(* Of files of any length and any cap: a script that is given whole has    *)
(* the counts of a smallest one, one called truncated is of a change       *)
(* larger than the cap, and the hunks add up to the counts                 *)
(* (diffReturnedFile).                                                     *)
THEOREM ScriptsAreMinimal == DiffSpec => []DiffIsMinimal
<1>1. ScriptIsMade => DiffIsMinimal
  <2> SUFFICES ASSUME ScriptIsMade, script # NoScript PROVE DiffIsMinimal
    BY DEF DiffIsMinimal
  <2>1. base \in Seq(Lines) /\ returned \in Seq(Lines)
    <3>1. \A file \in DiffFiles : \E k \in Nat : file \in [1..k -> Lines]
      BY DiffAssumption DEF DiffFiles
    <3> QED BY <3>1 DEF ScriptIsMade
  <2>2. editCap \in Nat
    BY DiffAssumption DEF ScriptIsMade
  <2>3. script = EditScript(base, returned, editCap)
    BY DEF ScriptIsMade
  <2>4. IsMinimal(script, base, returned, editCap)
    BY <2>1, <2>2, <2>3, EditScriptIs
  <2>5. DiffIsMinimal <=> IsMinimal(script, base, returned, editCap)
    BY ONLY script # NoScript DEF DiffIsMinimal, IsMinimal, Removals, Additions
  <2> QED BY <2>4, <2>5
<1> QED BY <1>1, ScriptStaysMade, PTL

-----------------------------------------------------------------------------
(***************************************************************************)
(* The policy sweep: the documents recalled under a policy are those laid  *)
(* at the places that answer, and which places do is the same under every  *)
(* policy.                                                                 *)
(***************************************************************************)
(* As many documents as the budget takes with the needle's among them.     *)
RoomFor(swept) ==
  IF swept.room <= swept.documents
  THEN IF swept.room = 0 THEN 0 ELSE swept.room - 1
  ELSE swept.documents

(* With the needle among them there is room for the same number wherever *)
(* it ranks.                                                             *)
LEMMA MembersAre ==
  ASSUME NEW swept \in [documents : Nat \ {0}, lines : Nat, room : Nat],
         NEW rank \in 1..swept.documents
  PROVE  /\ MembersUpTo(swept, rank) \in Nat
         /\ rank <= MembersUpTo(swept, rank) => MembersUpTo(swept, rank) = RoomFor(swept)
         /\ rank <= RoomFor(swept) => MembersUpTo(swept, rank) = RoomFor(swept)
<1> DEFINE D == swept.documents
           R == swept.room
           fits == {k \in 0..D : k + (IF rank <= k THEN 1 ELSE 0) <= R}
           n == MembersUpTo(swept, rank)
           N == RoomFor(swept)
<1>1. D \in Nat /\ D > 0 /\ R \in Nat /\ rank \in 1..D
  OBVIOUS
<1>2. N = (IF R <= D THEN IF R = 0 THEN 0 ELSE R - 1 ELSE D)
  BY DEF RoomFor
<1>3. n = CHOOSE k \in fits : \A j \in fits : j <= k
  BY DEF MembersUpTo
<1> HIDE DEF n, N, D, R
<1>4. \E k \in fits : \A j \in fits : j <= k
  <2>1. 0 \in fits
    BY <1>1
  <2> DEFINE S == {l \in Nat : l <= D => \E k \in fits : \A j \in fits : j <= l => j <= k}
  <2>2. 0 \in S
    BY <1>1, <2>1
  <2>3. ASSUME NEW l \in Nat, l \in S PROVE l + 1 \in S
    <3> SUFFICES ASSUME l + 1 <= D PROVE \E k \in fits : \A j \in fits : j <= l + 1 => j <= k
      OBVIOUS
    <3>1. PICK k \in fits : \A j \in fits : j <= l => j <= k
      BY <1>1, <2>3
    <3>2. CASE l + 1 \in fits
      BY <1>1, <3>2
    <3>3. CASE l + 1 \notin fits
      <4>1. \A j \in fits : j <= l + 1 => j <= l
        BY <1>1, <3>3
      <4> QED BY <3>1, <4>1
    <3> QED BY <3>2, <3>3
  <2>4. D \in S
    <3> HIDE DEF S
    <3>1. \A l \in Nat : l \in S
      BY <2>2, <2>3, NaturalInduction
    <3> QED BY <1>1, <3>1
  <2> QED BY <1>1, <2>4
<1>5. n \in fits /\ \A j \in fits : j <= n
  <2> HIDE DEF fits
  <2> QED BY <1>3, <1>4
<1>6. n \in Nat
  BY <1>1, <1>5
<1>7. rank <= n => n = N
  <2> SUFFICES ASSUME rank <= n PROVE n = N
    OBVIOUS
  <2>1. n + 1 <= R /\ n <= D
    BY <1>1, <1>5
  <2>2. n <= N /\ rank <= N
    BY <1>1, <1>2, <1>6, <2>1
  <2>3. N \in fits
    BY <1>1, <1>2, <2>1, <2>2
  <2> QED BY <1>2, <1>5, <1>6, <2>2, <2>3
<1>8. rank <= N => n = N
  <2> SUFFICES ASSUME rank <= N PROVE n = N
    OBVIOUS
  <2>1. N \in fits
    BY <1>1, <1>2
  <2>2. N <= n /\ N \in Nat
    BY <1>1, <1>2, <1>5, <2>1
  <2> QED BY <1>1, <1>6, <1>7, <2>2
<1> QED BY <1>6, <1>7, <1>8 DEF n, N

-----------------------------------------------------------------------------
(***************************************************************************)
(* The places of the layout at which a responder answers, of the documents *)
(* the budget takes: the same under every policy.                          *)
(***************************************************************************)
Block(swept) == swept.lines + 5
NeedleAt(swept, p) == 4 + (p - 1) * Block(swept) + swept.lines \div 2
AnswersAt(behaviour, swept, p) ==
  Answers(behaviour, NeedleAt(swept, p), RoomFor(swept) * Block(swept) + 3,
          TokensPerLine * RoomFor(swept) * Block(swept), FALSE)
Places(behaviour, swept) == {p \in 1..RoomFor(swept) : AnswersAt(behaviour, swept, p)}
Laid(swept, policy) == ApplyPolicy([r \in 1..RoomFor(swept) |-> r], policy)
Reach(behaviour, swept, policy) ==
  {r \in 1..swept.documents : ComparePolicies(behaviour, swept, r, policy)}

(* The layout is the ranks 1..n in another order.                          *)
LEMMA LaidIs ==
  ASSUME NEW n \in Nat, NEW policy \in Policies
  PROVE  LET t == ApplyPolicy([r \in 1..n |-> r], policy)
         IN  /\ \A p \in 1..n : t[p] \in 1..n
             /\ \A p, q \in 1..n : t[p] = t[q] => p = q
             /\ \A r \in 1..n : \E p \in 1..n : t[p] = r
<1> DEFINE s == [r \in 1..n |-> r]
           t == ApplyPolicy(s, policy)
<1>1. s \in Seq(Nat) /\ Len(s) = n /\ Range(s) = 1..n /\ IsInjective(s)
  BY DEF Range, IsInjective
<1> HIDE DEF s
<1>2. Len(t) = n /\ Range(t) = 1..n /\ IsInjective(t)
  BY <1>1, PolicyRearranges
<1>3. t \in Seq(Nat)
  <2>1. CASE policy = "as_ranked"
    BY <1>1, <2>1 DEF ApplyPolicy
  <2>2. CASE policy = "tail_loaded"
    BY <1>1, <2>2, ReverseIs DEF ApplyPolicy
  <2>3. CASE policy = "edge_loaded"
    BY <1>1, <2>3, EdgeLoadedIs DEF ApplyPolicy
  <2> QED BY <2>1, <2>2, <2>3 DEF Policies
<1>4. DOMAIN t = 1..n
  BY <1>2, <1>3
<1> HIDE DEF t
<1>5. /\ \A p \in 1..n : t[p] \in 1..n
      /\ \A p, q \in 1..n : t[p] = t[q] => p = q
      /\ \A r \in 1..n : \E p \in 1..n : t[p] = r
  BY <1>2, <1>4 DEF Range, IsInjective
<1> QED BY <1>5 DEF s, t

(* A rank is recalled when it is laid at one of those places.              *)
LEMMA ReachIs ==
  ASSUME NEW swept \in [documents : Nat \ {0}, lines : Nat, room : Nat], NEW behaviour,
         NEW policy \in Policies
  PROVE  Reach(behaviour, swept, policy) = {Laid(swept, policy)[p] : p \in Places(behaviour, swept)}
<1> DEFINE N == RoomFor(swept)
           t == Laid(swept, policy)
           P == Places(behaviour, swept)
           D == swept.documents
<1>1. N \in Nat /\ N <= D /\ D \in Nat
  BY DEF RoomFor
<1>2. \A p \in 1..N : t[p] \in 1..N
  BY <1>1, LaidIs DEF Laid
<1>3. ASSUME NEW r \in 1..D PROVE ComparePolicies(behaviour, swept, r, policy) <=> \E p \in P : t[p] = r
  <2> DEFINE n == MembersUpTo(swept, r)
             At(k) == \E p \in 1..k : /\ ApplyPolicy([i \in 1..k |-> i], policy)[p] = r
                                      /\ Answers(behaviour, NeedleAt(swept, p), k * Block(swept) + 3,
                                                 TokensPerLine * k * Block(swept), FALSE)
  <2>1. n \in Nat /\ (r <= n => n = N) /\ (r <= N => n = N)
    BY MembersAre
  <2>2. ComparePolicies(behaviour, swept, r, policy) <=> At(n)
    BY DEF ComparePolicies, NeedleAt, Block
  <2>3. At(N) <=> \E p \in P : t[p] = r
    BY DEF Places, AnswersAt, Laid
  <2>4. CASE r <= N
    <3>1. n = N
      BY <2>1, <2>4
    <3> HIDE DEF At, n
    <3> QED BY <2>2, <2>3, <3>1
  <2>5. CASE ~(r <= N)
    <3>1. ~(r <= n)
      BY <1>1, <2>1, <2>5
    <3>2. ~At(n)
      <4>1. \A p \in 1..n : ApplyPolicy([i \in 1..n |-> i], policy)[p] \in 1..n
        <5> HIDE DEF n
        <5> QED BY <2>1, LaidIs
      <4>2. r \notin 1..n
        <5> HIDE DEF n
        <5> QED BY <2>1, <3>1
      <4> HIDE DEF n
      <4> QED BY ONLY <4>1, <4>2
    <3>3. ~\E p \in P : t[p] = r
      BY <1>1, <1>2, <2>5 DEF Places
    <3> HIDE DEF At
    <3> QED BY <2>2, <3>2, <3>3
  <2> QED BY <2>4, <2>5
<1>4. \A p \in P : t[p] \in 1..D
  BY <1>1, <1>2 DEF Places
<1> HIDE DEF P, t, D
<1>5. {r \in 1..D : ComparePolicies(behaviour, swept, r, policy)} = {t[p] : p \in P}
  BY <1>3, <1>4
<1> QED BY <1>5 DEF Reach, P, t, D

Corpus == [documents : Nat \ {0}, lines : Nat, room : Nat]

(* There is a number of places.                                          *)
LEMMA RoomIs ==
  ASSUME NEW swept \in Corpus
  PROVE  RoomFor(swept) \in Nat /\ RoomFor(swept) <= swept.documents
BY DEF RoomFor, Corpus

(* Every policy recalls as many ranks as there are such places.            *)
LEMMA ReachCount ==
  ASSUME NEW swept \in Corpus, NEW behaviour, NEW policy \in Policies
  PROVE  /\ IsFiniteSet(Reach(behaviour, swept, policy))
         /\ Cardinality(Reach(behaviour, swept, policy)) = Cardinality(Places(behaviour, swept))
<1> DEFINE N == RoomFor(swept)
           P == Places(behaviour, swept)
           t == Laid(swept, policy)
           R == Reach(behaviour, swept, policy)
           f == [p \in P |-> t[p]]
<1>1. N \in Nat
  BY RoomIs
<1>2. P \subseteq 1..N /\ IsFiniteSet(P)
  <2>1. P \subseteq 1..N
    BY DEF Places
  <2>2. 1 \in Int /\ N \in Int
    BY <1>1
  <2>3. IsFiniteSet(1..N)
    BY <2>2, FS_Interval
  <2> HIDE DEF P
  <2> QED BY <2>1, <2>3, FS_Subset
<1>3. R = {t[p] : p \in P}
  BY ReachIs DEF Corpus
<1>4. \A p, q \in 1..N : t[p] = t[q] => p = q
  BY <1>1, LaidIs DEF Laid
<1> HIDE DEF P, R, t, N
<1>5. f \in Bijection(P, R)
  <2>1. f \in [P -> R] /\ \A r \in R : \E p \in P : f[p] = r
    BY <1>3
  <2>2. \A p, q \in P : f[p] = f[q] => p = q
    BY <1>2, <1>4
  <2>3. f \in Injection(P, R)
    BY <2>1, <2>2 DEF Injection, IsInjective
  <2>4. f \in Surjection(P, R)
    BY <2>1 DEF Surjection
  <2> QED BY <2>3, <2>4 DEF Bijection
<1>6. ExistsBijection(P, R)
  BY <1>5 DEF ExistsBijection
<1> QED BY <1>2, <1>6, FS_Bijection DEF P, R

-----------------------------------------------------------------------------
(***************************************************************************)
(* A responder blind in the middle answers near the head and near the      *)
(* tail; of two places as far from either, the one near the head is never  *)
(* the worse by more than a document.                                      *)
(***************************************************************************)
NearHead(swept, p) == 100 * NeedleAt(swept, p) <= 15 * (RoomFor(swept) * Block(swept) + 3)
NearTail(swept, p) == 100 * NeedleAt(swept, p) >= 85 * (RoomFor(swept) * Block(swept) + 3)

EndsAnswer(swept) ==
  LET n == RoomFor(swept)
  IN  /\ \A p \in 1..n : p \in Places("mid_blind", swept) <=> NearHead(swept, p) \/ NearTail(swept, p)
      /\ \A p, q \in 1..n : q <= p /\ NearHead(swept, p) => NearHead(swept, q)
      /\ \A p, q \in 1..n : p <= q /\ NearTail(swept, p) => NearTail(swept, q)
      /\ \A k \in 1..(n - 1) : NearHead(swept, k + 1) => NearTail(swept, n - k + 1)
      /\ n > 0 /\ NearTail(swept, n) => NearHead(swept, 1)

(* A blind middle answers at the ends, and at the first place when it    *)
(* answers at the last.                                                  *)
LEMMA EndsOfACorpus ==
  ASSUME NEW swept \in Corpus
  PROVE  EndsAnswer(swept)
<1> DEFINE n == RoomFor(swept)
           b == Block(swept)
           half == swept.lines \div 2
           Mul(p) == p * b
<1>1. n \in Nat
  BY RoomIs
<1>2. b \in Nat /\ half \in Nat /\ b >= 2 * half + 5 /\ b >= 5
  BY DEF Block, Corpus
<1>3. \A p \in Int : NeedleAt(swept, p) = 4 + (p - 1) * b + half
  BY DEF NeedleAt
<1> HIDE DEF b, half, n
<1>4. /\ \A p \in Int : Mul(p) \in Int
      /\ \A p, q \in Int : Mul(p - q) = Mul(p) - Mul(q)
      /\ Mul(1) = b
  BY <1>2
<1>5. ASSUME NEW p \in Int, NEW q \in Int, q <= p PROVE Mul(q) <= Mul(p)
  <2> DEFINE r == p - q
  <2>1. r \in Nat
    BY <1>5
  <2> HIDE DEF r
  <2>2. r * b \in Nat
    BY <1>2, <2>1
  <2>3. Mul(p) - Mul(q) = r * b
    BY <1>4 DEF r
  <2>4. Mul(p) \in Int /\ Mul(q) \in Int
    BY <1>4
  <2> HIDE DEF Mul
  <2> QED BY <2>2, <2>3, <2>4
<1> HIDE DEF Mul
<1>6. ASSUME NEW p \in Int
      PROVE  /\ NeedleAt(swept, p) = 4 + (Mul(p) - b) + half
             /\ NearHead(swept, p) <=> 100 * (4 + (Mul(p) - b) + half) <= 15 * (Mul(n) + 3)
             /\ NearTail(swept, p) <=> 100 * (4 + (Mul(p) - b) + half) >= 85 * (Mul(n) + 3)
  <2>1. p - 1 \in Int /\ 1 \in Int
    OBVIOUS
  <2>2. Mul(p - 1) = Mul(p) - b
    BY <1>4, <2>1
  <2>3. NeedleAt(swept, p) = 4 + (Mul(p) - b) + half
    BY <1>3, <2>2 DEF Mul
  <2>4. RoomFor(swept) * Block(swept) = Mul(n)
    BY DEF Mul, n, b
  <2> QED BY <2>3, <2>4 DEF NearHead, NearTail
<1>7. ASSUME NEW p \in 1..n
      PROVE  p \in Places("mid_blind", swept) <=> NearHead(swept, p) \/ NearTail(swept, p)
  BY DEF Places, AnswersAt, Answers, NearHead, NearTail, n
<1>8. ASSUME NEW p \in 1..n, NEW q \in 1..n, q <= p
      PROVE  (NearHead(swept, p) => NearHead(swept, q)) /\ (NearTail(swept, q) => NearTail(swept, p))
  <2>1. p \in Int /\ q \in Int
    OBVIOUS
  <2>2. Mul(q) <= Mul(p) /\ Mul(p) \in Int /\ Mul(q) \in Int /\ Mul(n) \in Int
    <3>1. Mul(q) <= Mul(p)
      BY <1>5, <1>8, <2>1
    <3>2. n \in Int
      BY <1>1
    <3>3. Mul(p) \in Int /\ Mul(q) \in Int /\ Mul(n) \in Int
      BY <1>4, <2>1, <3>2
    <3> QED BY <3>1, <3>3
  <2> QED BY <1>2, <1>6, <2>1, <2>2
<1>9. ASSUME NEW k \in 1..(n - 1), NearHead(swept, k + 1) PROVE NearTail(swept, n - k + 1)
  <2>1. k \in Int /\ k + 1 \in Int /\ n - k + 1 \in Int /\ n \in Int /\ k + 1 = k - (-1) /\ n - k + 1 = n - (k - 1)
        /\ -1 \in Int /\ k - 1 \in Int /\ 1 \in Int
    BY <1>1
  <2>2. Mul(k - 1) = Mul(k) - b /\ Mul(n - (k - 1)) = Mul(n) - Mul(k - 1)
    BY <1>4, <2>1
  <2>3. Mul(k + 1) = Mul(k) + b
    <3>1. (k + 1) - 1 = k
      BY <2>1
    <3>2. Mul((k + 1) - 1) = Mul(k + 1) - b
      BY <1>4, <2>1
    <3>3. Mul(k + 1) \in Int /\ Mul(k) \in Int
      BY <1>4, <2>1
    <3> QED BY <1>2, <3>1, <3>2, <3>3
  <2>4. Mul(n - k + 1) = Mul(n) - (Mul(k) - b)
    BY <2>1, <2>2
  <2>5. Mul(k) \in Int /\ Mul(n) \in Int
    BY <1>4, <2>1
  <2>6. 100 * (4 + (Mul(k) + b - b) + half) <= 15 * (Mul(n) + 3)
    <3>1. k + 1 \in Int
      BY <2>1
    <3>2. 100 * (4 + (Mul(k + 1) - b) + half) <= 15 * (Mul(n) + 3)
      BY <1>6, <1>9, <3>1
    <3> DEFINE next1 == Mul(k + 1)
    <3>3. next1 = Mul(k) + b /\ 100 * (4 + (next1 - b) + half) <= 15 * (Mul(n) + 3)
      BY <2>3, <3>2
    <3> HIDE DEF next1
    <3> QED BY <1>2, <2>5, <3>3
  <2>7. 100 * (4 + ((Mul(n) - (Mul(k) - b)) - b) + half) >= 85 * (Mul(n) + 3)
    BY <1>2, <2>5, <2>6
  <2> QED BY <1>6, <2>1, <2>4, <2>7
<1>10. ASSUME n > 0, NearTail(swept, n) PROVE NearHead(swept, 1)
  <2>1. n \in Int /\ 1 \in Int
    BY <1>1
  <2>2. Mul(1) = b /\ Mul(n) \in Int
    BY <1>4, <2>1
  <2>3. 100 * (4 + (Mul(n) - b) + half) >= 85 * (Mul(n) + 3)
    BY <1>6, <1>10, <2>1
  <2>4. 100 * (4 + (b - b) + half) <= 15 * (Mul(n) + 3)
    BY <1>2, <2>2, <2>3
  <2> QED BY <1>6, <2>1, <2>2, <2>4
<1> QED BY <1>7, <1>8, <1>9, <1>10 DEF EndsAnswer, n

(* As ranked, the ranks recalled are the places that answer.             *)
LEMMA RankedReach ==
  ASSUME NEW swept \in Corpus, NEW behaviour
  PROVE  Reach(behaviour, swept, "as_ranked") = Places(behaviour, swept)
<1> DEFINE N == RoomFor(swept)
<1>1. N \in Nat /\ "as_ranked" \in Policies
  BY RoomIs DEF Policies
<1>2. Reach(behaviour, swept, "as_ranked") = {Laid(swept, "as_ranked")[p] : p \in Places(behaviour, swept)}
  BY <1>1, ReachIs DEF Corpus
<1>3. \A p \in 1..N : Laid(swept, "as_ranked")[p] = p
  BY DEF Laid, ApplyPolicy
<1>4. Places(behaviour, swept) \subseteq 1..N
  BY DEF Places
<1> QED BY <1>2, <1>3, <1>4

(* The odd ranks are laid from the head, the even ones from the tail.      *)
LEMMA EdgeReach ==
  ASSUME NEW swept \in Corpus, NEW behaviour, NEW k \in Nat, k >= 1
  PROVE  /\ 2 * k - 1 <= RoomFor(swept) /\ k \in Places(behaviour, swept) =>
              2 * k - 1 \in Reach(behaviour, swept, "edge_loaded")
         /\ 2 * k <= RoomFor(swept) /\ RoomFor(swept) - k + 1 \in Places(behaviour, swept) =>
              2 * k \in Reach(behaviour, swept, "edge_loaded")
<1> DEFINE N == RoomFor(swept)
           s == [r \in 1..N |-> r]
           t == Laid(swept, "edge_loaded")
<1>1. N \in Nat /\ "edge_loaded" \in Policies
  BY RoomIs DEF Policies
<1>2. Reach(behaviour, swept, "edge_loaded") = {t[p] : p \in Places(behaviour, swept)}
  BY <1>1, ReachIs DEF Corpus
<1>3. \A p \in 1..N : t[p] = EdgePlace(N, p)
  <2>1. s \in Seq(Nat) /\ Len(s) = N
    BY <1>1
  <2> DEFINE laid == EveryOther(s, 1) \o Reverse(EveryOther(s, 2))
  <2>2. t = laid
    BY DEF Laid, ApplyPolicy
  <2>3. \A p \in 1..N : EdgePlace(N, p) \in 1..N
    BY <1>1 DEF EdgePlace
  <2>4. \A r \in 1..N : s[r] = r
    OBVIOUS
  <2>5. \A p \in 1..N : laid[p] = s[EdgePlace(N, p)]
    <3> HIDE DEF s, N
    <3>1. \A p \in 1..Len(s) : laid[p] = s[EdgePlace(Len(s), p)]
      BY <2>1, EdgeLoadedPlaces
    <3> QED BY <2>1, <3>1
  <2> HIDE DEF s, t, laid, N
  <2> QED BY <2>2, <2>3, <2>4, <2>5
<1>4. Places(behaviour, swept) \subseteq 1..N
  BY DEF Places
<1> HIDE DEF t, N
<1>5. ASSUME 2 * k - 1 <= N, k \in Places(behaviour, swept)
      PROVE  2 * k - 1 \in Reach(behaviour, swept, "edge_loaded")
  <2>1. t[k] = 2 * k - 1
    BY <1>3, <1>4, <1>5 DEF EdgePlace
  <2> QED BY <1>2, <1>5, <2>1
<1>6. ASSUME 2 * k <= N, N - k + 1 \in Places(behaviour, swept)
      PROVE  2 * k \in Reach(behaviour, swept, "edge_loaded")
  <2> DEFINE p == N - k + 1
  <2>1. p \in 1..N /\ ~(2 * p - 1 <= N) /\ 2 * (N - p + 1) = 2 * k
    BY <1>1, <1>6
  <2>2. t[p] = 2 * k
    BY <1>3, <2>1 DEF EdgePlace
  <2> QED BY <1>2, <1>6, <2>2
<1> QED BY <1>5, <1>6 DEF N

(* While the places up to a rank answer, and one at it or beyond it does,  *)
(* the edge-loaded layout has that rank at a place that answers.           *)
LEMMA EdgeGoesOn ==
  ASSUME NEW swept \in Corpus, NEW r \in 1..RoomFor(swept),
         1..(r - 1) \subseteq Places("mid_blind", swept),
         NEW q \in Places("mid_blind", swept), r <= q
  PROVE  r \in Reach("mid_blind", swept, "edge_loaded")
<1> DEFINE N == RoomFor(swept)
           P == Places("mid_blind", swept)
           H(p) == NearHead(swept, p)
           T(p) == NearTail(swept, p)
<1>1. N \in Nat
  BY RoomIs
<1>2. /\ \A p \in 1..N : p \in P <=> H(p) \/ T(p)
      /\ \A p, i \in 1..N : i <= p /\ H(p) => H(i)
      /\ \A p, i \in 1..N : p <= i /\ T(p) => T(i)
      /\ \A k \in 1..(N - 1) : H(k + 1) => T(N - k + 1)
      /\ N > 0 /\ T(N) => H(1)
  BY EndsOfACorpus DEF EndsAnswer
<1>3. P \subseteq 1..N
  BY DEF Places
<1>4. /\ \A k \in Nat : k >= 1 /\ 2 * k - 1 <= N /\ k \in P => 2 * k - 1 \in Reach("mid_blind", swept, "edge_loaded")
      /\ \A k \in Nat : k >= 1 /\ 2 * k <= N /\ N - k + 1 \in P => 2 * k \in Reach("mid_blind", swept, "edge_loaded")
  BY EdgeReach
<1> HIDE DEF N, P, H, T
<1>5. q \in 1..N /\ r \in 1..N /\ q \in P /\ 1..(r - 1) \subseteq P /\ r <= q
  BY <1>3 DEF P, N
<1>6. PICK k \in Int : r = 2 * k - 1 \/ r = 2 * k
  <2>1. (r + 1) \div 2 \in Int /\ (r = 2 * ((r + 1) \div 2) - 1 \/ r = 2 * ((r + 1) \div 2))
    BY <1>5
  <2> QED BY <2>1
<1>7. k \in Nat /\ k >= 1
  BY <1>5, <1>6
<1>8. CASE r = 2 * k - 1
  <2>1. CASE k = 1
    <3>1. 1 \in 1..N /\ N \in 1..N /\ 1 <= q /\ q <= N /\ N > 0
      BY <1>1, <1>5
    <3>2. H(q) \/ T(q)
      BY <1>2, <1>5
    <3>3. H(1)
      <4>1. CASE H(q)
        BY <1>2, <1>5, <3>1, <4>1
      <4>2. CASE T(q)
        <5>1. T(N)
          BY <1>2, <1>5, <3>1, <4>2
        <5> QED BY <1>2, <3>1, <5>1
      <4> QED BY <3>2, <4>1, <4>2
    <3>4. k \in P
      BY <1>2, <2>1, <3>1, <3>3
    <3>5. 2 * k - 1 <= N
      BY <1>5, <1>8
    <3> QED BY <1>4, <1>7, <1>8, <3>4, <3>5
  <2>2. CASE k # 1
    <3>1. k \in 1..(r - 1) /\ 2 * k - 1 <= N
      BY <1>5, <1>7, <1>8, <2>2
    <3>2. k \in P
      BY <1>5, <3>1
    <3> QED BY <1>4, <1>7, <1>8, <3>1, <3>2
  <2> QED BY <2>1, <2>2
<1>9. CASE r = 2 * k
  <2> DEFINE p == N - k + 1
  <2>1. /\ p \in 1..N /\ k \in 1..(N - 1) /\ k + 1 \in 1..N /\ k + 1 <= p /\ 2 * k <= N
        /\ k + 1 <= q /\ (k = 1 => p = N) /\ (k # 1 => k + 1 \in 1..(r - 1))
    BY <1>1, <1>5, <1>7, <1>9
  <2>2. H(k + 1) => T(p)
    BY <1>2, <2>1
  <2> HIDE DEF p
  <2>3. T(p)
    <3>1. CASE H(q)
      <4>1. H(k + 1)
        BY <1>2, <1>5, <2>1, <3>1
      <4> QED BY <2>2, <4>1
    <3>2. CASE T(q) /\ k = 1
      <4>1. q <= p
        BY <1>1, <1>5, <2>1, <3>2
      <4> QED BY <1>2, <1>5, <2>1, <3>2, <4>1
    <3>3. CASE k # 1
      <4>1. k + 1 \in P
        BY <1>5, <2>1, <3>3
      <4>2. H(k + 1) \/ T(k + 1)
        BY <1>2, <2>1, <4>1
      <4>3. T(k + 1) => T(p)
        BY <1>2, <2>1
      <4> QED BY <2>2, <4>2, <4>3
    <3>4. H(q) \/ T(q)
      BY <1>2, <1>5
    <3> QED BY <3>1, <3>2, <3>3, <3>4
  <2>4. p \in P
    BY <1>2, <2>1, <2>3
  <2>5. N - k + 1 \in P
    BY <2>4 DEF p
  <2> QED BY <1>4, <1>7, <1>9, <2>1, <2>5
<1> QED BY <1>6, <1>8, <1>9

Unbroken(ranks) == {r \in ranks : 1..r \subseteq ranks}

(* Edge-loaded reaches at least as deep, and deeper when the blind spot    *)
(* leaves a rank recalled behind one that is not.                          *)
LEMMA EdgeReachesDeeper ==
  ASSUME NEW swept \in Corpus
  PROVE  LET plain == Reach("mid_blind", swept, "as_ranked")
             edge == Reach("mid_blind", swept, "edge_loaded")
         IN  /\ Cardinality(Unbroken(edge)) >= Cardinality(Unbroken(plain))
             /\ Cardinality(plain) > Cardinality(Unbroken(plain)) =>
                  Cardinality(Unbroken(edge)) > Cardinality(Unbroken(plain))
<1> DEFINE N == RoomFor(swept)
           P == Places("mid_blind", swept)
           R == Reach("mid_blind", swept, "edge_loaded")
<1>1. Reach("mid_blind", swept, "as_ranked") = P
  BY RankedReach
<1>2. P \subseteq 1..N /\ N \in Nat
  BY RoomIs DEF Places
<1>3. IsFiniteSet(R) /\ IsFiniteSet(P)
  BY <1>1, ReachCount DEF Policies
<1>4. ASSUME NEW r \in 1..N, 1..(r - 1) \subseteq P, NEW q \in P, r <= q PROVE r \in R
  BY <1>4, EdgeGoesOn
<1> HIDE DEF N, P, R
<1>5. Unbroken(P) \subseteq Unbroken(R)
  <2> SUFFICES ASSUME NEW r \in Unbroken(P) PROVE r \in Unbroken(R)
    OBVIOUS
  <2>1. r \in P /\ 1..r \subseteq P /\ r \in 1..N
    BY <1>2 DEF Unbroken
  <2>2. \A j \in 1..r : j \in R
    <3> SUFFICES ASSUME NEW j \in 1..r PROVE j \in R
      OBVIOUS
    <3>1. j \in 1..N /\ 1..(j - 1) \subseteq 1..r /\ j \in P /\ j <= j
      BY <1>2, <2>1
    <3> QED BY <1>4, <2>1, <3>1
  <2>3. r \in 1..r
    BY <2>1
  <2> QED BY <2>2, <2>3 DEF Unbroken
<1>6. IsFiniteSet(Unbroken(R)) /\ IsFiniteSet(Unbroken(P))
  <2>1. Unbroken(R) \subseteq R /\ Unbroken(P) \subseteq P
    BY DEF Unbroken
  <2> QED BY <1>3, <2>1, FS_Subset
<1>7. /\ Cardinality(Unbroken(P)) <= Cardinality(Unbroken(R))
      /\ Cardinality(Unbroken(R)) = Cardinality(Unbroken(P)) => Unbroken(R) = Unbroken(P)
  BY <1>5, <1>6, FS_Subset
<1>8. Cardinality(Unbroken(P)) \in Nat /\ Cardinality(Unbroken(R)) \in Nat /\ Cardinality(P) \in Nat
  BY <1>3, <1>6, FS_CardinalityType
<1>9. ASSUME Cardinality(P) > Cardinality(Unbroken(P)) PROVE Unbroken(R) # Unbroken(P)
  <2>1. PICK q \in P : q \notin Unbroken(P)
    <3>1. Unbroken(P) # P
      BY <1>8, <1>9
    <3> QED BY <3>1 DEF Unbroken
  <2> DEFINE gaps == {i \in 1..q : i \notin P}
  <2>2. gaps \in SUBSET Nat /\ gaps # {}
    BY <2>1 DEF Unbroken
  <2>3. PICK r \in gaps : \A i \in gaps : r <= i
    <3> HIDE DEF gaps
    <3> QED BY <2>2, LeastNatural
  <2>4. r \in 1..N /\ r <= q /\ r \notin P /\ r \in 1..r
    BY <1>2, <2>1, <2>3
  <2>5. 1..(r - 1) \subseteq P
    <3> SUFFICES ASSUME NEW i \in 1..(r - 1), i \notin P PROVE FALSE
      OBVIOUS
    <3>1. i \in 1..q /\ i < r /\ i \in Nat
      <4>1. r \in Nat /\ q \in Nat /\ r <= q
        BY <1>2, <2>4
      <4> QED BY <4>1
    <3>2. r <= i
      BY <2>3, <3>1
    <3> QED BY <2>4, <3>1, <3>2
  <2>6. \A j \in 1..r : j \in R
    <3> SUFFICES ASSUME NEW j \in 1..r PROVE j \in R
      OBVIOUS
    <3>1. j \in 1..N /\ 1..(j - 1) \subseteq 1..(r - 1) /\ j <= q
      BY <1>2, <2>1, <2>4
    <3> QED BY <1>4, <2>1, <2>5, <3>1
  <2>7. r \in Unbroken(R) /\ r \notin Unbroken(P)
    BY <2>4, <2>6 DEF Unbroken
  <2> QED BY <2>7
<1>10. /\ Cardinality(Unbroken(R)) >= Cardinality(Unbroken(P))
       /\ Cardinality(P) > Cardinality(Unbroken(P)) => Cardinality(Unbroken(R)) > Cardinality(Unbroken(P))
  BY <1>7, <1>8, <1>9
<1> QED BY <1>1, <1>10 DEF R, P

(* A size on each side of the limit.                                       *)
TwoSizes(s, t) ==
  s \in Nat /\ t \in Nat /\ s <= LimitTokens /\ LimitTokens < t /\ GridSizes = {s, t}

(* The filler is as long as the seeds make it.                             *)
FillerLong ==
  \A s \in ProbeSizes : /\ filler[s].lines \in Nat /\ filler[s].lines >= 12
                       /\ filler[s].decoys \in BOOLEAN

(* There are such sizes.                                                 *)
LEMMA SizesPicked == \E s, t : TwoSizes(s, t)
BY GridAssumption, ProbesAssumption DEF TwoSizes, ProbeSizes

(* The limit is a number of tokens.                                      *)
LEMMA LimitIs == LimitTokens \in Nat
BY ProbesAssumption

(* Depths and sizes, counted.                                              *)
LEMMA PairCounted ==
  ASSUME NEW x, NEW y, x # y
  PROVE  IsFiniteSet({x, y}) /\ Cardinality({x, y}) = 2
<1>1. IsFiniteSet({x}) /\ Cardinality({x}) = 1
  BY FS_Singleton
<1>2. {x, y} = {x} \cup {y}
  OBVIOUS
<1>3. IsFiniteSet({x} \cup {y}) /\ Cardinality({x} \cup {y}) = 2
  BY <1>1, FS_AddElement
<1> QED BY <1>2, <1>3

(* The depths of the grid: two at the ends, three between.               *)
LEMMA DepthsCounted ==
  /\ IsFiniteSet({0, 100}) /\ Cardinality({0, 100}) = 2
  /\ IsFiniteSet({25, 50, 75}) /\ Cardinality({25, 50, 75}) = 3
  /\ IsFiniteSet(Depths) /\ Cardinality(Depths) = 5
<1>1. IsFiniteSet({0, 100}) /\ Cardinality({0, 100}) = 2
  BY PairCounted
<1>2. IsFiniteSet({25} \cup {50}) /\ Cardinality({25} \cup {50}) = 2
  <2>1. IsFiniteSet({25}) /\ Cardinality({25}) = 1
    BY FS_Singleton
  <2> QED BY <2>1, FS_AddElement
<1>3. {25, 50, 75} = ({25} \cup {50}) \cup {75}
  OBVIOUS
<1>4. IsFiniteSet(({25} \cup {50}) \cup {75}) /\ Cardinality(({25} \cup {50}) \cup {75}) = 3
  BY <1>2, FS_AddElement
<1>5. IsFiniteSet({25, 50, 75} \cup {0}) /\ Cardinality({25, 50, 75} \cup {0}) = 4
  BY <1>3, <1>4, FS_AddElement
<1>6. /\ IsFiniteSet(({25, 50, 75} \cup {0}) \cup {100})
      /\ Cardinality(({25, 50, 75} \cup {0}) \cup {100}) = 5
  BY <1>5, FS_AddElement
<1>7. Depths = ({25, 50, 75} \cup {0}) \cup {100}
  BY GridAssumption
<1> QED BY <1>1, <1>3, <1>4, <1>6, <1>7

(* Recall over sizes S and depths D when what is recalled is a rectangle.  *)
Rectangle(b, d, S, D, A, B) ==
  \A s \in S, e \in D : Recalled(b, d, s, e) <=> s \in A /\ e \in B

(* Hits and cells are then products.                                     *)
LEMMA RectangleRecalled ==
  ASSUME NEW b, NEW d, NEW S, NEW D, NEW A, NEW B,
         IsFiniteSet(S), IsFiniteSet(D), S # {}, D # {}, Rectangle(b, d, S, D, A, B)
  PROVE  Recall(b, d, S \X D) =
           [hits |-> Cardinality(S \cap A) * Cardinality(D \cap B),
            of |-> Cardinality(S) * Cardinality(D)]
<1>1. {c \in S \X D : Recalled(b, d, c[1], c[2])} = (S \cap A) \X (D \cap B)
  BY DEF Rectangle
<1>2. IsFiniteSet(S \cap A) /\ IsFiniteSet(D \cap B)
  <2>1. S \cap A \in SUBSET S /\ D \cap B \in SUBSET D
    OBVIOUS
  <2> QED BY <2>1, FS_Subset
<1>3. Cardinality((S \cap A) \X (D \cap B)) = Cardinality(S \cap A) * Cardinality(D \cap B)
  BY <1>2, FS_Product
<1>4. Cardinality(S \X D) = Cardinality(S) * Cardinality(D)
  BY FS_Product
<1>5. S \X D # {}
  <2>1. PICK x \in S, e \in D : TRUE
    OBVIOUS
  <2>2. <<x, e>> \in S \X D
    OBVIOUS
  <2> QED BY <2>2
<1> QED BY <1>1, <1>3, <1>4, <1>5 DEF Recall

One(x, A) == IF x \in A THEN 1 ELSE 0

(* Of one value, as many as are in a set.                                *)
LEMMA OneCounted ==
  ASSUME NEW x, NEW A
  PROVE  Cardinality({x} \cap A) = One(x, A)
<1>1. CASE x \in A
  <2>1. {x} \cap A = {x}
    BY <1>1
  <2> QED BY <1>1, <2>1, FS_Singleton DEF One
<1>2. CASE x \notin A
  <2>1. {x} \cap A = {}
    BY <1>2
  <2> QED BY <1>2, <2>1, FS_EmptySet DEF One
<1> QED BY <1>1, <1>2

(* Of two values, as many as are in a set.                               *)
LEMMA TwoCounted ==
  ASSUME NEW x, NEW y, NEW A, x # y
  PROVE  Cardinality({x, y} \cap A) = One(x, A) + One(y, A)
<1>1. IsFiniteSet({x} \cap A) /\ Cardinality({x} \cap A) = One(x, A)
  <2>1. {x} \cap A \in SUBSET {x} /\ IsFiniteSet({x})
    BY FS_Singleton
  <2>2. IsFiniteSet({x} \cap A)
    BY <2>1, FS_Subset
  <2> QED BY <2>2, OneCounted
<1>2. CASE y \in A
  <2>1. {x, y} \cap A = ({x} \cap A) \cup {y}
    BY <1>2
  <2>2. Cardinality(({x} \cap A) \cup {y}) = Cardinality({x} \cap A) + 1
    BY <1>1, FS_AddElement
  <2> QED BY <1>1, <1>2, <2>1, <2>2 DEF One
<1>3. CASE y \notin A
  <2>1. {x, y} \cap A = {x} \cap A
    BY <1>3
  <2> QED BY <1>1, <1>3, <2>1 DEF One
<1> QED BY <1>2, <1>3

(* The shape by counts: u and v of the sizes, m and n of edges and middle. *)
ShapeOf(u, v, m, n) ==
  Classify([hits |-> u * (m + n), of |-> 5], [hits |-> v * (m + n), of |-> 5],
           [hits |-> (u + v) * m, of |-> 4], [hits |-> (u + v) * n, of |-> 6],
           [hits |-> (u + v) * (m + n), of |-> 10])

DepthsIn(B, m, n) ==
  /\ Cardinality({0, 100} \cap B) = m /\ Cardinality({25, 50, 75} \cap B) = n
  /\ Cardinality(Depths \cap B) = m + n

(* A probe of such a responder finds the shape its counts have.          *)
LEMMA RectangleProbed ==
  ASSUME NEW s, NEW t, TwoSizes(s, t), NEW b, NEW d, NEW A, NEW B,
         NEW m \in Nat, NEW n \in Nat, DepthsIn(B, m, n), Rectangle(b, d, GridSizes, Depths, A, B)
  PROVE  Probe(GridSizes, b, d) = ShapeOf(One(s, A), One(t, A), m, n)
<1>1. s # t /\ s < t /\ s \in Nat /\ t \in Nat /\ GridSizes = {s, t}
  BY LimitIs DEF TwoSizes
<1>2. Smallest(GridSizes) = s /\ Largest(GridSizes) = t
  BY <1>1 DEF Smallest, Largest
<1>3. Depths = {0, 25, 50, 75, 100}
  BY GridAssumption
<1>4. {e \in Depths : ~IsEdge(e)} = {25, 50, 75} /\ Depths \ {25, 50, 75} = {0, 100}
  BY <1>3 DEF IsEdge
<1>5. IsFiniteSet({s}) /\ Cardinality({s}) = 1 /\ IsFiniteSet({t}) /\ Cardinality({t}) = 1
  BY FS_Singleton
<1>6. IsFiniteSet(GridSizes) /\ Cardinality(GridSizes) = 2 /\ GridSizes # {}
  BY <1>1, PairCounted
<1>7. /\ Cardinality({s} \cap A) = One(s, A) /\ Cardinality({t} \cap A) = One(t, A)
      /\ Cardinality(GridSizes \cap A) = One(s, A) + One(t, A)
  BY <1>1, OneCounted, TwoCounted
<1>8. One(s, A) \in 0..1 /\ One(t, A) \in 0..1
  BY DEF One
<1>9. /\ Rectangle(b, d, {s}, Depths, A, B) /\ Rectangle(b, d, {t}, Depths, A, B)
      /\ Rectangle(b, d, GridSizes, {0, 100}, A, B) /\ Rectangle(b, d, GridSizes, {25, 50, 75}, A, B)
      /\ Rectangle(b, d, GridSizes, Depths, A, B)
      /\ {s} # {} /\ {t} # {} /\ Depths # {} /\ {0, 100} # {} /\ {25, 50, 75} # {}
  <2>1. {s} \subseteq GridSizes /\ {t} \subseteq GridSizes /\ {0, 100} \subseteq Depths /\ {25, 50, 75} \subseteq Depths
    BY <1>1, <1>3
  <2> QED BY <1>3, <2>1 DEF Rectangle
<1>16. /\ Cardinality({0, 100} \cap B) = m /\ Cardinality({25, 50, 75} \cap B) = n
       /\ Cardinality(Depths \cap B) = m + n
  BY DEF DepthsIn
<1> DEFINE R(cells) == Recall(b, d, cells)
           p == One(s, A)
           q == One(t, A)
<1>10. R({s} \X Depths) = [hits |-> p * (m + n), of |-> 5]
  <2>0. IsFiniteSet({s}) /\ IsFiniteSet(Depths) /\ {s} # {} /\ Depths # {} /\ Rectangle(b, d, {s}, Depths, A, B)
    BY <1>5, <1>6, <1>9, DepthsCounted
  <2>1. Recall(b, d, {s} \X Depths) =
          [hits |-> Cardinality({s} \cap A) * Cardinality(Depths \cap B),
           of |-> Cardinality({s}) * Cardinality(Depths)]
    BY ONLY <2>0, RectangleRecalled
  <2>2. Cardinality({s} \cap A) * Cardinality(Depths \cap B) = p * (m + n)
    BY <1>7, <1>16
  <2>3. Cardinality({s}) * Cardinality(Depths) = 5
    BY <1>5, <1>6, DepthsCounted
  <2> QED BY <2>1, <2>2, <2>3
<1>11. R({t} \X Depths) = [hits |-> q * (m + n), of |-> 5]
  <2>0. IsFiniteSet({t}) /\ IsFiniteSet(Depths) /\ {t} # {} /\ Depths # {} /\ Rectangle(b, d, {t}, Depths, A, B)
    BY <1>5, <1>6, <1>9, DepthsCounted
  <2>1. Recall(b, d, {t} \X Depths) =
          [hits |-> Cardinality({t} \cap A) * Cardinality(Depths \cap B),
           of |-> Cardinality({t}) * Cardinality(Depths)]
    BY ONLY <2>0, RectangleRecalled
  <2>2. Cardinality({t} \cap A) * Cardinality(Depths \cap B) = q * (m + n)
    BY <1>7, <1>16
  <2>3. Cardinality({t}) * Cardinality(Depths) = 5
    BY <1>5, <1>6, DepthsCounted
  <2> QED BY <2>1, <2>2, <2>3
<1>12. R(GridSizes \X {0, 100}) = [hits |-> (p + q) * m, of |-> 4]
  <2>0. IsFiniteSet(GridSizes) /\ IsFiniteSet({0, 100}) /\ GridSizes # {} /\ {0, 100} # {} /\ Rectangle(b, d, GridSizes, {0, 100}, A, B)
    BY <1>5, <1>6, <1>9, DepthsCounted
  <2>1. Recall(b, d, GridSizes \X {0, 100}) =
          [hits |-> Cardinality(GridSizes \cap A) * Cardinality({0, 100} \cap B),
           of |-> Cardinality(GridSizes) * Cardinality({0, 100})]
    BY ONLY <2>0, RectangleRecalled
  <2>2. Cardinality(GridSizes \cap A) * Cardinality({0, 100} \cap B) = (p + q) * m
    BY <1>7, <1>16
  <2>3. Cardinality(GridSizes) * Cardinality({0, 100}) = 4
    BY <1>5, <1>6, DepthsCounted
  <2> QED BY <2>1, <2>2, <2>3
<1>13. R(GridSizes \X {25, 50, 75}) = [hits |-> (p + q) * n, of |-> 6]
  <2>0. IsFiniteSet(GridSizes) /\ IsFiniteSet({25, 50, 75}) /\ GridSizes # {} /\ {25, 50, 75} # {} /\ Rectangle(b, d, GridSizes, {25, 50, 75}, A, B)
    BY <1>5, <1>6, <1>9, DepthsCounted
  <2>1. Recall(b, d, GridSizes \X {25, 50, 75}) =
          [hits |-> Cardinality(GridSizes \cap A) * Cardinality({25, 50, 75} \cap B),
           of |-> Cardinality(GridSizes) * Cardinality({25, 50, 75})]
    BY ONLY <2>0, RectangleRecalled
  <2>2. Cardinality(GridSizes \cap A) * Cardinality({25, 50, 75} \cap B) = (p + q) * n
    BY <1>7, <1>16
  <2>3. Cardinality(GridSizes) * Cardinality({25, 50, 75}) = 6
    BY <1>5, <1>6, DepthsCounted
  <2> QED BY <2>1, <2>2, <2>3
<1>14. R(GridSizes \X Depths) = [hits |-> (p + q) * (m + n), of |-> 10]
  <2>0. IsFiniteSet(GridSizes) /\ IsFiniteSet(Depths) /\ GridSizes # {} /\ Depths # {} /\ Rectangle(b, d, GridSizes, Depths, A, B)
    BY <1>5, <1>6, <1>9, DepthsCounted
  <2>1. Recall(b, d, GridSizes \X Depths) =
          [hits |-> Cardinality(GridSizes \cap A) * Cardinality(Depths \cap B),
           of |-> Cardinality(GridSizes) * Cardinality(Depths)]
    BY ONLY <2>0, RectangleRecalled
  <2>2. Cardinality(GridSizes \cap A) * Cardinality(Depths \cap B) = (p + q) * (m + n)
    BY <1>7, <1>16
  <2>3. Cardinality(GridSizes) * Cardinality(Depths) = 10
    BY <1>5, <1>6, DepthsCounted
  <2> QED BY <2>1, <2>2, <2>3
<1>15. Probe(GridSizes, b, d) = Classify(R({Smallest(GridSizes)} \X Depths), R({Largest(GridSizes)} \X Depths),
                              R(GridSizes \X (Depths \ {e \in Depths : ~IsEdge(e)})),
                              R(GridSizes \X {e \in Depths : ~IsEdge(e)}),
                              R(GridSizes \X Depths))
  BY DEF Probe
<1> HIDE DEF R
<1>17. Probe(GridSizes, b, d) = Classify(R({s} \X Depths), R({t} \X Depths), R(GridSizes \X {0, 100}),
                                         R(GridSizes \X {25, 50, 75}), R(GridSizes \X Depths))
  BY <1>2, <1>4, <1>15
<1> HIDE DEF p, q
<1>18. Probe(GridSizes, b, d) = ShapeOf(p, q, m, n)
  BY <1>10, <1>11, <1>12, <1>13, <1>14, <1>17 DEF ShapeOf
<1> QED BY <1>18 DEF p, q

(* All depths, none, the edges.                                            *)
LEMMA AllDepths == DepthsIn(Depths, 2, 3)
<1>1. {0, 100} \cap Depths = {0, 100} /\ {25, 50, 75} \cap Depths = {25, 50, 75} /\ Depths \cap Depths = Depths
  BY GridAssumption
<1> QED BY <1>1, DepthsCounted DEF DepthsIn

(* The ends alone.                                                       *)
LEMMA EdgeDepths == DepthsIn({0, 100}, 2, 0)
<1>1. {0, 100} \cap {0, 100} = {0, 100} /\ {25, 50, 75} \cap {0, 100} = {} /\ Depths \cap {0, 100} = {0, 100}
  BY GridAssumption
<1> QED BY <1>1, DepthsCounted, FS_EmptySet DEF DepthsIn

(* The shapes that occur, by their counts.                                 *)
LEMMA ShapesByCount ==
  /\ ShapeOf(1, 1, 2, 3) = "no_degradation_detected"
  /\ ShapeOf(0, 0, 2, 3) = "fails_everywhere"
  /\ ShapeOf(1, 1, 2, 0) = "degrades_in_middle"
  /\ ShapeOf(1, 0, 2, 3) = "degrades_with_size"
  /\ ShapeOf(0, 1, 2, 3) # "fails_everywhere"
<1>1. ShapeOf(1, 1, 2, 3) = "no_degradation_detected"
  BY DEF ShapeOf, Classify, Drops
<1>2. ShapeOf(0, 0, 2, 3) = "fails_everywhere"
  BY DEF ShapeOf, Classify, Drops
<1>3. ShapeOf(1, 1, 2, 0) = "degrades_in_middle"
  BY DEF ShapeOf, Classify, Drops
<1>4. ShapeOf(1, 0, 2, 3) = "degrades_with_size"
  BY DEF ShapeOf, Classify, Drops
<1>5. ShapeOf(0, 1, 2, 3) # "fails_everywhere"
  BY DEF ShapeOf, Classify, Drops
<1> QED BY <1>1, <1>2, <1>3, <1>4, <1>5

(* A blind middle is one at the three depths inside, and at no end.        *)
LEMMA MidBlindReads ==
  ASSUME NEW lines \in Nat, lines >= 12, NEW depth \in {0, 25, 50, 75, 100}
  PROVE  LET line == NeedleLine(depth, lines)
         IN  100 * line <= 15 * (lines + 2) \/ 100 * line >= 85 * (lines + 2)
               <=> depth \in {0, 100}
<1>1. CASE depth = 0
  BY <1>1 DEF NeedleLine
<1>2. CASE depth = 25
  BY <1>2 DEF NeedleLine
<1>3. CASE depth = 50
  BY <1>3 DEF NeedleLine
<1>4. CASE depth = 75
  BY <1>4 DEF NeedleLine
<1>5. CASE depth = 100
  BY <1>5 DEF NeedleLine
<1> QED BY <1>1, <1>2, <1>3, <1>4, <1>5

(* Perfect: decoys or not, every depth of every size is recalled.        *)
LEMMA PerfectShape ==
  ASSUME FillerLong, NEW d
  PROVE  Probe(GridSizes, "perfect", d) = "no_degradation_detected"
<1>1. PICK s, t : TwoSizes(s, t)
  BY SizesPicked
<1>2. Rectangle("perfect", d, GridSizes, Depths, GridSizes, Depths)
  BY DEF Rectangle, Recalled, Answers
<1>3. Probe(GridSizes, "perfect", d) = ShapeOf(One(s, GridSizes), One(t, GridSizes), 2, 3)
  BY <1>1, <1>2, AllDepths, RectangleProbed
<1>4. One(s, GridSizes) = 1 /\ One(t, GridSizes) = 1
  BY <1>1 DEF One, TwoSizes
<1> QED BY <1>3, <1>4, ShapesByCount

(* Blind: nothing is recalled.                                           *)
LEMMA BlindShape ==
  ASSUME FillerLong, NEW d
  PROVE  Probe(GridSizes, "blind", d) = "fails_everywhere"
<1>1. PICK s, t : TwoSizes(s, t)
  BY SizesPicked
<1>2. Rectangle("blind", d, GridSizes, Depths, {}, Depths)
  BY DEF Rectangle, Recalled, Answers
<1>3. Probe(GridSizes, "blind", d) = ShapeOf(One(s, {}), One(t, {}), 2, 3)
  BY <1>1, <1>2, AllDepths, RectangleProbed
<1>4. One(s, {}) = 0 /\ One(t, {}) = 0
  BY DEF One
<1> QED BY <1>3, <1>4, ShapesByCount

(* Blind in the middle: of every size the two ends are recalled.           *)
LEMMA EndsRead ==
  ASSUME FillerLong, NEW d
  PROVE  Rectangle("mid_blind", d, ProbeSizes, Depths, ProbeSizes, {0, 100})
<1> SUFFICES ASSUME NEW size \in ProbeSizes, NEW e \in Depths
             PROVE  Recalled("mid_blind", d, size, e) <=> e \in {0, 100}
  BY DEF Rectangle
<1> DEFINE k == filler[size].lines
<1>1. k \in Nat /\ k >= 12 /\ e \in {0, 25, 50, 75, 100}
  BY GridAssumption DEF FillerLong
<1>2. Recalled("mid_blind", d, size, e) <=>
        100 * NeedleLine(e, k) <= 15 * (k + 2) \/ 100 * NeedleLine(e, k) >= 85 * (k + 2)
  BY DEF Recalled, Answers
<1> HIDE DEF k
<1> QED BY <1>1, <1>2, MidBlindReads

(* Two of five, whatever the number of sizes.                            *)
LEMMA EndsCounted ==
  ASSUME FillerLong, NEW d, NEW S, S \subseteq ProbeSizes, IsFiniteSet(S), S # {}
  PROVE  LET k == Cardinality(S)
         IN  /\ Recall("mid_blind", d, S \X Depths) = [hits |-> k * 2, of |-> k * 5]
             /\ Recall("mid_blind", d, S \X {0, 100}) = [hits |-> k * 2, of |-> k * 2]
             /\ Recall("mid_blind", d, S \X {25, 50, 75}) = [hits |-> k * 0, of |-> k * 3]
<1> DEFINE A == ProbeSizes
           B == {0, 100}
           b == "mid_blind"
<1>1. {0, 100} \subseteq Depths /\ {25, 50, 75} \subseteq Depths /\ Depths # {}
  BY GridAssumption
<1>2. Rectangle(b, d, S, Depths, A, B) /\ Rectangle(b, d, S, {0, 100}, A, B) /\ Rectangle(b, d, S, {25, 50, 75}, A, B)
  BY <1>1, EndsRead DEF Rectangle
<1>3. S \cap A = S
  OBVIOUS
<1>4. /\ Cardinality({0, 100} \cap B) = 2 /\ Cardinality({25, 50, 75} \cap B) = 0
      /\ Cardinality(Depths \cap B) = 2
  BY EdgeDepths DEF DepthsIn
<1> HIDE DEF A, B, b
<1>5. Recall(b, d, S \X Depths) = [hits |-> Cardinality(S) * 2, of |-> Cardinality(S) * 5]
  <2>1. IsFiniteSet(S) /\ IsFiniteSet(Depths) /\ S # {} /\ Depths # {} /\ Rectangle(b, d, S, Depths, A, B)
    BY <1>1, <1>2, DepthsCounted
  <2>2. Recall(b, d, S \X Depths) =
          [hits |-> Cardinality(S \cap A) * Cardinality(Depths \cap B),
           of |-> Cardinality(S) * Cardinality(Depths)]
    BY ONLY <2>1, RectangleRecalled
  <2> QED BY <1>3, <1>4, <2>2, DepthsCounted
<1>6. Recall(b, d, S \X {0, 100}) = [hits |-> Cardinality(S) * 2, of |-> Cardinality(S) * 2]
  <2>1. IsFiniteSet(S) /\ IsFiniteSet({0, 100}) /\ S # {} /\ {0, 100} # {} /\ Rectangle(b, d, S, {0, 100}, A, B)
    BY <1>1, <1>2, DepthsCounted
  <2>2. Recall(b, d, S \X {0, 100}) =
          [hits |-> Cardinality(S \cap A) * Cardinality({0, 100} \cap B),
           of |-> Cardinality(S) * Cardinality({0, 100})]
    BY ONLY <2>1, RectangleRecalled
  <2> QED BY <1>3, <1>4, <2>2, DepthsCounted
<1>7. Recall(b, d, S \X {25, 50, 75}) = [hits |-> Cardinality(S) * 0, of |-> Cardinality(S) * 3]
  <2>1. IsFiniteSet(S) /\ IsFiniteSet({25, 50, 75}) /\ S # {} /\ {25, 50, 75} # {} /\ Rectangle(b, d, S, {25, 50, 75}, A, B)
    BY <1>1, <1>2, DepthsCounted
  <2>2. Recall(b, d, S \X {25, 50, 75}) =
          [hits |-> Cardinality(S \cap A) * Cardinality({25, 50, 75} \cap B),
           of |-> Cardinality(S) * Cardinality({25, 50, 75})]
    BY ONLY <2>1, RectangleRecalled
  <2> QED BY <1>3, <1>4, <2>2, DepthsCounted
<1> QED BY <1>5, <1>6, <1>7 DEF b

(* Two of five at one size.                                                *)
LEMMA EndsOfOne ==
  ASSUME FillerLong, NEW d, NEW size \in ProbeSizes
  PROVE  Recall("mid_blind", d, {size} \X Depths) = [hits |-> 2, of |-> 5]
<1> DEFINE S == {size}
<1>1. FillerLong /\ S \subseteq ProbeSizes /\ IsFiniteSet(S) /\ S # {}
  BY FS_Singleton
<1>2. Cardinality(S) = 1
  BY FS_Singleton
<1> HIDE DEF S
<1>3. Recall("mid_blind", d, S \X Depths) = [hits |-> Cardinality(S) * 2, of |-> Cardinality(S) * 5]
  BY ONLY <1>1, EndsCounted
<1>4. 1 * 2 = 2 /\ 1 * 5 = 5
  OBVIOUS
<1> QED BY <1>2, <1>3, <1>4 DEF S

(* Whatever the sizes: this is the shape the edge-loaded policy is for.    *)
LEMMA MidBlindProbed ==
  ASSUME FillerLong, NEW d, NEW sizes, sizes \subseteq ProbeSizes, IsFiniteSet(sizes),
         NEW largest \in sizes, \A s \in sizes : s <= largest
  PROVE  Probe(sizes, "mid_blind", d) = "degrades_in_middle"
<1> DEFINE R(cells) == Recall("mid_blind", d, cells)
           k == Cardinality(sizes)
           l == Largest(sizes)
           m == Smallest(sizes)
<1>1. sizes \in SUBSET Nat /\ sizes # {}
  BY ProbesAssumption
<1>2. l \in sizes
  <2>1. \A s \in sizes : largest >= s
    BY <1>1
  <2> QED BY <2>1 DEF Largest
<1>3. m \in sizes
  <2>1. \E s \in sizes : \A t \in sizes : s <= t
    BY <1>1, LeastNatural
  <2> QED BY <2>1 DEF Smallest
<1>4. k \in Nat /\ k > 0
  BY <1>1, FS_CardinalityType, FS_EmptySet
<1>5. {e \in Depths : ~IsEdge(e)} = {25, 50, 75} /\ Depths \ {25, 50, 75} = {0, 100}
  <2>1. Depths = {0, 25, 50, 75, 100}
    BY GridAssumption
  <2> QED BY <2>1 DEF IsEdge
<1>6. /\ R(sizes \X Depths) = [hits |-> k * 2, of |-> k * 5]
      /\ R(sizes \X {0, 100}) = [hits |-> k * 2, of |-> k * 2]
      /\ R(sizes \X {25, 50, 75}) = [hits |-> k * 0, of |-> k * 3]
  BY <1>1, EndsCounted
<1>7. R({l} \X Depths) = [hits |-> 2, of |-> 5]
  <2>1. FillerLong /\ l \in ProbeSizes
    BY <1>2
  <2> HIDE DEF l
  <2> QED BY ONLY <2>1, EndsOfOne DEF R
<1>8. R({m} \X Depths) = [hits |-> 2, of |-> 5]
  <2>1. FillerLong /\ m \in ProbeSizes
    BY <1>3
  <2> HIDE DEF m
  <2> QED BY ONLY <2>1, EndsOfOne DEF R
<1>9. Probe(sizes, "mid_blind", d) =
        Classify(R({m} \X Depths), R({l} \X Depths),
                 R(sizes \X (Depths \ {e \in Depths : ~IsEdge(e)})),
                 R(sizes \X {e \in Depths : ~IsEdge(e)}), R(sizes \X Depths))
  BY DEF Probe
<1> DEFINE small == [hits |-> 2, of |-> 5]
           ends == [hits |-> k * 2, of |-> k * 2]
           middle == [hits |-> 0, of |-> k * 3]
           all == [hits |-> k * 2, of |-> k * 5]
<1> HIDE DEF R, k, l, m
<1>10. Probe(sizes, "mid_blind", d) = Classify(small, small, ends, middle, all)
  <2>1. R(sizes \X {25, 50, 75}) = middle
    <3>1. k * 0 = 0
      BY <1>4
    <3> QED BY <1>6, <3>1
  <2>2. R(sizes \X {0, 100}) = ends /\ R(sizes \X Depths) = all
    BY <1>6
  <2>3. R({m} \X Depths) = small /\ R({l} \X Depths) = small
    BY <1>7, <1>8
  <2>4. Probe(sizes, "mid_blind", d) =
          Classify(R({m} \X Depths), R({l} \X Depths),
                   R(sizes \X {0, 100}), R(sizes \X {25, 50, 75}), R(sizes \X Depths))
    BY <1>5, <1>9
  <2> HIDE DEF small, ends, middle, all
  <2> QED BY ONLY <2>1, <2>2, <2>3, <2>4
<1>11. ~Drops(small, small)
  BY DEF Drops
<1>12. Drops(ends, middle)
  <2>1. (k * 2) * (k * 3) = 6 * (k * k) /\ (k * 3) * (k * 2) = 6 * (k * k) /\ k * k > 0 /\ k * k \in Nat
    BY <1>4
  <2>2. 0 * (k * 2) = 0
    BY <1>4
  <2> DEFINE q == k * k
  <2> HIDE DEF q
  <2>3. Drops(ends, middle) <=> 4 * ((k * 2) * (k * 3) - 0 * (k * 2)) > (k * 2) * (k * 3)
    BY <2>1 DEF Drops
  <2>4. 4 * (6 * q - 0) > 6 * q
    BY <2>1 DEF q
  <2> QED BY <2>1, <2>2, <2>3, <2>4 DEF q
<1>13. ~(4 * all.hits <= all.of)
  BY <1>4
<1> HIDE DEF small, ends, middle, all
<1> QED BY <1>10, <1>11, <1>12, <1>13 DEF Classify

(* The self-check is one such grid.                                      *)
LEMMA MidBlindShape ==
  ASSUME FillerLong, NEW d
  PROVE  Probe(GridSizes, "mid_blind", d) = "degrades_in_middle"
<1>1. PICK s, t : TwoSizes(s, t)
  BY SizesPicked
<1>2. GridSizes = {s, t} /\ s \in Nat /\ t \in Nat /\ s < t
  BY <1>1, LimitIs DEF TwoSizes
<1>3. IsFiniteSet(GridSizes) /\ t \in GridSizes /\ (\A x \in GridSizes : x <= t) /\ GridSizes \subseteq ProbeSizes
  <2>1. IsFiniteSet(GridSizes)
    <3>1. s # t
      BY <1>2
    <3>2. IsFiniteSet({s, t})
      BY ONLY <3>1, PairCounted
    <3> QED BY <1>2, <3>2
  <2> QED BY <1>2, <2>1 DEF ProbeSizes
<1> QED BY <1>3, MidBlindProbed

(* The measurement finds it too.                                           *)
LEMMA MidBlindMeasured ==
  ASSUME FillerLong, NEW d
  PROVE  Probe(MeasuredSizes, "mid_blind", d) = "degrades_in_middle"
<1>1. MeasuredSizes \subseteq ProbeSizes /\ MeasuredSizes \in SUBSET Nat
  BY ProbesAssumption DEF ProbeSizes
<1>2. PICK largest \in MeasuredSizes : \A s \in MeasuredSizes : s <= largest
  BY GridAssumption
<1>3. IsFiniteSet(MeasuredSizes)
  <2>1. largest \in Nat
    BY <1>1
  <2> QED BY <1>1, <1>2, <2>1, FS_BoundedSetOfNaturals
<1> QED BY <1>1, <1>2, <1>3, MidBlindProbed

(* Limited: the smaller size is recalled.                                *)
LEMMA SizeLimitedShape ==
  ASSUME FillerLong, NEW d
  PROVE  Probe(GridSizes, "size_limited", d) = "degrades_with_size"
<1>1. PICK s, t : TwoSizes(s, t)
  BY SizesPicked
<1>2. s \in {s} /\ t \notin {s} /\ GridSizes = {s, t} /\ s <= LimitTokens /\ ~(t <= LimitTokens)
  BY <1>1, LimitIs DEF TwoSizes
<1>3. Rectangle("size_limited", d, GridSizes, Depths, {s}, Depths)
  BY <1>2 DEF Rectangle, Recalled, Answers
<1>4. Probe(GridSizes, "size_limited", d) = ShapeOf(One(s, {s}), One(t, {s}), 2, 3)
  BY <1>1, <1>3, AllDepths, RectangleProbed
<1>5. One(s, {s}) = 1 /\ One(t, {s}) = 0
  BY <1>2 DEF One
<1> QED BY <1>4, <1>5, ShapesByCount

(* Distractible: the sizes without decoys are recalled.                  *)
LEMMA DistractibleShape ==
  ASSUME FillerLong
  PROVE  Probe(GridSizes, "distractible", TRUE) = "fails_everywhere" <=> \A s \in GridSizes : filler[s].decoys
<1>1. PICK s, t : TwoSizes(s, t)
  BY SizesPicked
<1> DEFINE A == {size \in GridSizes : ~filler[size].decoys}
           d == TRUE
<1>2. Rectangle("distractible", d, GridSizes, Depths, A, Depths)
  BY DEF Rectangle, Recalled, Answers
<1> HIDE DEF A, d
<1>3. Probe(GridSizes, "distractible", d) = ShapeOf(One(s, A), One(t, A), 2, 3)
  BY <1>1, <1>2, AllDepths, RectangleProbed
<1>4. (\A size \in GridSizes : filler[size].decoys) <=> s \notin A /\ t \notin A
  BY <1>1 DEF A, TwoSizes
<1>5. CASE s \notin A /\ t \notin A
  <2>1. One(s, A) = 0 /\ One(t, A) = 0
    BY <1>5 DEF One
  <2>2. Probe(GridSizes, "distractible", TRUE) = "fails_everywhere"
    BY <1>3, <2>1, ShapesByCount DEF d
  <2> QED BY <1>4, <1>5, <2>2
<1>6. CASE s \in A \/ t \in A
  <2>1. \/ One(s, A) = 1 /\ One(t, A) = 1
        \/ One(s, A) = 1 /\ One(t, A) = 0
        \/ One(s, A) = 0 /\ One(t, A) = 1
    BY <1>6 DEF One
  <2>2. Probe(GridSizes, "distractible", TRUE) # "fails_everywhere"
    BY <1>3, <2>1, ShapesByCount DEF d
  <2> QED BY <1>4, <1>6, <2>2
<1> QED BY <1>5, <1>6

(* The other responders answer at every place or at none, so every policy  *)
(* recalls the same ranks.                                                 *)
LEMMA PlainReach ==
  ASSUME NEW swept \in Corpus, NEW behaviour \in Behaviours, behaviour # "mid_blind",
         NEW policy \in Policies
  PROVE  Reach(behaviour, swept, policy) = Places(behaviour, swept)
<1> DEFINE N == RoomFor(swept)
           P == Places(behaviour, swept)
           t == Laid(swept, policy)
<1>1. N \in Nat
  BY RoomIs
<1>2. Reach(behaviour, swept, policy) = {t[p] : p \in P}
  BY ReachIs DEF Corpus
<1>3. P = {} \/ P = 1..N
  <2>1. ASSUME NEW p \in 1..N, NEW q \in 1..N
        PROVE  AnswersAt(behaviour, swept, p) => AnswersAt(behaviour, swept, q)
    BY DEF Behaviours, AnswersAt, Answers
  <2>2. P = {p \in 1..N : AnswersAt(behaviour, swept, p)}
    BY DEF Places
  <2> HIDE DEF P, N
  <2> QED BY <2>1, <2>2
<1>4. /\ \A p \in 1..N : t[p] \in 1..N
      /\ \A r \in 1..N : \E p \in 1..N : t[p] = r
  BY <1>1, LaidIs DEF Laid
<1> HIDE DEF P, t, N
<1>5. {t[p] : p \in P} = P
  BY <1>3, <1>4
<1> QED BY <1>2, <1>5 DEF P

-----------------------------------------------------------------------------
ShapesMeasured ==
  /\ Len(shapes) \in Nat
  /\ shapes = [i \in 1..Len(shapes) |-> Probe(GridSizes, SelfCheckCases[i].behaviour, SelfCheckCases[i].distractors)]

SubjectMeasured ==
  \E b \in Behaviours, d \in BOOLEAN : subject.behaviour = b /\ subject.shape = Probe(MeasuredSizes, b, d)

ReachesSwept ==
  \E swept \in Corpora :
    reaches = [policy \in Policies |-> Reach(subject.behaviour, swept, policy)]

(* What each step leaves behind; past the controls the exit code is what   *)
(* the self-check said.                                                    *)
ProbesInv ==
  /\ step \in {"controls", "measure", "sweep", "ended"}
  /\ ShapesMeasured
  /\ step # "controls" => Len(shapes) = 6 /\ (exit = 0 <=> SelfCheckPasses)
  /\ step = "controls" => exit = 0
  /\ step \in {"measure", "sweep"} => exit = 0
  /\ step \in {"sweep", "ended"} /\ exit = 0 => SubjectMeasured
  /\ step = "ended" /\ exit = 0 => ReachesSwept

(* There are six controls.                                               *)
LEMMA CasesAre == Len(SelfCheckCases) = 6 /\ DOMAIN SelfCheckCases = 1..6
BY DEF SelfCheckCases

(* It holds before the first control.                                    *)
LEMMA InitProbesInv == ProbesInit => ProbesInv
<1> SUFFICES ASSUME ProbesInit PROVE ProbesInv
  OBVIOUS
<1>1. ShapesMeasured
  BY DEF ProbesInit, ShapesMeasured
<1> QED BY <1>1 DEF ProbesInit, ProbesInv

(* A shape is a matter of the filler.                                    *)
LEMMA ProbesSame ==
  ASSUME UNCHANGED filler
  PROVE  \A sizes, b, d : Probe(sizes, b, d)' = Probe(sizes, b, d)
BY DEF Probe, Recall, Recalled

(* What the controls found stays found while the filler and they do.       *)
LEMMA ControlsStay ==
  ASSUME UNCHANGED <<filler, shapes>>
  PROVE  ShapesMeasured' = ShapesMeasured /\ SelfCheckPasses' = SelfCheckPasses
<1>1. \A sizes, b, d : Probe(sizes, b, d)' = Probe(sizes, b, d)
  BY ProbesSame
<1>2. ShapesMeasured' = ShapesMeasured
  BY <1>1 DEF ShapesMeasured
<1>3. SelfCheckPasses' = SelfCheckPasses
  BY DEF SelfCheckPasses, DistractorAxisIsLive
<1> QED BY <1>2, <1>3

(* What was measured stays measured.                                     *)
LEMMA SubjectStays ==
  ASSUME UNCHANGED <<filler, subject>>
  PROVE  SubjectMeasured' = SubjectMeasured
<1>1. \A sizes, b, d : Probe(sizes, b, d)' = Probe(sizes, b, d)
  BY ProbesSame
<1> QED BY <1>1 DEF SubjectMeasured

(* Every step keeps it.                                                  *)
LEMMA NextProbesInv == ProbesInv /\ [ProbesNext]_probesVars => ProbesInv'
<1> SUFFICES ASSUME ProbesInv, [ProbesNext]_probesVars PROVE ProbesInv'
  OBVIOUS
<1>1. CASE RunControl
  <2>1. UNCHANGED <<step, filler, subject, reaches, exit>> /\ step = "controls" /\ Len(shapes) < 6
    BY <1>1, CasesAre DEF RunControl
  <2> DEFINE k == Len(shapes)
             F(i) == Probe(GridSizes, SelfCheckCases[i].behaviour, SelfCheckCases[i].distractors)
  <2>2. shapes' = Append(shapes, F(k + 1))
    BY <1>1 DEF RunControl
  <2>3. k \in Nat /\ shapes = [i \in 1..k |-> F(i)]
    BY DEF ProbesInv, ShapesMeasured
  <2> HIDE DEF k, F
  <2>4. shapes' = [i \in 1..(k + 1) |-> F(i)] /\ Len(shapes') = k + 1
    BY <2>2, <2>3
  <2>5. \A i : F(i)' = F(i)
    BY <2>1, ProbesSame DEF F
  <2>6. ShapesMeasured'
    BY <2>3, <2>4, <2>5 DEF ShapesMeasured, F
  <2> QED BY <2>1, <2>6 DEF ProbesInv
<1>2. CASE EndSelfCheck
  <2>1. UNCHANGED <<filler, shapes, subject, reaches>> /\ step = "controls" /\ Len(shapes) = 6
    BY <1>2, CasesAre DEF EndSelfCheck
  <2>2. ShapesMeasured' /\ SelfCheckPasses' = SelfCheckPasses
    BY <2>1, ControlsStay DEF ProbesInv
  <2>3. exit = 0
    BY <2>1 DEF ProbesInv
  <2>4. CASE SelfCheckPasses
    <3>1. step' = "measure" /\ exit' = 0
      BY <1>2, <2>3, <2>4 DEF EndSelfCheck
    <3> QED BY <2>1, <2>2, <2>4, <3>1 DEF ProbesInv
  <2>5. CASE ~SelfCheckPasses
    <3>1. step' = "ended" /\ exit' = 1
      BY <1>2, <2>5 DEF EndSelfCheck
    <3> QED BY <2>1, <2>2, <2>5, <3>1 DEF ProbesInv
  <2> QED BY <2>4, <2>5
<1>3. CASE Measure
  <2>1. UNCHANGED <<filler, shapes, reaches, exit>> /\ step = "measure" /\ step' = "sweep"
    BY <1>3 DEF Measure
  <2>2. ShapesMeasured' /\ SelfCheckPasses' = SelfCheckPasses
    BY <2>1, ControlsStay DEF ProbesInv
  <2>3. PICK b \in Behaviours, d \in BOOLEAN : subject' = [behaviour |-> b, shape |-> Probe(MeasuredSizes, b, d)]
    BY <1>3 DEF Measure
  <2>4. Probe(MeasuredSizes, b, d)' = Probe(MeasuredSizes, b, d)
    BY <2>1, ProbesSame
  <2>5. SubjectMeasured'
    BY <2>3, <2>4 DEF SubjectMeasured
  <2> QED BY <2>1, <2>2, <2>5 DEF ProbesInv
<1>4. CASE SweepNeedleRank
  <2>1. UNCHANGED <<filler, shapes, subject, exit>> /\ step = "sweep" /\ step' = "ended"
    BY <1>4 DEF SweepNeedleRank
  <2>2. ShapesMeasured' /\ SelfCheckPasses' = SelfCheckPasses
    BY <2>1, ControlsStay DEF ProbesInv
  <2>3. ReachesSwept'
    BY <1>4, <2>1 DEF SweepNeedleRank, ReachesSwept, Reach
  <2>4. SubjectMeasured'
    BY <2>1, SubjectStays DEF ProbesInv
  <2> QED BY <2>1, <2>2, <2>3, <2>4 DEF ProbesInv
<1>5. CASE UNCHANGED probesVars
  <2>1. UNCHANGED <<step, filler, shapes, subject, reaches, exit>>
    BY <1>5 DEF probesVars
  <2>2. ShapesMeasured' /\ SelfCheckPasses' = SelfCheckPasses
    BY <2>1, ControlsStay DEF ProbesInv
  <2>3. SubjectMeasured' = SubjectMeasured /\ ReachesSwept' = ReachesSwept
    BY <2>1, SubjectStays DEF ReachesSwept
  <2> QED BY <2>1, <2>2, <2>3 DEF ProbesInv
<1> QED BY <1>1, <1>2, <1>3, <1>4, <1>5 DEF ProbesNext

(* What was swept was swept for the responder the policy is advised for. *)
LEMMA ProbesInvHelps == ProbesInv /\ FillerLong => RecommendationHelps
<1> DEFINE deepest(p) == DeepestContiguousRank(reaches[p])
           advised == RecommendPolicy(subject.shape)
           b == subject.behaviour
<1> SUFFICES ASSUME ProbesInv, FillerLong, step = "ended", exit = 0
             PROVE  /\ deepest(advised) >= deepest("as_ranked")
                    /\ \A p, q \in Policies : Cardinality(reaches[p]) = Cardinality(reaches[q])
                    /\ b = "mid_blind" /\ Cardinality(reaches["as_ranked"]) > deepest("as_ranked")
                         => deepest(advised) > deepest("as_ranked")
  BY DEF RecommendationHelps
<1>1. PICK swept \in Corpora : reaches = [policy \in Policies |-> Reach(b, swept, policy)]
  BY DEF ProbesInv, ReachesSwept
<1>2. swept \in Corpus
  BY ProbesAssumption DEF Corpus
<1>3. PICK d \in BOOLEAN : b \in Behaviours /\ subject.shape = Probe(MeasuredSizes, b, d)
  BY DEF ProbesInv, SubjectMeasured
<1>4. b = "mid_blind" => advised = "edge_loaded"
  <2>1. b = "mid_blind" => subject.shape = "degrades_in_middle"
    BY <1>3, MidBlindMeasured
  <2> QED BY <2>1 DEF RecommendPolicy
<1>5. advised \in {"edge_loaded", "as_ranked"}
  BY DEF RecommendPolicy
<1>6. \A policy \in Policies : deepest(policy) = Cardinality(Unbroken(Reach(b, swept, policy)))
  BY <1>1 DEF DeepestContiguousRank, Unbroken
<1>7. \A p \in Policies : Cardinality(reaches[p]) = Cardinality(Places(b, swept)) /\ IsFiniteSet(reaches[p])
  BY <1>1, <1>2, ReachCount
<1>8. "as_ranked" \in Policies /\ "edge_loaded" \in Policies
  BY DEF Policies
<1>9. \A p \in Policies : deepest(p) \in Nat
  <2> SUFFICES ASSUME NEW p \in Policies PROVE Cardinality(Unbroken(reaches[p])) \in Nat
    BY DEF DeepestContiguousRank, Unbroken
  <2>1. Unbroken(reaches[p]) \in SUBSET reaches[p]
    BY DEF Unbroken
  <2>2. IsFiniteSet(Unbroken(reaches[p]))
    BY <1>7, <2>1, FS_Subset
  <2> QED BY <2>2, FS_CardinalityType
<1> HIDE DEF deepest, advised, b
<1>10. CASE b = "mid_blind"
  <2>1. /\ deepest("edge_loaded") >= deepest("as_ranked")
        /\ Cardinality(reaches["as_ranked"]) > deepest("as_ranked") => deepest("edge_loaded") > deepest("as_ranked")
    BY <1>1, <1>2, <1>6, <1>8, <1>10, EdgeReachesDeeper
  <2> QED BY <1>4, <1>7, <1>10, <2>1
<1>11. CASE b # "mid_blind"
  <2>1. \A p \in Policies : Reach(b, swept, p) = Places(b, swept)
    BY <1>2, <1>3, <1>11, PlainReach
  <2>2. deepest("edge_loaded") = deepest("as_ranked")
    BY <1>6, <1>8, <2>1
  <2>3. deepest(advised) = deepest("as_ranked")
    BY <1>5, <2>2
  <2> QED BY <1>7, <1>8, <1>9, <1>11, <2>3
<1> QED BY <1>10, <1>11

-----------------------------------------------------------------------------
(* So the controls get their shapes exactly when every size has decoys.  *)
LEMMA SelfCheckDecided ==
  ASSUME FillerLong, ShapesMeasured, Len(shapes) = 6
  PROVE  SelfCheckPasses <=> \A s \in GridSizes : filler[s].decoys
<1>1. /\ SelfCheckCases[1] = [behaviour |-> "perfect", distractors |-> FALSE, expected |-> "no_degradation_detected"]
      /\ SelfCheckCases[2] = [behaviour |-> "blind", distractors |-> FALSE, expected |-> "fails_everywhere"]
      /\ SelfCheckCases[3] = [behaviour |-> "mid_blind", distractors |-> FALSE, expected |-> "degrades_in_middle"]
      /\ SelfCheckCases[4] = [behaviour |-> "size_limited", distractors |-> FALSE, expected |-> "degrades_with_size"]
      /\ SelfCheckCases[5] = [behaviour |-> "perfect", distractors |-> TRUE, expected |-> "no_degradation_detected"]
      /\ SelfCheckCases[6] = [behaviour |-> "distractible", distractors |-> TRUE, expected |-> "fails_everywhere"]
  BY DEF SelfCheckCases
<1>2. /\ shapes[1] = Probe(GridSizes, "perfect", FALSE)
      /\ shapes[2] = Probe(GridSizes, "blind", FALSE)
      /\ shapes[3] = Probe(GridSizes, "mid_blind", FALSE)
      /\ shapes[4] = Probe(GridSizes, "size_limited", FALSE)
      /\ shapes[5] = Probe(GridSizes, "perfect", TRUE)
      /\ shapes[6] = Probe(GridSizes, "distractible", TRUE)
  <2>1. shapes[1] = Probe(GridSizes, "perfect", FALSE)
    <3>1. shapes[1] = Probe(GridSizes, SelfCheckCases[1].behaviour, SelfCheckCases[1].distractors)
      BY DEF ShapesMeasured
    <3>2. SelfCheckCases[1].behaviour = "perfect" /\ SelfCheckCases[1].distractors = FALSE
      BY <1>1
    <3> QED BY <3>1, <3>2
  <2>2. shapes[2] = Probe(GridSizes, "blind", FALSE)
    <3>1. shapes[2] = Probe(GridSizes, SelfCheckCases[2].behaviour, SelfCheckCases[2].distractors)
      BY DEF ShapesMeasured
    <3>2. SelfCheckCases[2].behaviour = "blind" /\ SelfCheckCases[2].distractors = FALSE
      BY <1>1
    <3> QED BY <3>1, <3>2
  <2>3. shapes[3] = Probe(GridSizes, "mid_blind", FALSE)
    <3>1. shapes[3] = Probe(GridSizes, SelfCheckCases[3].behaviour, SelfCheckCases[3].distractors)
      BY DEF ShapesMeasured
    <3>2. SelfCheckCases[3].behaviour = "mid_blind" /\ SelfCheckCases[3].distractors = FALSE
      BY <1>1
    <3> QED BY <3>1, <3>2
  <2>4. shapes[4] = Probe(GridSizes, "size_limited", FALSE)
    <3>1. shapes[4] = Probe(GridSizes, SelfCheckCases[4].behaviour, SelfCheckCases[4].distractors)
      BY DEF ShapesMeasured
    <3>2. SelfCheckCases[4].behaviour = "size_limited" /\ SelfCheckCases[4].distractors = FALSE
      BY <1>1
    <3> QED BY <3>1, <3>2
  <2>5. shapes[5] = Probe(GridSizes, "perfect", TRUE)
    <3>1. shapes[5] = Probe(GridSizes, SelfCheckCases[5].behaviour, SelfCheckCases[5].distractors)
      BY DEF ShapesMeasured
    <3>2. SelfCheckCases[5].behaviour = "perfect" /\ SelfCheckCases[5].distractors = TRUE
      BY <1>1
    <3> QED BY <3>1, <3>2
  <2>6. shapes[6] = Probe(GridSizes, "distractible", TRUE)
    <3>1. shapes[6] = Probe(GridSizes, SelfCheckCases[6].behaviour, SelfCheckCases[6].distractors)
      BY DEF ShapesMeasured
    <3>2. SelfCheckCases[6].behaviour = "distractible" /\ SelfCheckCases[6].distractors = TRUE
      BY <1>1
    <3> QED BY <3>1, <3>2
  <2> QED BY <2>1, <2>2, <2>3, <2>4, <2>5, <2>6
<1>3. /\ shapes[1] = "no_degradation_detected" /\ shapes[2] = "fails_everywhere"
      /\ shapes[3] = "degrades_in_middle" /\ shapes[4] = "degrades_with_size"
      /\ shapes[5] = "no_degradation_detected"
  BY <1>2, PerfectShape, BlindShape, MidBlindShape, SizeLimitedShape
<1>4. shapes[6] = "fails_everywhere" <=> \A s \in GridSizes : filler[s].decoys
  BY <1>2, DistractibleShape
<1>5. /\ SelfCheckCases[1].expected = shapes[1] /\ SelfCheckCases[2].expected = shapes[2]
      /\ SelfCheckCases[3].expected = shapes[3] /\ SelfCheckCases[4].expected = shapes[4]
      /\ SelfCheckCases[5].expected = shapes[5] /\ SelfCheckCases[6].expected = "fails_everywhere"
  BY <1>1, <1>3
<1>6. SelfCheckPasses => shapes[6] = "fails_everywhere"
  BY <1>5, CasesAre DEF SelfCheckPasses
<1>7. ASSUME shapes[6] = "fails_everywhere" PROVE SelfCheckPasses
  <2>1. \A i \in 1..6 : shapes[i] = SelfCheckCases[i].expected
    <3> SUFFICES ASSUME NEW i \in 1..6 PROVE shapes[i] = SelfCheckCases[i].expected
      OBVIOUS
    <3>1. i = 1 \/ i = 2 \/ i = 3 \/ i = 4 \/ i = 5 \/ i = 6
      OBVIOUS
    <3> QED BY <1>5, <1>7, <3>1
  <2>2. DistractorAxisIsLive
    BY <1>3, <1>7 DEF DistractorAxisIsLive
  <2> QED BY <2>1, <2>2, CasesAre DEF SelfCheckPasses
<1> QED BY <1>4, <1>6, <1>7

(* The seeds make it so.                                                 *)
LEMMA InitFillerLong == ProbesInit => FillerLong
<1> SUFFICES ASSUME ProbesInit, NEW s \in ProbeSizes
             PROVE  /\ filler[s].lines \in Nat /\ filler[s].lines >= 12
                    /\ filler[s].decoys \in BOOLEAN
  BY DEF FillerLong
<1>1. /\ filler \in [ProbeSizes -> [lines : UNION {FillerLines[r] : r \in ProbeSizes}, decoys : BOOLEAN]]
      /\ \A r \in ProbeSizes : filler[r].lines \in FillerLines[r]
  BY DEF ProbesInit
<1>2. filler[s].decoys \in BOOLEAN
  BY <1>1
<1>3. FillerLines[s] \subseteq Nat /\ \A n \in FillerLines[s] : n >= 12
  BY ProbesAssumption, GridAssumption
<1> QED BY <1>1, <1>2, <1>3

(* The filler is never changed.                                          *)
LEMMA FillerStays ==
  ASSUME [ProbesNext]_probesVars
  PROVE  filler' = filler
BY DEF ProbesNext, RunControl, EndSelfCheck, Measure, SweepNeedleRank, probesVars

(* Past the controls the exit code is what they said.                    *)
LEMMA ProbesInvLive == ProbesInv /\ FillerLong => SelfCheckIsLive
<1> SUFFICES ASSUME ProbesInv, FillerLong, step # "controls"
             PROVE  (exit = 0) <=> \A s \in GridSizes : filler[s].decoys
  BY DEF SelfCheckIsLive
<1>1. ShapesMeasured /\ Len(shapes) = 6 /\ (exit = 0 <=> SelfCheckPasses)
  BY DEF ProbesInv
<1> QED BY <1>1, SelfCheckDecided

(* The invariant of the instrument.                                      *)
LEMMA ProbesInvHolds == ProbesSpec => []ProbesInv
<1>1. ProbesInit => ProbesInv
  BY InitProbesInv
<1>2. ProbesInv /\ [ProbesNext]_probesVars => ProbesInv'
  BY NextProbesInv
<1> QED BY <1>1, <1>2, PTL DEF ProbesSpec

(* So it stays as long.                                                  *)
LEMMA FillerStaysLong == ProbesSpec => []FillerLong
<1>1. ProbesInit => FillerLong
  BY InitFillerLong
<1>2. FillerLong /\ [ProbesNext]_probesVars => FillerLong'
  <2> SUFFICES ASSUME FillerLong, [ProbesNext]_probesVars PROVE FillerLong'
    OBVIOUS
  <2> QED BY FillerStays DEF FillerLong
<1> QED BY <1>1, <1>2, PTL DEF ProbesSpec

(* For any grid of two sizes with the limit between them and any filler  *)
(* of a dozen lines or more, the self-check passes exactly when every    *)
(* size has decoys (context-degradation.ts:382-431).                     *)
THEOREM SelfChecksAreLive == ProbesSpec => []SelfCheckIsLive
<1>1. ProbesInv /\ FillerLong => SelfCheckIsLive
  BY ProbesInvLive
<1> QED BY <1>1, ProbesInvHolds, FillerStaysLong, PTL

(* For any corpora and any sizes measured the advised policy never       *)
(* reaches less deep than as ranked, deeper for a blind middle where a   *)
(* rank is left to reach, and no policy changes how many ranks are       *)
(* recalled (context.mjs:86-101).                                        *)
THEOREM RecommendationsHelp == ProbesSpec => []RecommendationHelps
<1>1. ProbesInv /\ FillerLong => RecommendationHelps
  BY ProbesInvHelps
<1> QED BY <1>1, ProbesInvHolds, FillerStaysLong, PTL

=============================================================================
