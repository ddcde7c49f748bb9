----------------------------- MODULE HeldoutDiff -----------------------------
(***************************************************************************)
(* diffReturnedFile in src/src/heldout/diff.ts: Myers' greedy edit script  *)
(* between a base file and the returned one, after their common ends are   *)
(* trimmed, and its edits joined into hunks.  A line is a model value or a *)
(* number.                                                                 *)
(***************************************************************************)
EXTENDS Integers, Sequences, FiniteSets

CONSTANTS
  Lines,           \* what a line may be
  MaxLines,        \* bound: lines of a file
  EditCaps         \* the values of maxEditDistance explored

ASSUME DiffAssumption == MaxLines \in Nat /\ EditCaps \subseteq Nat

VARIABLES
  base, returned,  \* the two files, as lines
  editCap,
  script           \* editScript's result

diffVars == <<base, returned, editCap, script>>

DiffFiles == UNION {[1..n -> Lines] : n \in 0..MaxLines}
Lesser(i, j) == IF i < j THEN i ELSE j

-----------------------------------------------------------------------------
\* The most lines both sequences begin with.
CommonPrefix(a, b) ==
  LET same == {k \in 0..Lesser(Len(a), Len(b)) : \A i \in 1..k : a[i] = b[i]}
  IN  CHOOSE k \in same : \A j \in same : j <= k

\* Seeded fault: the common end may run into the common beginning.
CommonSuffixOverlapping(a, b, prefix) ==
  LET same == {k \in 0..Lesser(Len(a), Len(b)) :
                 \A i \in 0..(k - 1) : a[Len(a) - i] = b[Len(b) - i]}
  IN  CHOOSE k \in same : \A j \in same : j <= k
\* The most lines both end with after that.
CommonSuffix(a, b, prefix) ==
  LET same == {k \in 0..(Lesser(Len(a), Len(b)) - prefix) :
                 \A i \in 0..(k - 1) : a[Len(a) - i] = b[Len(b) - i]}
  IN  CHOOSE k \in same : \A j \in same : j <= k

\* As far as both go on alike, from x and y lines on.
Snake(a, b, x, y) == x + CommonPrefix(SubSeq(a, x + 1, Len(a)), SubSeq(b, y + 1, Len(b)))

(***************************************************************************)
(* The furthest x on diagonal k with d edits.  The step to diagonal k was  *)
(* an insertion from k + 1, or a deletion from k - 1.                      *)
(***************************************************************************)
Insertion(v, d, k) == k = -d \/ (k # d /\ v[k - 1] < v[k + 1])
Before(v, d, k) == IF Insertion(v, d, k) THEN v[k + 1] ELSE v[k - 1] + 1

Furthest(a, b, cap) ==
  LET f[d \in 0..cap] ==
        LET v == IF d = 0 THEN [k \in {1} |-> 0] ELSE f[d - 1]
        IN  [k \in {j \in -d..d : (j + d) % 2 = 0} |->
               LET x == Before(v, d, k)
               IN  IF x > Len(a) \/ x - k > Len(b) THEN x ELSE Snake(a, b, x, x - k)]
  IN  f

Reaches(a, b, v) == \E k \in DOMAIN v : v[k] >= Len(a) /\ v[k] - k >= Len(b)

\* Backwards from the ends: one edit for each d, at the base line it is before.
Edits(a, b, f, found) ==
  LET back[d \in 0..found] ==
        IF d = found THEN [x |-> Len(a), y |-> Len(b), edits |-> <<>>]
        ELSE LET at == back[d + 1]
                 k == at.x - at.y
                 ins == Insertion(f[d], d + 1, k)
                 x == IF ins THEN f[d][k + 1] ELSE f[d][k - 1]
             IN  [x |-> x, y |-> x - (IF ins THEN k + 1 ELSE k - 1),
                  edits |-> <<[ins |-> ins, at |-> x]>> \o at.edits]
  IN  back[0].edits

(***************************************************************************)
(* Edits at the same base line or the next one are one hunk.               *)
(***************************************************************************)
JoinEdit(hunks, e, lastBase, prefix) ==
  IF hunks # <<>> /\ e.at <= lastBase + 1
  THEN LET last == hunks[Len(hunks)]
       IN  [hunks EXCEPT ![Len(hunks)] =
              IF e.ins THEN [last EXCEPT !.added = last.added + 1]
              ELSE [last EXCEPT !.removed = last.removed + 1]]
  ELSE Append(hunks, [start |-> prefix + e.at + 1,
                      removed |-> IF e.ins THEN 0 ELSE 1, added |-> IF e.ins THEN 1 ELSE 0])

Hunks(edits, prefix) ==
  LET h[i \in 0..Len(edits)] ==
        IF i = 0 THEN <<>>
        ELSE JoinEdit(h[i - 1], edits[i], IF i = 1 THEN -2 ELSE edits[i - 1].at, prefix)
  IN  h[Len(edits)]

Whole(start, removed, added, truncated) ==
  [hunks |-> IF removed = 0 /\ added = 0 THEN <<>>
             ELSE <<[start |-> start, removed |-> removed, added |-> added]>>,
   removed |-> removed, added |-> added, truncated |-> truncated]

EditScript(a, b, maxD) ==
  LET prefix == CommonPrefix(a, b)
      suffix == CommonSuffix(a, b, prefix)
      aMid == SubSeq(a, prefix + 1, Len(a) - suffix)
      bMid == SubSeq(b, prefix + 1, Len(b) - suffix)
      cap == Lesser(maxD, Len(aMid) + Len(bMid))
      f == Furthest(aMid, bMid, cap)
      hits == {d \in 0..cap : Reaches(aMid, bMid, f[d])}
      edits == Edits(aMid, bMid, f, CHOOSE d \in hits : \A e \in hits : d <= e)
  IN  IF aMid = <<>> THEN Whole(prefix, 0, Len(bMid), FALSE)
      ELSE IF bMid = <<>> THEN Whole(prefix + 1, Len(aMid), 0, FALSE)
      ELSE IF hits = {} THEN Whole(prefix + 1, Len(aMid), Len(bMid), TRUE)
      ELSE [hunks |-> Hunks(edits, prefix), truncated |-> FALSE,
            removed |-> Cardinality({i \in DOMAIN edits : ~edits[i].ins}),
            added |-> Cardinality({i \in DOMAIN edits : edits[i].ins})]

-----------------------------------------------------------------------------
NoScript == Whole(0, 0, 0, FALSE)

DiffReturnedFile ==
  /\ script = NoScript
  /\ script' = EditScript(base, returned, editCap)
  /\ UNCHANGED <<base, returned, editCap>>

DiffInit ==
  /\ base \in DiffFiles /\ returned \in DiffFiles /\ editCap \in EditCaps
  /\ script = NoScript

DiffSpec == DiffInit /\ [][DiffReturnedFile]_diffVars

-----------------------------------------------------------------------------
\* The length of a longest common subsequence, by its textbook recurrence.
LongestCommon(a, b) ==
  LET c[p \in (0..Len(a)) \X (0..Len(b))] ==
        LET i == p[1]
            j == p[2]
        IN  IF i = 0 \/ j = 0 THEN 0
            ELSE IF a[i] = b[j] THEN c[<<i - 1, j - 1>>] + 1
            ELSE IF c[<<i - 1, j>>] > c[<<i, j - 1>>] THEN c[<<i - 1, j>>] ELSE c[<<i, j - 1>>]
  IN  c[<<Len(a), Len(b)>>]

SumOf(numbers) ==
  LET s[i \in 0..Len(numbers)] == IF i = 0 THEN 0 ELSE s[i - 1] + numbers[i]
  IN  s[Len(numbers)]

(***************************************************************************)
(* The counts are those of a smallest edit script and add up over the      *)
(* hunks; a result is called truncated only when every script is longer    *)
(* than the cap, so a rewrite never passes for a small change nor a small  *)
(* change for a rewrite (diff.ts:97-99).                                   *)
(***************************************************************************)
DiffIsMinimal ==
  script # NoScript =>
    LET common == LongestCommon(base, returned)
        removed == Len(base) - common
        added == Len(returned) - common
    IN  /\ script.truncated => removed + added > editCap
        /\ ~script.truncated => script.removed = removed /\ script.added = added
        /\ SumOf([i \in DOMAIN script.hunks |-> script.hunks[i].removed]) = script.removed
        /\ SumOf([i \in DOMAIN script.hunks |-> script.hunks[i].added]) = script.added

(***************************************************************************)
(* A hunk is said to begin at "1-based first base line the hunk touches"   *)
(* (diff.ts:38) and counts the base lines it removes, by which it is held  *)
(* against the cited regions.  Then what no hunk removes is in the returned*)
(* file, in the same order.                                                *)
(***************************************************************************)
HunksNameRemovedLines ==
  script # NoScript /\ ~script.truncated =>
    LET gone == UNION {h.start..(h.start + h.removed - 1) : h \in {script.hunks[i] : i \in DOMAIN script.hunks}}
        kept == SelectSeq([i \in DOMAIN base |-> i], LAMBDA i : i \notin gone)
    IN  LongestCommon([i \in DOMAIN kept |-> base[kept[i]]], returned) = Len(kept)
=============================================================================
