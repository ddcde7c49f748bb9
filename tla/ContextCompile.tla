--------------------------- MODULE ContextCompile ---------------------------
(***************************************************************************)
(* compileContext in src/src/context/compile.ts: the documents offered are *)
(* ranked, taken one after the other into a token budget, and laid out by  *)
(* a position policy.  A text is abstracted to its length in bytes, which  *)
(* is all estimateTokens looks at; a path and a score to the numbers they  *)
(* are compared by.                                                        *)
(***************************************************************************)
EXTENDS Integers, Sequences, FiniteSets, SequencesExt

CONSTANTS
  Inputs,      \* the sequences of documents a caller may offer
  Budgets,     \* budgetTokens
  Reserves,    \* reserveTokens
  PinSets      \* the sets of pinned paths

(* bytes is the length of the document as rendered, blank whether it has   *)
(* only white space.                                                       *)
Documents == [path : Nat, score : Int, bytes : Nat, blank : BOOLEAN]

ASSUME InputsAssumption == Inputs \subseteq Seq(Documents)
ASSUME TokensAssumption == Budgets \subseteq Nat /\ Reserves \subseteq Nat

VARIABLES
  phase,       \* "ranking", "filling", "compiled"
  documents,   \* the input
  available,   \* the budget without the reserve
  pinned,
  ranked,      \* the documents by relevance
  next,        \* rank of the next document to consider
  seen,        \* paths met so far
  used,        \* tokens charged so far
  cutoffRank,  \* rank of the budget cut, or NoCut
  included,    \* ranks, in the order they were taken
  excluded,    \* [rank, reason], in the order they were refused
  rendered,    \* bytes of the included texts, each with its separator
  result       \* what is returned: the layout and the size of the text

vars == <<phase, documents, available, pinned, ranked, next, seen, used,
          cutoffRank, included, excluded, rendered, result>>

NoCut == 0
Policies == {"as_ranked", "edge_loaded", "tail_loaded"}
Reasons == {"duplicate_path", "empty", "exceeds_budget_alone", "over_budget"}

HeaderBytes == 44
SeparatorBytes == 2

(* Seeded fault: an incomplete group of four bytes is not counted.         *)
EstimateDown(bytes) == bytes \div 4

EstimateTokens(bytes) == (bytes + 3) \div 4

DocumentTokens(doc) == EstimateTokens(doc.bytes) + 1
HeaderTokens == EstimateTokens(HeaderBytes) + 1

NonNegative(n) == IF n < 0 THEN 0 ELSE n

Init ==
  /\ phase = "ranking"
  /\ documents \in Inputs
  /\ \E budget \in Budgets, reserve \in Reserves :
       available = NonNegative(budget - reserve)
  /\ pinned \in PinSets
  /\ ranked = <<>>
  /\ next = 1
  /\ seen = {}
  /\ used = HeaderTokens
  /\ cutoffRank = NoCut
  /\ included = <<>>
  /\ excluded = <<>>
  /\ rendered = 0
  /\ result = [layout |-> <<>>, total_tokens |-> 0]

-----------------------------------------------------------------------------
(* Pinned first, then the score, then the path, then the input position.   *)
Precedes(i, j) ==
  LET a == documents[i]
      b == documents[j]
  IN IF (a.path \in pinned) # (b.path \in pinned) THEN a.path \in pinned
     ELSE IF a.score # b.score THEN a.score > b.score
     ELSE IF a.path # b.path THEN a.path < b.path
     ELSE i < j

Rank ==
  /\ phase = "ranking"
  /\ \E order \in [1..Len(documents) -> 1..Len(documents)] :
       /\ \A r, s \in 1..Len(documents) : r < s => Precedes(order[r], order[s])
       /\ ranked' = [r \in 1..Len(documents) |-> documents[order[r]]]
  /\ phase' = "filling"
  /\ UNCHANGED <<documents, available, pinned, next, seen, used, cutoffRank,
                 included, excluded, rendered, result>>

-----------------------------------------------------------------------------
(* The fill: the conditions on the next document, in the order they are    *)
(* asked.                                                                  *)
Doc == ranked[next]

Duplicate == Doc.path \in seen
Blank == ~Duplicate /\ Doc.blank
TooLargeAlone == ~Duplicate /\ ~Doc.blank /\ DocumentTokens(Doc) > available
Candidate == ~Duplicate /\ ~Doc.blank /\ DocumentTokens(Doc) <= available

(* Seeded fault: the fill goes on below the cut.                           *)
NeverBelowCut == FALSE

BelowCut == cutoffRank # NoCut

(* Seeded fault: the header is not charged.                                *)
FitsWithoutHeader == used - HeaderTokens + DocumentTokens(Doc) <= available

Fits == used + DocumentTokens(Doc) <= available

Considers ==
  /\ phase = "filling"
  /\ next <= Len(ranked)
  /\ next' = next + 1
  /\ UNCHANGED <<phase, documents, available, pinned, ranked, result>>

Exclude(reason) ==
  /\ excluded' = Append(excluded, [rank |-> next, reason |-> reason])
  /\ UNCHANGED <<used, included, rendered>>

ExcludeDuplicate ==
  /\ Considers /\ Duplicate
  /\ Exclude("duplicate_path")
  /\ UNCHANGED <<seen, cutoffRank>>

ExcludeEmpty ==
  /\ Considers /\ Blank
  /\ Exclude("empty")
  /\ seen' = seen \cup {Doc.path}
  /\ UNCHANGED cutoffRank

ExcludeTooLarge ==
  /\ Considers /\ TooLargeAlone
  /\ Exclude("exceeds_budget_alone")
  /\ seen' = seen \cup {Doc.path}
  /\ UNCHANGED cutoffRank

ExcludeBelowCut ==
  /\ Considers /\ Candidate /\ BelowCut
  /\ Exclude("over_budget")
  /\ seen' = seen \cup {Doc.path}
  /\ UNCHANGED cutoffRank

CutHere ==
  /\ Considers /\ Candidate /\ ~BelowCut /\ ~Fits
  /\ Exclude("over_budget")
  /\ seen' = seen \cup {Doc.path}
  /\ cutoffRank' = next

Include ==
  /\ Considers /\ Candidate /\ ~BelowCut /\ Fits
  /\ used' = used + DocumentTokens(Doc)
  /\ included' = Append(included, next)
  /\ rendered' = rendered + SeparatorBytes + Doc.bytes
  /\ seen' = seen \cup {Doc.path}
  /\ UNCHANGED <<cutoffRank, excluded>>

-----------------------------------------------------------------------------
(* applyPolicy: every other document from the head, the rest from the tail *)
(* inwards.                                                                *)
EveryOther(s, first) ==
  [k \in 1..((Len(s) - first) \div 2 + 1) |-> s[first + 2 * (k - 1)]]

(* Seeded fault: the tail starts with the last document of the head.       *)
PolicyRepeating(s, policy) ==
  CASE policy = "as_ranked" -> s
    [] policy = "tail_loaded" -> Reverse(s)
    [] policy = "edge_loaded" -> EveryOther(s, 1) \o Reverse(EveryOther(s, 1))

ApplyPolicy(s, policy) ==
  CASE policy = "as_ranked" -> s
    [] policy = "tail_loaded" -> Reverse(s)
    [] policy = "edge_loaded" -> EveryOther(s, 1) \o Reverse(EveryOther(s, 2))

(* The text: nothing at all when nothing was included, else the header and *)
(* the documents, joined by separators.                                    *)
TextBytes == IF included = <<>> THEN 0 ELSE HeaderBytes + rendered

Emit(policy) ==
  /\ phase = "filling"
  /\ next > Len(ranked)
  /\ phase' = "compiled"
  /\ result' = [layout |-> ApplyPolicy(included, policy),
                total_tokens |-> EstimateTokens(TextBytes)]
  /\ UNCHANGED <<documents, available, pinned, ranked, next, seen, used,
                 cutoffRank, included, excluded, rendered>>

Next ==
  \/ Rank
  \/ ExcludeDuplicate \/ ExcludeEmpty \/ ExcludeTooLarge
  \/ ExcludeBelowCut \/ CutHere \/ Include
  \/ \E policy \in Policies : Emit(policy)

Spec == Init /\ [][Next]_vars

-----------------------------------------------------------------------------
TypeOK ==
  /\ phase \in {"ranking", "filling", "compiled"}
  /\ documents \in Seq(Documents)
  /\ available \in Nat
  /\ ranked \in Seq(Documents)
  /\ next \in Nat \ {0}
  /\ used \in Nat
  /\ cutoffRank \in Nat
  /\ included \in Seq(Nat)
  /\ excluded \in Seq([rank : Nat, reason : Reasons])
  /\ rendered \in Nat
  /\ result.total_tokens \in Nat

(* The emitted text, header and separators and all, never estimates above  *)
(* the budget without the reserve, though the fill adds up estimates of    *)
(* the parts and never looks at the text (compile.ts:189-195, 242).        *)
WithinBudget == result.total_tokens <= available

ExcludedRanks == {excluded[k].rank : k \in DOMAIN excluded}
Taken(rank) == \E k \in DOMAIN included : included[k] = rank
RefusedByItself(rank) ==
  \E j \in DOMAIN excluded :
    /\ excluded[j].rank = rank
    /\ excluded[j].reason \in {"duplicate_path", "empty", "exceeds_budget_alone"}

(* Whatever the policy, every document offered is returned exactly once,   *)
(* included or excluded: none is lost, laid out twice, or left without a   *)
(* reason (compile.ts:128-140, 237-241).                                   *)
EveryDocumentOnce ==
  phase = "compiled" =>
    /\ IsInjective(result.layout)
    /\ Range(result.layout) \cap ExcludedRanks = {}
    /\ Range(result.layout) \cup ExcludedRanks = 1..Len(documents)
    /\ Len(result.layout) + Len(excluded) = Len(documents)

(* A document is passed over for a lower-ranked one only when it was a     *)
(* repetition, empty, or larger than the whole budget, and never because   *)
(* the other one was smaller (compile.ts:145-157).                         *)
NothingPromoted ==
  \A k \in DOMAIN included : \A rank \in 1..(included[k] - 1) :
    Taken(rank) \/ RefusedByItself(rank)
=============================================================================
