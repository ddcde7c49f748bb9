---------------------------- MODULE ContextProbes ----------------------------
(***************************************************************************)
(* The long-context instrument, as scripts/probes/context.mjs runs it: the *)
(* degradation probe (context-degradation.ts) checks itself on responders  *)
(* of known behaviour, measures one, and names the position policy for the *)
(* shape it found; the policy comparison (policy-ab.ts) then sweeps the    *)
(* needed document down the ranking under every policy.                    *)
(*                                                                         *)
(* A text is the number of its lines and the line the needle is on.        *)
(* Depths are percentages; recall is a count of hits over a count of cells.*)
(***************************************************************************)
EXTENDS ContextCompile

CONSTANTS
  GridSizes, Depths, \* the self-check's grid
  MeasuredSizes,     \* the sizes of the measurement, at the same depths
  LimitTokens,       \* the size-limited responder's cliff
  FillerLines,       \* for each size, the numbers of filler lines it may take
  Corpora            \* the corpora swept: documents, their lines, room for documents

Behaviours == {"perfect", "blind", "mid_blind", "size_limited", "distractible"}

ProbeSizes == GridSizes \cup MeasuredSizes

ASSUME ProbesAssumption ==
  /\ ProbeSizes \subseteq Nat /\ Depths \subseteq 0..100 /\ LimitTokens \in Nat
  /\ FillerLines \in [ProbeSizes -> SUBSET Nat]
  /\ Corpora \subseteq [documents : Nat \ {0}, lines : Nat, room : Nat]

(* SELF_CHECK_GRID has a size on each side of SELF_CHECK_LIMIT_TOKENS; the *)
(* depths are the same five in both grids; no line is so long that a dozen *)
(* fill a size.                                                            *)
ASSUME GridAssumption ==
  /\ \E s, t \in GridSizes : s <= LimitTokens /\ LimitTokens < t /\ GridSizes = {s, t}
  /\ \E largest \in MeasuredSizes : \A s \in MeasuredSizes : s <= largest
  /\ Depths = {0, 25, 50, 75, 100}
  /\ \A s \in ProbeSizes : \A n \in FillerLines[s] : n >= 12

VARIABLES
  step,    \* "controls", "measure", "sweep", "ended"
  filler,  \* for each size: how many lines, and whether decoys are among them
  shapes,  \* the self-check's results so far: a shape for each control
  subject, \* the responder that is measured, and the shape found
  reaches, \* of the sweep: for each policy the ranks recalled
  exit

probesVars == <<step, filler, shapes, subject, reaches, exit>>

-----------------------------------------------------------------------------
(***************************************************************************)
(* One cell of the grid.                                                   *)
(***************************************************************************)
\* Where Math.round(depth * lines.length) puts it.
NeedleLine(depth, lines) == (2 * depth * lines + 100) \div 200

\* A filler line's worth above or below the size, which no limit comes near.
Answers(behaviour, line, lastLine, tokens, decoy) ==
  CASE behaviour = "perfect" -> TRUE
    [] behaviour = "blind" -> FALSE
    [] behaviour = "mid_blind" -> 100 * line <= 15 * lastLine \/ 100 * line >= 85 * lastLine
    [] behaviour = "size_limited" -> tokens <= LimitTokens
    [] behaviour = "distractible" -> ~decoy

\* After the filler and the needle come an empty line and the question.
Recalled(behaviour, distractors, size, depth) ==
  LET f == filler[size]
  IN  Answers(behaviour, NeedleLine(depth, f.lines), f.lines + 2, size, distractors /\ f.decoys)

(***************************************************************************)
(* The shape of a grid.  Mean(a) > Mean(b) + 1/4, in integers; no cells    *)
(* count as recall 0.                                                      *)
(***************************************************************************)
Recall(behaviour, distractors, cells) ==
  [hits |-> Cardinality({c \in cells : Recalled(behaviour, distractors, c[1], c[2])}),
   of |-> IF cells = {} THEN 1 ELSE Cardinality(cells)]

Drops(high, low) == 4 * (high.hits * low.of - low.hits * high.of) > high.of * low.of

IsEdge(depth) == depth <= 15 \/ depth >= 85

Smallest(sizes) == CHOOSE s \in sizes : \A t \in sizes : s <= t
Largest(sizes) == CHOOSE s \in sizes : \A t \in sizes : s >= t

Classify(small, large, edges, middle, overall) ==
  IF 4 * overall.hits <= overall.of THEN "fails_everywhere"
  ELSE IF Drops(small, large) /\ Drops(edges, middle) THEN "degrades_with_size_and_in_middle"
  ELSE IF Drops(small, large) THEN "degrades_with_size"
  ELSE IF Drops(edges, middle) THEN "degrades_in_middle" ELSE "no_degradation_detected"

Probe(sizes, behaviour, distractors) ==
  LET R(cells) == Recall(behaviour, distractors, cells)
      inner == {d \in Depths : ~IsEdge(d)}
  IN  Classify(R({Smallest(sizes)} \X Depths), R({Largest(sizes)} \X Depths),
               R(sizes \X (Depths \ inner)), R(sizes \X inner), R(sizes \X Depths))

(***************************************************************************)
(* The self-check: each control with the shape it has to get.              *)
(***************************************************************************)
SelfCheckCases ==
  <<[behaviour |-> "perfect", distractors |-> FALSE, expected |-> "no_degradation_detected"],
    [behaviour |-> "blind", distractors |-> FALSE, expected |-> "fails_everywhere"],
    [behaviour |-> "mid_blind", distractors |-> FALSE, expected |-> "degrades_in_middle"],
    [behaviour |-> "size_limited", distractors |-> FALSE, expected |-> "degrades_with_size"],
    [behaviour |-> "perfect", distractors |-> TRUE, expected |-> "no_degradation_detected"],
    [behaviour |-> "distractible", distractors |-> TRUE, expected |-> "fails_everywhere"]>>

RunControl ==
  /\ step = "controls" /\ Len(shapes) < Len(SelfCheckCases)
  /\ LET c == SelfCheckCases[Len(shapes) + 1]
     IN  shapes' = Append(shapes, Probe(GridSizes, c.behaviour, c.distractors))
  /\ UNCHANGED <<step, filler, subject, reaches, exit>>

\* The distractors move a responder that matches shapes and no other.
DistractorAxisIsLive == shapes[6] # "no_degradation_detected" /\ shapes[5] = "no_degradation_detected"

\* Seeded fault: a live axis is enough.
SelfCheckAxisOnly == DistractorAxisIsLive
SelfCheckPasses ==
  /\ \A i \in DOMAIN SelfCheckCases : shapes[i] = SelfCheckCases[i].expected
  /\ DistractorAxisIsLive

EndSelfCheck ==
  /\ step = "controls" /\ Len(shapes) = Len(SelfCheckCases)
  /\ IF SelfCheckPasses THEN step' = "measure" /\ UNCHANGED exit
     ELSE step' = "ended" /\ exit' = 1
  /\ UNCHANGED <<filler, shapes, subject, reaches>>

Measure ==
  /\ step = "measure"
  /\ \E b \in Behaviours, d \in BOOLEAN :
       subject' = [behaviour |-> b, shape |-> Probe(MeasuredSizes, b, d)]
  /\ step' = "sweep"
  /\ UNCHANGED <<filler, shapes, reaches, exit>>

\* Seeded fault: the least relevant material goes to the head.
RecommendTail(shape) == IF shape = "degrades_in_middle" THEN "tail_loaded" ELSE "as_ranked"
RecommendPolicy(shape) ==
  IF shape \in {"degrades_in_middle", "degrades_with_size_and_in_middle"}
  THEN "edge_loaded" ELSE "as_ranked"

-----------------------------------------------------------------------------
(***************************************************************************)
(* The sweep.  Documents of one length, of which the needle's is a line    *)
(* longer; the compiled text has the header, and before every document an  *)
(* empty line; the needle is in the middle of its document.                *)
(***************************************************************************)
TokensPerLine == 6

\* The budget takes a prefix of the ranking; the needle's document is larger.
MembersUpTo(corpus, rank) ==
  LET fits == {k \in 0..corpus.documents : k + (IF rank <= k THEN 1 ELSE 0) <= corpus.room}
  IN  CHOOSE k \in fits : \A j \in fits : j <= k

\* Recall of the document at this rank, compiled under this policy.
ComparePolicies(behaviour, corpus, rank, policy) ==
  LET n == MembersUpTo(corpus, rank)
      layout == ApplyPolicy([r \in 1..n |-> r], policy)
      block == corpus.lines + 5
      line(p) == 4 + (p - 1) * block + corpus.lines \div 2
  IN  \E p \in 1..n : /\ layout[p] = rank
                      /\ Answers(behaviour, line(p), n * block + 3, TokensPerLine * n * block, FALSE)

DeepestContiguousRank(ranks) == Cardinality({r \in ranks : 1..r \subseteq ranks})

SweepNeedleRank ==
  /\ step = "sweep"
  /\ \E corpus \in Corpora :
       reaches' = [policy \in Policies |->
                    {r \in 1..corpus.documents :
                       ComparePolicies(subject.behaviour, corpus, r, policy)}]
  /\ step' = "ended"
  /\ UNCHANGED <<filler, shapes, subject, exit>>

ProbesInit ==
  /\ step = "controls" /\ shapes = <<>> /\ exit = 0
  /\ filler \in {f \in [ProbeSizes -> [lines : UNION {FillerLines[s] : s \in ProbeSizes},
                                       decoys : BOOLEAN]] :
                   \A s \in ProbeSizes : f[s].lines \in FillerLines[s]}
  /\ subject = [behaviour |-> "perfect", shape |-> "unknown"]
  /\ reaches = [policy \in Policies |-> {}]

ProbesNext == RunControl \/ EndSelfCheck \/ Measure \/ SweepNeedleRank

ProbesSpec == ProbesInit /\ [][ProbesNext]_probesVars

-----------------------------------------------------------------------------
(***************************************************************************)
(* The self-check tells all controls apart, whatever filler the seeds gave,*)
(* and refuses to go on when a size has no decoys, so that a responder     *)
(* that falls for them is never reported as reading                        *)
(* (context-degradation.ts:382-431).                                       *)
(***************************************************************************)
SelfCheckIsLive ==
  step # "controls" => ((exit = 0) <=> \A s \in GridSizes : filler[s].decoys)

(***************************************************************************)
(* The policy recommended for the shape measured never reaches less deep   *)
(* into the ranking than leaving the documents as ranked; for a blind spot *)
(* in the middle it reaches deeper wherever one is left to reach; and no   *)
(* policy changes how many ranks are recalled (context.mjs:86-101).        *)
(***************************************************************************)
RecommendationHelps ==
  step = "ended" /\ exit = 0 =>
    LET deepest(p) == DeepestContiguousRank(reaches[p])
        advised == RecommendPolicy(subject.shape)
    IN  /\ deepest(advised) >= deepest("as_ranked")
        /\ \A p, q \in Policies : Cardinality(reaches[p]) = Cardinality(reaches[q])
        /\ subject.behaviour = "mid_blind" /\ Cardinality(reaches["as_ranked"]) > deepest("as_ranked")
             => deepest(advised) > deepest("as_ranked")
=============================================================================
