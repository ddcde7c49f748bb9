-------------------------- MODULE HeldoutSufficiency --------------------------
(***************************************************************************)
(* The sufficiency gates of scripts/gate-h-heldout/check-sufficiency.mjs,  *)
(* over prompt.ts, sufficiency.ts, tokens.ts and stubs.ts of               *)
(* src/src/heldout, and the dry run with the noop stub the gates are to    *)
(* spare a surprise.  A text is a sequence of lines, a line a string.      *)
(***************************************************************************)
EXTENDS Integers, Sequences, FiniteSets, SequencesExt

CONSTANTS
  TextLines,   \* the lines a text may have
  TaskCorpora, \* sequences of tasks
  PromptArms,
  Protocols,   \* [template, claims, tools, store, cap, headroom]
  Filters,     \* what --only may say, "" for nothing
  Substantial, \* the lines of more than 12 characters
  LineBytes    \* bytes a line takes in the answer's JSON

\* missing: the paths git cannot show.  T0 has no assistance.
Task ==
  [issue : Seq(TextLines), sources : Seq([path : STRING, lines : Seq(TextLines)]),
   missing : SUBSET STRING, assistance : [PromptArms \ {"T0"} -> Seq(TextLines)]]

ASSUME SufficiencyAssumption ==
  /\ LineBytes \in Nat /\ PromptArms # {}
  /\ \A p \in Protocols : p.cap \in Nat /\ p.headroom \in Nat /\ p.template \in Seq(TextLines)
\* A task names each path once.
ASSUME CorporaAssumption ==
  \A c \in TaskCorpora : c \in Seq(Task) /\ \A t \in ToSet(c) :
    \A i, j \in DOMAIN t.sources : t.sources[i].path = t.sources[j].path => i = j

VARIABLES
  corpus, protocol, filter,
  measured,     \* tasks measured so far
  completeness, \* completenessRows: [task, arm, path, present]
  caps,         \* capRows: [task, required, fits]
  missing,      \* files no commit shows: [task, path]
  sufExit,      \* the exit code, -1 before it
  dryRun        \* the dry run's: [task, arm, files] of each one's answer

sufVars == <<corpus, protocol, filter, measured, completeness, caps, missing, sufExit, dryRun>>

-----------------------------------------------------------------------------
(* prompt.ts *)

Opener(path) == "<file path=" \o path \o ">"
Closer(path) == "</file path=" \o path \o ">"

RenderSourceBlock(sources) ==
  FlattenSeq([i \in DOMAIN sources |->
    <<Opener(sources[i].path)>> \o sources[i].lines \o <<Closer(sources[i].path)>>])

Substitute(text, placeholder, value) ==
  FlattenSeq([i \in DOMAIN text |-> IF text[i] = placeholder THEN value ELSE <<text[i]>>])

\* Seeded fault: one placeholder after the other, each in what the last left.
FillTemplateInTurn(template, values) ==
  Substitute(Substitute(Substitute(template, "{{ISSUE}}", values.ISSUE),
                        "{{SOURCE}}", values.SOURCE), "{{ASSISTANCE}}", values.ASSISTANCE)
\* Every placeholder at once; what comes in is not looked at again.
FillTemplate(template, values) ==
  FlattenSeq([i \in DOMAIN template |->
    CASE template[i] = "{{ISSUE}}" -> values.ISSUE
      [] template[i] = "{{SOURCE}}" -> values.SOURCE
      [] template[i] = "{{ASSISTANCE}}" -> values.ASSISTANCE
      [] OTHER -> <<template[i]>>])

\* T0 gets no assistance, an assisted arm its packet between two tags.
RenderAssistance(payload) == <<"<assistance>">> \o payload \o <<"</assistance>">>

BuildTaskPrompt(task, arm) ==
  FillTemplate(protocol.template,
    [ISSUE |-> task.issue, SOURCE |-> RenderSourceBlock(task.sources),
     ASSISTANCE |-> IF arm = "T0" THEN <<>> ELSE RenderAssistance(task.assistance[arm])])

(***************************************************************************)
(* The files between an opener and the first closer of its path after it,  *)
(* read from the start; an opener nothing closes is passed over.           *)
(***************************************************************************)
ParseSourceBlocks(prompt, paths) ==
  LET from[i \in 1..(Len(prompt) + 1)] ==
        IF i = Len(prompt) + 1 THEN <<>>
        ELSE LET opened == {p \in paths : prompt[i] = Opener(p)}
                 ends == {j \in (i + 1)..Len(prompt) : \E p \in opened : prompt[j] = Closer(p)}
                 end == CHOOSE j \in ends : \A k \in ends : j <= k
             IN  IF ends = {} THEN from[i + 1]
                 ELSE <<[path |-> CHOOSE p \in opened : TRUE,
                         lines |-> SubSeq(prompt, i + 1, end - 1)]>> \o from[end + 1]
  IN  from[1]

-----------------------------------------------------------------------------
(* stubs.ts *)

PathsOf(task) == {task.sources[i].path : i \in DOMAIN task.sources}

TaskPaths == UNION {UNION {PathsOf(t) : t \in ToSet(c)} : c \in TaskCorpora}

\* Two paths have two markers each, and no template has the marker of a file.
ASSUME MarkersAssumption ==
  /\ {"<assistance>", "</assistance>"} \subseteq TextLines
  /\ \A p, q \in TaskPaths :
       /\ {Opener(p), Closer(p)} \subseteq TextLines /\ Opener(p) # Closer(q)
       /\ Opener(p) = Opener(q) \/ Closer(p) = Closer(q) => p = q
  /\ \A p \in TaskPaths, line \in {"<assistance>", "</assistance>"}
                                   \cup UNION {ToSet(x.template) : x \in Protocols} :
       line \notin {Opener(p), Closer(p)}

\* What the prompt carries of the permitted paths, a later block over an
\* earlier one; nothing at all when it carries one of them not.
NoopStub(prompt, paths) ==
  LET blocks == ParseSourceBlocks(prompt, paths)
      last(p) == CHOOSE i \in DOMAIN blocks : blocks[i].path = p
                   /\ \A j \in DOMAIN blocks : blocks[j].path = p => j <= i
  IN  IF \E p \in paths : \A i \in DOMAIN blocks : blocks[i].path # p THEN {}
      ELSE {blocks[last(p)] : p \in paths}

-----------------------------------------------------------------------------
(* sufficiency.ts *)

Candidates(lines) ==
  FlattenSeq([i \in DOMAIN lines |-> IF lines[i] \in Substantial THEN <<lines[i]>> ELSE <<>>])

\* Five evenly spaced substantial lines, each once.
ProbeLines(lines) ==
  LET candidates == Candidates(lines)
      n == Len(candidates)
  IN  IF n = 0 THEN {} ELSE {candidates[((i * n) \div 6) + 1] : i \in 1..5}

\* Seeded fault: one probe that is there says the file is.
EvaluateSourcePresenceByOne(prompt, lines) == ProbeLines(lines) \cap ToSet(prompt) # {}
EvaluateSourcePresence(prompt, lines) ==
  ProbeLines(lines) # {} /\ ProbeLines(lines) \subseteq ToSet(prompt)

CheckPromptCompleteness == completeness # {} /\ \A r \in completeness : r.present
CheckOutputCapHeadroom == caps # {} /\ \A r \in caps : r.fits

\* No transport grants a file system.
AuditTemplateClaims ==
  protocol.claims \subseteq (IF protocol.tools THEN {"tools"} ELSE {})
                      \cup (IF protocol.store THEN {"store"} ELSE {})

\* The tokens of an answer with every file of the task: four bytes for one.
RequiredOutputTokens(sources) ==
  LET bytes == FoldLeft(LAMBDA n, s : n + (Len(s.lines) + 1) * LineBytes, 0, sources)
  IN  (bytes + 3) \div 4

Checks == <<"prompt_completeness", "output_cap_headroom", "template_claim_audit", "stub_realism">>
Passes(check) ==
  CASE check = "prompt_completeness" -> CheckPromptCompleteness
    [] check = "output_cap_headroom" -> CheckOutputCapHeadroom
    [] check = "template_claim_audit" -> AuditTemplateClaims
    [] OTHER -> TRUE
ExitOf == [prompt_completeness |-> 6, output_cap_headroom |-> 8, template_claim_audit |-> 9]

\* The first failure among the checks asked for.
ExitCodeFor(asked) ==
  LET failed == {i \in asked : ~Passes(Checks[i])}
      first == CHOOSE i \in failed : \A j \in failed : i <= j
  IN  IF failed = {} THEN 0 ELSE ExitOf[Checks[first]]

-----------------------------------------------------------------------------
(* check-sufficiency.mjs *)

Unreadable(task) == task.missing \cap PathsOf(task)

CapRow(t, required) ==
  [task |-> t, required |-> required, fits |-> required + protocol.headroom <= protocol.cap]

CompletenessRow(t, arm, s) ==
  [task |-> t, arm |-> arm, path |-> s.path,
   present |-> EvaluateSourcePresence(BuildTaskPrompt(corpus[t], arm), s.lines)]

\* A task with a file no commit shows is not measured at all.
MeasureTask ==
  /\ sufExit = -1 /\ measured < Len(corpus)
  /\ LET t == measured + 1
         task == corpus[t]
     IN  /\ missing' = missing \cup {[task |-> t, path |-> p] : p \in Unreadable(task)}
         /\ IF Unreadable(task) # {}
            THEN UNCHANGED <<caps, completeness>>
            ELSE /\ caps' = caps \cup {CapRow(t, RequiredOutputTokens(task.sources))}
                 /\ completeness' = completeness \cup
                      {CompletenessRow(t, a, s) : a \in PromptArms, s \in ToSet(task.sources)}
  /\ measured' = measured + 1
  /\ UNCHANGED <<corpus, protocol, filter, sufExit, dryRun>>

ReportedExit ==
  LET asked == {i \in DOMAIN Checks : filter \in {"", Checks[i]}}
  IN  IF missing # {} \/ Cardinality(caps) # Len(corpus) THEN 7
      ELSE IF asked = {} THEN 71 ELSE ExitCodeFor(asked)

Report ==
  /\ sufExit = -1 /\ measured = Len(corpus)
  /\ sufExit' = ReportedExit
  /\ UNCHANGED <<corpus, protocol, filter, measured, completeness, caps, missing, dryRun>>

\* The dry run on a corpus the gates let through: the noop stub for each cell.
DryRunAttempt ==
  /\ sufExit = 0
  /\ \E t \in DOMAIN corpus, arm \in PromptArms :
       /\ \A a \in dryRun : <<a.task, a.arm>> # <<t, arm>>
       /\ dryRun' = dryRun \cup
            {[task |-> t, arm |-> arm,
              files |-> NoopStub(BuildTaskPrompt(corpus[t], arm), PathsOf(corpus[t]))]}
  /\ UNCHANGED <<corpus, protocol, filter, measured, completeness, caps, missing, sufExit>>

SufInit ==
  /\ corpus \in TaskCorpora /\ protocol \in Protocols /\ filter \in Filters
  /\ measured = 0 /\ completeness = {} /\ caps = {} /\ missing = {}
  /\ sufExit = -1 /\ dryRun = {}

SufNext == MeasureTask \/ Report \/ DryRunAttempt

SufSpec == SufInit /\ [][SufNext]_sufVars

-----------------------------------------------------------------------------
\* A marker of one of the task's files among its own texts.
Marked(task, arm) ==
  LET texts == task.issue \o FlattenSeq([i \in DOMAIN task.sources |-> task.sources[i].lines])
                 \o (IF arm = "T0" THEN <<>> ELSE task.assistance[arm])
  IN  \E p \in PathsOf(task) : {Opener(p), Closer(p)} \cap ToSet(texts) # {}

\* The file's probes are all in the prompt without the file.
Quoted(task, arm, lines) ==
  ProbeLines(lines) \subseteq ToSet(BuildTaskPrompt([task EXCEPT !.sources = <<>>], arm))

Placed == \E i \in DOMAIN protocol.template : protocol.template[i] = "{{SOURCE}}"

(***************************************************************************)
(* What the gates say is so.  When all of them pass, the noop stub gives   *)
(* every file of every task back from every arm's prompt alone, unless the *)
(* texts themselves carry a file's markers, or quote every probe of a file *)
(* the template has no place for: it is the presence of the source the     *)
(* probes stand for (sufficiency.ts:46-51, stubs.ts:16-19).  And a gate    *)
(* fails for its reason: no place for the source or a file that cannot be  *)
(* probed; a file nobody can read, in a corpus said not to be provisioned. *)
(***************************************************************************)
SufficiencyVerdictIsTrue ==
  /\ filter = "" =>
       \A a \in dryRun :
         \/ a.files = ToSet(corpus[a.task].sources)
         \/ Marked(corpus[a.task], a.arm)
         \/ ~Placed /\ \A s \in ToSet(corpus[a.task].sources) : Quoted(corpus[a.task], a.arm, s.lines)
  /\ sufExit = 6 =>
       \/ ~Placed \/ \A t \in DOMAIN corpus : corpus[t].sources = <<>>
       \/ \E t \in DOMAIN corpus : \E s \in ToSet(corpus[t].sources) :
            ToSet(s.lines) \cap Substantial = {}
  /\ sufExit = 7 <=> sufExit # -1 /\ \E t \in DOMAIN corpus : Unreadable(corpus[t]) # {}
=============================================================================
