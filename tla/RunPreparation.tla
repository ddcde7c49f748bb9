--------------------------- MODULE RunPreparation ---------------------------
(***************************************************************************)
(* What runEvaluation (src/src/runner.ts) does before a workspace exists:  *)
(* the fixture, the experiment freeze, the intervention packet and its     *)
(* review record are read, one file after the other, and held against each *)
(* other; what is left in memory is what the model under test will get.    *)
(* Meanwhile authors revise packets, reviewers sign, records are bound and *)
(* experiments frozen: the same files.  A hash is the value hashed.        *)
(***************************************************************************)
EXTENDS Naturals, FiniteSets

CONSTANTS
  Contents,      \* packet contents an author may write: wording, level, design,
                 \* parts, declared boundary, and whether the leak scan objects
  People,        \* who author_id and reviewer_id may name
  Treatments,    \* arms explored, of Controls and of Levels
  MinReviewers,  \* options.minimumIndependentReviewers
  FixtureVersions,
  NoFile,        \* not read, not given, not there
  MaxPrepEdits,  \* bound: changes to the files
  MaxLateEdits   \* bound: changes up to one made beside a preparation

Controls == {"native", "lean_skill", "equal_token", "equal_cost"}
Parts == {"context", "localization", "observation", "diagnosis", "plan", "verification_gap"}

\* The parts of a packet of each level, in the cumulative design.
COMPONENTS ==
  [L1_context |-> {"context"},
   L2_localization |-> {"context", "localization"},
   L3_observation |-> {"context", "localization", "observation"},
   L4_diagnosis |-> {"context", "localization", "observation", "diagnosis"},
   L5_plan |-> {"context", "localization", "observation", "diagnosis", "plan"},
   verification_gap |-> {"verification_gap"}]

\* The part that is a level's own.
OwnComponent ==
  [L1_context |-> "context", L2_localization |-> "localization",
   L3_observation |-> "observation", L4_diagnosis |-> "diagnosis",
   L5_plan |-> "plan", verification_gap |-> "verification_gap"]

Levels == DOMAIN COMPONENTS
Designs == {"cumulative", "independent"}
Disputes == {"none", "open", "resolved"}

ASSUME PreparationAssumption ==
  /\ \A c \in Contents : /\ c.level \in Levels /\ c.design \in Designs
                         /\ c.parts \in SUBSET Parts /\ c.boundary \in SUBSET Parts
                         /\ c.leaks \in BOOLEAN
  /\ NoFile \notin Contents
  /\ Treatments \subseteq Controls \cup Levels
  /\ MinReviewers \in Nat \ {0} /\ MaxPrepEdits \in Nat /\ MaxLateEdits \in Nat

VARIABLES
  packet,    \* the packet file: content, the hash it claims, the record it binds
  review,    \* the review record: items, the author it names, a disagreement,
             \* the content it is of, the latest of its revisions, its state
  fixture,   \* the task's fixture file
  freeze,    \* the experiment freeze: the three files it was taken of, or NoFile
  prep,      \* the preparation: step, options, what was read
  bound,     \* history: the records packets were bound to
  shown,     \* history: who signed a record of a content while shown it
  carried,   \* history: whose signature stands on a record of a content
             \* because the record was brought to it, or signed beside it
  snapshots, \* history: what experiment freezes were taken of
  prepEdits

prepVars ==
  <<packet, review, fixture, freeze, prep, bound, shown, carried, snapshots, prepEdits>>

-----------------------------------------------------------------------------
(***************************************************************************)
(* The checks on one packet.                                               *)
(***************************************************************************)
ComponentsOf(c) ==
  IF c.level = "verification_gap" \/ c.design = "cumulative"
  THEN COMPONENTS[c.level] ELSE {OwnComponent[c.level]}

\* Seeded fault: parts beyond the level's are not noticed.
ComponentSetLoose(c) == ComponentsOf(c) \subseteq c.parts
ComponentSetValid(c) ==
  /\ c.parts = ComponentsOf(c)
  /\ c.level = "verification_gap" => c.design = "independent"

\* information_boundary says what the parts say; the model declares parts.
BoundaryValid(c) == c.boundary = c.parts

\* loadInterventionDraft: what a reviewer can be shown.
DraftLoads(c) == /\ c.level # "verification_gap"
                 /\ ComponentSetValid(c) /\ BoundaryValid(c) /\ ~c.leaks

(***************************************************************************)
(* validateReview: the author it names does not approve, a disagreement is *)
(* resolved, there are enough reviewers, all of them approve, each for the *)
(* level of the record, the record is final and its latest revision is of  *)
(* its content.  Nothing says which content an item was given for.         *)
(***************************************************************************)
ReviewValid(r) ==
  /\ \A i \in r.items : i.reviewer # r.author
  /\ r.dispute # "open"
  /\ Cardinality({i.reviewer : i \in r.items}) >= MinReviewers
  /\ \A i \in r.items : i.clean /\ i.level = r.of.level
  /\ r.final
  /\ r.latest = r.of

\* Seeded fault: the packet's binding of the record is not compared.
BindingsWithoutRecord(p, r, level, design) ==
  /\ p.content.level = level /\ p.content.design = design
  /\ p.declared = p.content
  /\ r.of = p.content
  /\ ComponentSetValid(p.content) /\ BoundaryValid(p.content) /\ ReviewValid(r)
\* validateBindings: packet and record name each other.
Bindings(p, r, level, design) ==
  /\ p.content.level = level /\ p.content.design = design
  /\ p.declared = p.content
  /\ p.binds = r
  /\ r.of = p.content
  /\ ComponentSetValid(p.content) /\ BoundaryValid(p.content) /\ ReviewValid(r)

-----------------------------------------------------------------------------
(***************************************************************************)
(* The preparation.  Options: the arm, which of the two paths were given,  *)
(* the design asked for, the experiment freeze or not, and the hashes of   *)
(* the files as the caller knew them, or NoFile.                           *)
(***************************************************************************)
NoOptions == [treatment |-> "native", paths |-> {}, design |-> "cumulative",
              withFreeze |-> FALSE, pinned |-> NoFile]
Unprepared == [pc |-> "idle", opt |-> NoOptions, fixture |-> NoFile, freeze |-> NoFile,
               packet |-> NoFile, review |-> NoFile, assistance |-> NoFile]

Paths == {"packet", "review"}
Given == prep.opt.paths = Paths
Pinned == [fixture |-> fixture, packet |-> packet, review |-> review]
historyVars == <<bound, shown, carried, snapshots>>
FilesStay == UNCHANGED <<packet, review, fixture, freeze, historyVars, prepEdits>>

BeginPreparation ==
  /\ prep.pc = "idle"
  /\ \E t \in Treatments, ps \in SUBSET Paths, d \in Designs, f \in BOOLEAN, pin \in {NoFile, Pinned} :
       prep' = [prep EXCEPT !.pc = "fixture",
                  !.opt = [treatment |-> t, paths |-> ps, withFreeze |-> f, pinned |-> pin,
                           design |-> IF t = "verification_gap" THEN "independent" ELSE d]]
  /\ FilesStay

Reject == prep' = [Unprepared EXCEPT !.pc = "rejected"]
Matches(file, pinned) == prep.opt.pinned = NoFile \/ file = pinned

LoadFixture ==
  /\ prep.pc = "fixture"
  /\ IF Matches(fixture, prep.opt.pinned.fixture)
     THEN prep' = [prep EXCEPT !.pc = "freeze", !.fixture = fixture]
     ELSE Reject
  /\ FilesStay

\* The freeze is read, then the paths are held against the arm.
LoadFreeze ==
  /\ prep.pc = "freeze"
  /\ IF \/ prep.opt.withFreeze /\ freeze = NoFile
        \/ prep.opt.paths # {} /\ prep.opt.treatment \in Controls
        \/ prep.opt.paths \notin {{}, Paths}
     THEN Reject
     ELSE prep' = [prep EXCEPT !.pc = IF Given THEN "load" ELSE "judge",
                     !.freeze = IF prep.opt.withFreeze THEN freeze ELSE NoFile]
  /\ FilesStay

\* loadIntervention reads both files at once: in either order.
LoadPacket ==
  /\ prep.pc = "load" /\ prep.packet = NoFile
  /\ prep' = [prep EXCEPT !.packet = packet, !.pc = IF prep.review = NoFile THEN @ ELSE "judge"]
  /\ FilesStay

LoadReview ==
  /\ prep.pc = "load" /\ prep.review = NoFile
  /\ prep' = [prep EXCEPT !.review = review, !.pc = IF prep.packet = NoFile THEN @ ELSE "judge"]
  /\ FilesStay

\* loadIntervention on what it read.
InterventionLoads ==
  /\ Matches(prep.packet, prep.opt.pinned.packet) /\ Matches(prep.review, prep.opt.pinned.review)
  /\ Bindings(prep.packet, prep.review, prep.opt.treatment, prep.opt.design)
  /\ ~prep.packet.content.leaks

\* Seeded fault: the intervention files are not compared with the freeze.
RunMatchesFixture == prep.freeze.fixture = prep.fixture
\* assertRunMatchesExperimentFreeze; an arm of Controls has no files here.
RunMatchesFreeze ==
  /\ prep.freeze.fixture = prep.fixture
  /\ prep.opt.treatment \in Levels =>
       prep.freeze.packet = prep.packet /\ prep.freeze.review = prep.review

\* materializeAssistance, and the end of the preparation.
Judge ==
  /\ prep.pc = "judge"
  /\ IF /\ Given => InterventionLoads
        /\ prep.opt.withFreeze => RunMatchesFreeze
        /\ prep.opt.treatment \in Levels => Given
     THEN prep' = [prep EXCEPT !.pc = "prepared",
                     !.assistance = IF Given THEN prep.packet.content ELSE NoFile]
     ELSE Reject
  /\ FilesStay

-----------------------------------------------------------------------------
(***************************************************************************)
(* The people and tools that own the files.                                *)
(***************************************************************************)
PrepEdit ==
  /\ prepEdits < IF prep.pc = "idle" THEN MaxPrepEdits ELSE MaxLateEdits
  /\ prepEdits' = prepEdits + 1
  /\ UNCHANGED prep

\* An author revises the packet; by hand, its claimed hash stays.
Revise ==
  /\ PrepEdit
  /\ \E c \in Contents, rehash \in BOOLEAN :
       packet' = [packet EXCEPT !.content = c, !.declared = IF rehash THEN c ELSE @]
  /\ UNCHANGED <<review, fixture, freeze, historyVars>>

\* Someone who was shown a draft that loads signs, or declines to, and says
\* which level it is.  The record may be of another content by now.
Sign ==
  /\ PrepEdit
  /\ DraftLoads(packet.content)
  /\ \E who \in People, clean \in BOOLEAN, level \in {c.level : c \in Contents} :
       /\ review' = [review EXCEPT
            !.items = @ \cup {[reviewer |-> who, clean |-> clean, level |-> level]}]
       /\ IF review.of = packet.content
          THEN shown' = shown \cup {<<who, review.of>>} /\ UNCHANGED carried
          ELSE carried' = carried \cup {<<who, review.of>>} /\ UNCHANGED shown
  /\ UNCHANGED <<packet, fixture, freeze, bound, snapshots>>

\* Reviewers disagree, or settle it.
Dispute ==
  /\ PrepEdit
  /\ \E state \in Disputes : review' = [review EXCEPT !.dispute = state]
  /\ UNCHANGED <<packet, fixture, freeze, historyVars>>

\* The record is brought to the packet as it is; items signed earlier stay.
Record ==
  /\ PrepEdit
  /\ \E final \in BOOLEAN, revision \in BOOLEAN :
       review' = [review EXCEPT !.of = packet.content, !.final = final,
                    !.latest = IF revision THEN packet.content ELSE @]
  /\ carried' = carried \cup {<<i.reviewer, packet.content>> : i \in review.items}
  /\ UNCHANGED <<packet, fixture, freeze, bound, shown, snapshots>>

Bind ==
  /\ PrepEdit
  /\ packet' = [packet EXCEPT !.binds = review]
  /\ bound' = bound \cup {review}
  /\ UNCHANGED <<review, fixture, freeze, shown, carried, snapshots>>

EditFixture ==
  /\ PrepEdit
  /\ fixture' \in FixtureVersions
  /\ UNCHANGED <<packet, review, freeze, historyVars>>

FreezeExperiment ==
  /\ PrepEdit
  /\ freeze' = Pinned
  /\ snapshots' = snapshots \cup {Pinned}
  /\ UNCHANGED <<packet, review, fixture, bound, shown, carried>>

\* A packet that was reviewed by one person and bound, frozen or not yet.
PrepInit ==
  /\ \E c \in {d \in Contents : DraftLoads(d)}, who, author \in People :
       /\ review = [items |-> {[reviewer |-> who, clean |-> TRUE, level |-> c.level]},
                    author |-> author, dispute |-> "none",
                    of |-> c, latest |-> c, final |-> TRUE]
       /\ shown = {<<who, c>>}
  /\ packet = [content |-> review.of, declared |-> review.of, binds |-> review]
  /\ bound = {review}
  /\ carried = {}
  /\ fixture \in FixtureVersions
  /\ freeze \in {NoFile, Pinned}
  /\ snapshots = {freeze} \ {NoFile}
  /\ prep = Unprepared
  /\ prepEdits = 0

PrepNext ==
  \/ BeginPreparation \/ LoadFixture \/ LoadFreeze \/ LoadPacket \/ LoadReview \/ Judge
  \/ Revise \/ Sign \/ Dispute \/ Record \/ Bind \/ EditFixture \/ FreezeExperiment

PrepSpec == PrepInit /\ [][PrepNext]_prepVars

-----------------------------------------------------------------------------
(***************************************************************************)
(* Assistance that reaches a run is the content that one record, bound as  *)
(* a whole after its last change, is of.  On it stand enough people other  *)
(* than the author it names, who all approved and all called it the level  *)
(* of the arm, with no disagreement left open.  Each was shown this very   *)
(* content when signing, or has been answered for: the record was brought  *)
(* to this content with the signature on it, or signed when it was of this *)
(* content and the packet was not; the record does not tell these apart    *)
(* (interventions.ts:213-234).  The content holds the parts of the level   *)
(* and no other, and nothing the leak scan objects to.  An arm of Controls *)
(* gets none, an arm of Levels never goes without.                         *)
(***************************************************************************)
AssistanceIsReviewed ==
  prep.pc = "prepared" =>
    /\ prep.assistance = NoFile <=> prep.opt.treatment \in Controls
    /\ prep.assistance # NoFile =>
         LET c == prep.assistance
             r == prep.review
             others == {i.reviewer : i \in r.items} \ {r.author}
         IN  /\ r \in bound
             /\ r.of = c /\ r.dispute # "open"
             /\ Cardinality(others) >= MinReviewers
             /\ \A i \in r.items :
                  /\ i.clean /\ i.level = prep.opt.treatment
                  /\ <<i.reviewer, c>> \in shown \cup carried
             /\ c.level = prep.opt.treatment
             /\ c.parts = ComponentsOf(c)
             /\ ~c.leaks

(***************************************************************************)
(* A run prepared under an experiment freeze has what one freeze was taken *)
(* of: fixture, packet and record of the same moment, whatever happens to  *)
(* the files while it reads them and afterwards.  Reads come before the    *)
(* comparison and nothing is read again, so a file that changes after the  *)
(* check cannot reach the run.                                             *)
(***************************************************************************)
PreparedIsFrozen ==
  prep.pc = "prepared" /\ prep.opt.withFreeze =>
    \E s \in snapshots :
      /\ prep.fixture = s.fixture
      /\ prep.assistance # NoFile => /\ prep.assistance = s.packet.content
                                     /\ prep.review = s.review
=============================================================================
