---------------------------- MODULE MCExperiment ----------------------------
(***************************************************************************)
(* What an experiment's result stands on: the provisioned sources, the     *)
(* freeze of the study, the preparation of a run, the run itself, and the  *)
(* one paid request that proves the way to the provider.                   *)
(* Each takes what another has left behind as an input of its own, so they *)
(* are explored one at a time: part says which one moves.                  *)
(***************************************************************************)
EXTENDS RunnerEvaluation, RunPreparation, StudyFreeze, Provision, LiveCall

VARIABLE part

experimentVars == <<part, vars, prepVars, studyVars, provisionVars, liveVars, guardVars>>

-----------------------------------------------------------------------------
(* The runner: no file, one file, and a file followed by a refused one.    *)
MCProposals == {<<>>, <<"ok">>, <<"ok", "refused">>}

(* The preparation: a packet, another wording, another level, a part too   *)
(* many, and a wording the leak scan objects to.                           *)
MCContent(text, level, parts, leaks) ==
  [text |-> text, level |-> level, design |-> "cumulative",
   parts |-> parts, boundary |-> parts, leaks |-> leaks]

MCContents ==
  {MCContent("a", "L2_localization", {"context", "localization"}, FALSE),
   MCContent("b", "L2_localization", {"context", "localization"}, FALSE),
   MCContent("a", "L1_context", {"context"}, FALSE),
   MCContent("a", "L2_localization", {"context", "localization", "diagnosis"}, FALSE),
   MCContent("b", "L2_localization", {"context", "localization"}, TRUE)}

MCTreatments == {"native", "L2_localization"}

(* People and fixture versions are interchangeable: one of each will do to *)
(* begin with.                                                             *)
MCPrepInit ==
  /\ PrepInit /\ fixture = "f1" /\ review.of.text = "a"
  /\ review.author = "author" /\ {i.reviewer : i \in review.items} = {"reviewer"}

(* The freeze: a tree of a corpus, a report and a packet.                  *)
MCKinds == {HeldoutFreeze, GateMV1Freeze, GateMV2Freeze, GateMV3Freeze}

(* Versions are interchangeable: the tree begins with the old one.         *)
MCStudyInit == StudyInit /\ settings = "old"

(* Provisioning: one repository with a base and a corrected commit; the    *)
(* base has a worktree in both scripts and needs dependencies.             *)
MCRepos == <<"repo">>
MCCommits == <<"base", "fixed">>
MCRepoOf == [c \in {"base", "fixed"} |-> "repo"]

(* The paid request: usage on both sides of the threshold and of the       *)
(* estimate, with and without cached input and cache writes.               *)
MCRates == [tier \in {"short", "long"} |->
              IF tier = "short" THEN [input |-> 2, cached |-> 1, write |-> 3, output |-> 4]
                                ELSE [input |-> 4, cached |-> 2, write |-> 6, output |-> 6]]
MCUsages == {u \in [input : {0, 1, 2, 3}, cached : {0, 1}, write : {0, 1}, output : {0, 1, 2}] :
               u.cached <= u.input}

-----------------------------------------------------------------------------
RunnerOff == Init /\ ~aborted
PrepOff == MCPrepInit /\ freeze = NoFile /\ review.of.level = "L2_localization"
StudyOff == MCStudyInit /\ kind = GateMV1Freeze /\ doc = NoDoc /\ Present = Files
ProvisionOff == ProvisionInit /\ variant = "gate_m" /\ genuine = {}
LiveOff == LiveInit /\ signals = {} /\ promptTokens = 1

MCInit ==
  /\ part \in {"runner", "preparation", "freeze", "provision", "live"}
  /\ IF part = "runner" THEN Init ELSE RunnerOff
  /\ IF part = "preparation" THEN MCPrepInit ELSE PrepOff
  /\ IF part = "freeze" THEN MCStudyInit ELSE StudyOff
  /\ IF part = "provision" THEN ProvisionInit ELSE ProvisionOff
  /\ IF part = "live" THEN LiveInit ELSE LiveOff

MCNext ==
  /\ UNCHANGED part
  /\ \/ /\ part = "runner" /\ Next
        /\ UNCHANGED <<prepVars, studyVars, provisionVars, liveVars, guardVars>>
     \/ /\ part = "preparation" /\ PrepNext
        /\ UNCHANGED <<vars, studyVars, provisionVars, liveVars, guardVars>>
     \/ /\ part = "freeze" /\ StudyNext
        /\ UNCHANGED <<vars, prepVars, provisionVars, liveVars, guardVars>>
     \/ /\ part = "provision" /\ ProvisionNext
        /\ UNCHANGED <<vars, prepVars, studyVars, liveVars, guardVars>>
     \/ /\ part = "live" /\ LiveNext
        /\ UNCHANGED <<vars, prepVars, studyVars, provisionVars>>

MCSpec == MCInit /\ [][MCNext]_experimentVars
=============================================================================
