----------------------------- MODULE MCProvision -----------------------------
(* One repository with a base and a corrected commit; the base has a       *)
(* worktree in both scripts and needs dependencies.                        *)
EXTENDS Provision

MCRepos == <<"repo">>
MCCommits == <<"base", "fixed">>
MCRepoOf == [c \in Range(MCCommits) |-> "repo"]
=============================================================================
