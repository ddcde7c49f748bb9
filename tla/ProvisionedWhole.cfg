\* A run that failed to install, and the next one.
CONSTANTS
  Repos <- MCRepos
  Commits <- MCCommits
  RepoOf <- MCRepoOf
  Worktrees = {"base"}
  NeedsInstall = {"base"}
  MaxRuns = 3
  MaxDisturbances = 1
SPECIFICATION ProvisionSpec
INVARIANTS
  GreenIsWhole
CHECK_DEADLOCK FALSE
