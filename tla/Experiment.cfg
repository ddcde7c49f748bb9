\* Each part alone: one run; three edits of what it prepares from before the
\* review is bound and two after it; two edits and three scripts of a study;
\* three runs on one cache with two disturbances; one paid request under a
\* limit its estimate may pass.
CONSTANTS
  Proposals <- MCProposals
  Contents <- MCContents
  People = {"author", "reviewer"}
  Treatments <- MCTreatments
  MinReviewers = 1
  FixtureVersions = {"f1", "f2"}
  NoFile = NoFile
  MaxPrepEdits = 3
  MaxLateEdits = 2
  Kinds <- MCKinds
  Listed = {}
  Tree = {"corpus", "report", "packet"}
  Corpus = "corpus"
  Report = "report"
  Versions = {"old", "new"}
  NoDoc = NoDoc
  MaxEdits = 2
  MaxScripts = 3
  Repos <- MCRepos
  Commits <- MCCommits
  RepoOf <- MCRepoOf
  Worktrees = {"base"}
  NeedsInstall = {"base"}
  MaxRuns = 3
  MaxDisturbances = 2
  MaxRequests = 1
  MaxTotal = 10
  MaxRequest = 10
  Rates <- MCRates
  Threshold = 2
  PromptEstimates = {1, 2, 3}
  MaxOutputTokens = 1
  Usages <- MCUsages
  NoUsage = NoUsage
SPECIFICATION MCSpec
INVARIANTS
  ReceiptHasWholeTrace
  CompletedIsEarned
  CancelledNeverCompletes
  AssistanceIsReviewed
  PreparedIsFrozen
  VerdictIsTrue
  AttemptsOnFrozen
  GreenIsVerified
  LiveReceiptIsTrue
PROPERTIES
  GreenIsReused
CHECK_DEADLOCK FALSE
