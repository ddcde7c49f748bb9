\* Each part alone.  A document of 24 bytes is 7 tokens, of 41 bytes 12, of 100
\* bytes 26; the header is 12.  Times and budgets of the gate are logarithms.
CONSTANTS
  Inputs <- MCInputs
  Budgets = {5, 20, 40}
  Reserves = {0, 8}
  PinSets <- MCPinSets
  GridSizes = {2000, 8000}
  MeasuredSizes = {2000, 8000, 32000}
  Depths = {0, 25, 50, 75, 100}
  LimitTokens = 4000
  FillerLines <- MCFillerLines
  Corpora <- MCCorpora
  Control <- MCControl
  Deliverables <- MCDeliverables
  Arms = 2
  Floor = 1
  Budget = 11
  Sizes = 5
  Repeats = 3
  MinPoints = 3
  Pause = 3
  Lines = {1, 2, 3}
  MaxLines = 3
  EditCaps = {2, 9}
  Names <- MCNames
  Replies <- MCReplies
  Permissions <- MCPermissions
  Trees <- MCTrees
  LinkSets <- MCLinkSets
  Workspace <- MCWorkspace
  TextLines <- MCTextLines
  TaskCorpora <- MCTaskCorpora
  PromptArms = {"T0", "T1"}
  Protocols <- MCProtocols
  Filters = {"", "output_cap_headroom", "unknown"}
  Substantial <- MCSubstantial
  LineBytes = 10
SPECIFICATION MCSpec
INVARIANTS
  WithinBudget
  EveryDocumentOnce
  NothingPromoted
  SelfCheckIsLive
  RecommendationHelps
  GateIsEarned
  NoFalseAccusation
  DiffIsMinimal
  ContainedWrites
  SufficiencyVerdictIsTrue
CHECK_DEADLOCK FALSE
