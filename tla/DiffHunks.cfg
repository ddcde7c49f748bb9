\* Three lines of which one is replaced at one end and one at the other.
CONSTANTS
  Inputs <- MCInputs
  Budgets = {5, 20, 40}
  Reserves = {0, 8}
  PinSets <- MCPinSets
  GridSizes = {2000, 8000}
  MeasuredSizes = {2000, 8000, 32000}
  Depths = {0, 25, 50, 75, 100}
  LimitTokens = 4000
  FillerLines <- MCFillerLines
  Corpora <- MCCorpora
  Control <- MCControl
  Deliverables <- MCDeliverables
  Arms = 2
  Floor = 1
  Budget = 11
  Sizes = 5
  Repeats = 3
  MinPoints = 3
  Pause = 3
  Lines = {1, 2, 3}
  MaxLines = 3
  EditCaps = {2, 9}
  Names <- MCNames
  Replies <- MCReplies
  Permissions <- MCPermissions
  Trees <- MCTrees
  LinkSets <- MCLinkSets
  Workspace <- MCWorkspace
  TextLines <- MCTextLines
  TaskCorpora <- MCTaskCorpora
  PromptArms = {"T0", "T1"}
  Protocols <- MCProtocols
  Filters = {"", "output_cap_headroom", "unknown"}
  Substantial <- MCSubstantial
  LineBytes = 10
SPECIFICATION MCSpec
INVARIANTS
  HunksNameRemovedLines
CHECK_DEADLOCK FALSE
