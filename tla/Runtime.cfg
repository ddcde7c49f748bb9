\* Three callers of the broker over two files, three bytes, two commands, one
\* retry; one process with output up to two bytes past its limit; two writers
\* with bodies of their own, one reader, crashes anywhere; two callers of the
\* adapter, three requests, one retry each, costs up to one over the estimate.
CONSTANTS
  Callers = {c1, c2, c3}
  Paths <- MCPaths
  Contained <- MCContained
  Writable <- MCWritable
  Linked <- MCLinked
  Sizes <- MCSizes
  MaxFiles = 2
  MaxWriteBytes = 3
  MaxCommands = 2
  MaxRetries = 1
  Waiting = Waiting
  MaxOutputBytes = 2
  Chunks <- MCChunks
  MaxBytes = 4
  ExitCodes <- MCExitCodes
  NullExit <- MCNullExit
  w1 = w1
  w2 = w2
  b1 = b1
  b2 = b2
  Writers <- MCWriters
  Readers = {r1}
  Bodies <- MCBodies
  BodiesOf <- MCOwnBodies
  Inodes = {i1, i2, i3, i4}
  NoBody = NoBody
  NoInode = NoInode
  Clients = {a1, a2}
  Estimates <- MCEstimates
  MaxRequests = 3
  MaxTotal = 4
  MaxRequest = 2
  RetriesPerCall = 1
  Overrun = 1
SPECIFICATION MCSpec
INVARIANTS
  BudgetsHold
  LedgerCountsLanded
  SettledIsClean
  ReservedIsOutstanding
  CommittedWithinCap
  SpendIsRecorded
PROPERTIES
  CallReturns
  ImplementsCall
  WritesReturn
  ImplementsRegister
  ImplementsLedger
CHECK_DEADLOCK FALSE
