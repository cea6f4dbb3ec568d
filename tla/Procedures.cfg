SPECIFICATION MCSpec
CONSTANTS
  l1 = l1
  l2 = l2
  ControlAttempts = 2
  ReportedJobs = 1
  MaxControls = 2
  NoStatus = NoStatus
  Lockers = {l1, l2}
  Launchers = {l1, l2}
  Absent = Absent
  WaitFor = 1
  MaxLocks = 2
  OutTables = 2
  SinkCapacity = 3
  RowSizes = {1, 3}
  MaxRows = 3
  Scripts <- MCScripts
  WordLimit = 5
  MaxPartSize = 3
  MaxPartCount = 3
  ReaderParts = 2
  ReaderBytes = 12
  SkiffLayouts <- MCLayouts
  SkiffStreams <- MCStreams
  MaxBlobBytes = 2
  MaxRowBytes = 8
  NoValue = NoValue
  RowSources <- MCSources
  RowChunk = 3
  MaxRead = 4
  Unwritable = Unwritable
  Ends = Ends
  a1 = a1
  a2 = a2
  Apps = {a1, a2}
  TableKeys = {1, 2}
  Programs <- MCPrograms
  ReplyNames <- MCReplyNames
  CellValues = {1, 2, 5, 6}
  NoRow = NoRow
  Inputs <- MCInputs
  BufferBytes = 2
  MaxRecord = 3
  None = None
  YsonSources <- MCYsonSources
  YsonTexts <- MCYsonTexts
  MaxDepth = 3
CHECK_DEADLOCK FALSE
INVARIANT OperationIsTruthful
INVARIANT ToldIsHeld
INVARIANT UploadsAreSound
INVARIANT OutputIsWhole
INVARIANT FramesAreTrue
INVARIANT SkiffRowsAreTrue
INVARIANT BodyIsWhole
INVARIANT TablesAreTrue
INVARIANT RowsAreTrue
INVARIANT StopsAreReal
INVARIANT GroupsAreSegments
INVARIANT YsonIsRead
PROPERTY PollsEnd
PROPERTY CallsReturn
