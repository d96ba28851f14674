CONSTANTS
  Chosen = {"approvals", "tui", "background", "mcp", "lsp", "snapshots", "credentials", "kram", "streams", "requests", "relay"}
  Tools <- MCTools
  Subjects <- MCSubjects
  Chained <- MCChained
  Blank = {""}
  Widens <- MCWidens
  Begins <- MCBegins
  Calls = {1, 2}
  Clicks = {1}
  Globals <- MCGlobals
  Projects <- MCProjects
  Asked <- MCAsked
  DaemonStarts = 2
  MaxStreams = 2
  TypedTexts = 2
  Procs = {1, 2}
  Stubborn = {1}
  Retain = 3
  Chunk = 2
  LocalMax = 3
  MaxOut <- MCMaxOut
  Inside = {3}
  MaxGen = 2
  Servers = {1, 2}
  Http = {2}
  MaxClients = 3
  MaxAttempts = 2
  ToolCalls = {"k"}
  Languages = {"go", "ts"}
  Queries = {1, 2}
  Contents <- MCContents
  Workspace <- MCWorkspace
  MaxSnapshots = 3
  MaxWrites = 1
  Requests = {"r1", "r2"}
  HolderOf <- MCHolder
  MaxTokens = 2
  Files <- MCFiles
  ProgramStarts = 1
  StreamCalls = {1, 2}
  Size <- MCSize
  MaxTexts = 1
  Buffer = 1
  MaxMessages = 5
  MaxBatch = 2
  RelayTexts = 2
  Capacity = 1
SPECIFICATION Spec
CONSTRAINT Few
INVARIANTS
  ConsentedCalls
  WaitingIsServed
  CopyFaithful
  CloseIsFinal
  DiagnosticsAreNews
  NobodyWaitsOnTheDead
  
  
  CallsAsSent
  
  AnswerAsWritten
PROPERTIES
  RewindExact
  MainMovesOn
  CallReturns
CHECK_DEADLOCK FALSE
