SPECIFICATION RecordsSpec
CONSTANTS
  Candidates = {k1, k2}
  CandidateEvents = 1
  RunEvents = 1
  PageLimit = 2
  MaxCursor = 1
  Repositories = {"memory", "postgres"}
  Interactions = {i1}
  MessagePage = 2
  MaxMessages = 5
  MaxTalkFaults = 1
  HostEnv = {}
  HostBins = {}
  MaxEdits = 1
  FileName <- ScriptNames
  Stem <- ScriptStems
  Disks <- SkillDisks
  Calls <- SkillCalls
  Fetches = {f1}
  AskedDepartments <- OneOrAll
  Sources = {"http", "sql"}
  MaxRequestRetries = 1
  MaxOut = 2
  PoolSize = 1
  MaxCollectionFaults = 2
  ArchiveStores = {"memory", "postgres"}
  ReportFormats = {"docx"}
  MaxLoads = 1
  AuditPage = 1
  MaxTurns = 3
  MaxArchiveFaults = 1
  Storages = {"memory", "qdrant"}
  Words = {w1, w2}
  MaxWords = 2
  Digests = {0, 1}
  Dimensions = {1, 2}
  MaxItems = 2
  MaxMemoryFaults = 1
CHECK_DEADLOCK FALSE
INVARIANTS
  StreamIsReplay
  TalkIsKept
  ArchiveIsTrue
  RecordsAreTrue
PROPERTIES
  StreamsEnd
