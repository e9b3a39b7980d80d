\* A master and two workers: remote configurations in turn, and scripts.
SPECIFICATION PhpSpec
CONSTANTS
  Master = master
  w1 = w1
  w2 = w2
  Workers = {w1, w2}
  Elastic = "elastic"
  Malformed = Malformed
  Empty = Empty
  Configs <- MCConfigs
  Scripts <- MCScripts
  NoConfig = NoConfig
  LocalInfer = TRUE
  SegmentFills = TRUE
  MaxKills = 1
  Starts <- MCStarts
  Traced = w1
  query = query
  inherited = inherited
  action = action
  handle = handle
  Internal = {query, inherited}
  User = {action}
  Interfaces = {handle}
  Declared <- MCDeclared
  Implements <- MCImplements
  SpanHooks = {span}
  PostHooks = {post}
  Nothing = Nothing
  MaxDepth = 3
INVARIANTS
  RequestTypeOK
  RevisionHoldsFiles
  OptionsFollowFile
  ReportedIsStored
  FreshAtRequest
  RemoteTakesEffect
  OneTimeTask
  SampledInRequest
  PhpTypeOK
  CalledRuns
  SpansEnded
  NoOrphan
  Reduced
PROPERTIES
  LockReturns
CHECK_DEADLOCK FALSE
