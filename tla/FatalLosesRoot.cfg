\* One script with one hooked call, which may end in a fatal error.
SPECIFICATION PhpSpec
CONSTANTS
  Master = master
  w1 = w1
  w2 = w2
  Workers = {w1, w2}
  Elastic = "elastic"
  Malformed = Malformed
  Empty = Empty
  Configs <- MCConfigs
  Scripts <- MCScripts
  NoConfig = NoConfig
  LocalInfer = FALSE
  SegmentFills = TRUE
  MaxKills = 0
  Starts <- HookedStarts
  Traced = w1
  query = query
  inherited = inherited
  action = action
  handle = handle
  Internal = {query, inherited}
  User = {action}
  Interfaces = {handle}
  Declared <- MCDeclared
  Implements <- MCImplements
  SpanHooks = {span}
  PostHooks = {post}
  Nothing = Nothing
  MaxDepth = 3
INVARIANT
  RootEnds
CHECK_DEADLOCK FALSE
