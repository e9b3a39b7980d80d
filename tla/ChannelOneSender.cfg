CONSTANTS
  w1 = w1
  w2 = w2
  m1 = m1
  m2 = m2
  m3 = m3
  NoMessage = NoMessage
  MasterPid = MasterPid
  Workers = {w1}
  Messages = {m1, m2, m3}
  Total <- MCTotal
  ChunkData = 2
  QueueSize = 2
  Respawn = FALSE
SPECIFICATION Spec
CHECK_DEADLOCK FALSE
INVARIANT TypeOK
INVARIANT Intact
PROPERTY ImplementsMessageChannel
PROPERTY UndamagedArrives
