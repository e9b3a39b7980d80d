CONSTANTS
  p1 = p1
  p2 = p2
  p3 = p3
  x1 = x1
  x2 = x2
  x3 = x3
  e1 = e1
  e2 = e2
  NoPayload = NoPayload
  Procs = {p1, p2}
  Root = p1
  Payloads = {x1, x2}
  Size <- MCSize
  Endpoints = {e1, e2}
  EndpointOf <- MCEndpointOf
  MaxSendQueueSize = 3
  MaxRetries = 2
  ShutdownTimeout = TRUE
SPECIFICATION Spec
CHECK_DEADLOCK FALSE
INVARIANT EmptyQueueIsFree
