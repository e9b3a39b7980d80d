\* One request, in which the callback is interrupted.
SPECIFICATION WorkerSpec
CONSTANTS
  Sample = Sample
  Tasks = {Sample}
  MaxRequests = 1
PROPERTIES
  SamplingGoesOn
CHECK_DEADLOCK FALSE
