\* Containers in files, some of the payloads, with one failure below in each of
\* two chains; and all payloads in memory, which knows its end.
CONSTANTS
  Block = 2
  CHUNK = 2
  MaxInflated = 14
  Streams <- Containers
  Written <- WellFormed
  Keys = {"right", "wrong", "short"}
  Amounts = {1, 4}
  BUFFER = 2
  Seekable = TRUE
  Faulty = TRUE
  MaxBegins = 2
SPECIFICATION Spec
INVARIANTS
  ServedExact
  EndMeansAll
  NoFalseAlarm
  EndIsVerifiable
PROPERTIES
  CallsReturn
CHECK_DEADLOCK FALSE
