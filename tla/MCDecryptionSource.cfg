\* Reads smaller than, as large as and larger than the tag, up to the whole.
CONSTANTS
  Byte = {1, 2, 3, 4, 5, 6, 7, 8, 9}
  TagLen = 2
  Sealed <- Payload
  Streams <- AllStreams
  Requests = {1, 2, 3, 4, 5, 9}
SPECIFICATION Spec
INVARIANTS
  Window
  ShortOnlyAtEnd
  AcceptsAuthentic
  VerifiedComplete
PROPERTIES KeepsPromise
CHECK_DEADLOCK FALSE
