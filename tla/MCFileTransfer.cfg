\* Three files in any state, copied by either client; what was stored is
\* extracted by any of the three, on a disk where anything may fail.
CONSTANTS
  DiskFiles <- Any
  NFiles = 3
  Block = 2
  Copiers = {"pull", "push"}
  Extractors = {"cdoc2", "ddoc", "tool"}
  Strict = TRUE
  MayFail = {"open", "write", "close"}
  Payloads = {"intact", "altered", "cut"}
  Listed <- Lists
  Locks = {1, 2}
SPECIFICATION Spec
INVARIANTS CopyExact CopyNoFalseAlarm ExtractNoFalseAlarm RoundTrip ReEncryptExact OwnSecrets
PROPERTY CopyEnds
