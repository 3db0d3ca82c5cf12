\* A file as dst, which the writer owns, or a consumer of the application.
CONSTANTS
  DstKinds = {"stream", "unopened", "consumer"}
  Owned = {"stream", "unopened"}
  Block = 2
  Load <- Loads
SPECIFICATION Spec
INVARIANTS
  FinishExact
  ArchiveWellFormed
  StickyFinish
  OpenCapsules
  OneContainer
  NoSilentLoss
PROPERTIES
  TagIsLast
