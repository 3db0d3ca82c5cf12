\* finishEncryption and the flush of an owned dst.
CONSTANTS
  DstKinds = {"stream"}
  Owned = {"stream"}
  Block = 2
  Load <- OneFile
SPECIFICATION Spec
INVARIANTS
  FinishOkFlushed
