\* The tool extracts to a disk on which files cannot be created.
CONSTANTS
  DiskFiles <- Plain
  NFiles = 1
  Block = 2
  Copiers = {"pull"}
  Extractors = {"tool"}
  Strict = TRUE
  MayFail = {"open"}
  Payloads = {"intact"}
  Listed <- NoLists
  Locks = {1}
SPECIFICATION Spec
INVARIANT OkMeansKept
