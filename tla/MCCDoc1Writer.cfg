\* Documents of every shape over an owned file, pushed and pulled, and a failure
\* at any step with what the application may still call after it.
CONSTANTS
  DstKind = "stream"
  Owned = TRUE
  RecipientKinds = {"cert", "broken"}
  Sizes = {1}
  SizeModulus = 8
  Sources <- SmallSources
  Counts = {TRUE, FALSE}
  MaxRecipients = 1
  MaxFiles = 2
  MaxData = 1
  MaxDocuments = 1
  MaxErrors = 1
SPECIFICATION Spec
INVARIANT FinishExact
PROPERTY OkMeansTaken
CHECK_DEADLOCK FALSE
