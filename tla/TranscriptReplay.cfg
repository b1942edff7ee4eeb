\* host-core dies once while the sidecar goes on streaming one reply.
SPECIFICATION FairSpec
CONSTANTS
  Replies <- OneReply
  Note = "note"
  None = None
  MaxText = 2
  Mishaps = {{"host"}}
INVARIANT FinalTextWins
CHECK_DEADLOCK FALSE
