\* Two replies and a note of one turn; host-core, or the sidecar and the
\* process, die once, at any step or between two writes of one.
SPECIFICATION FairSpec
CONSTANTS
  Replies <- TwoReplies
  Note = "note"
  None = None
  MaxText = 1
  Mishaps = {{"host"}, {"sidecar", "process"}}
INVARIANTS
  TypeOK
  FinishedTextLands
  TranscriptInOrder
PROPERTIES
  SettledRowsStay
  KeepsReplies
  CompletedTurnsSettle
\* A turn ends once and everything is settled.
CHECK_DEADLOCK FALSE
