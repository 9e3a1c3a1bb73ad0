SPECIFICATION ConversationSpec
CONSTANTS
  MaxTexts = 2
  MaxTurns = 3
  MaxReplays = 2
  Posts = {p1, p2, p3}
  NumBodies = 2
  MaxWork = 3
  Readers = {r1, r2}
  BufferSize = 1
  MaxGenerations = 2
  MaxTokens = 1
  MaxCommands = 2
  LastBody = 2
  MaxMade = 5
  MaxText = 5
  MaxChunkSize = 3
INVARIANTS
  ClarifyTypeOK ContextIsCurrent
  ChatTypeOK OnlyApproved DeletedStays
  StreamTypeOK EndsAfterRun
  PageShowsOutput EditsWhatItQuotes
  ChunksCover
PROPERTY StreamsEnd
CHECK_DEADLOCK FALSE
