SPECIFICATION StorageSpec
CONSTANTS
  tablet = tablet
  form = form
  badForm = badForm
  Uploads = {tablet, form, badForm}
  Content <- SameBytes
  Webhook = {tablet}
  Seeded = {form, badForm}
  BadSeed = {badForm}
  MaxErrors = 1
  MaxKills = 1
  MaxDeletes = 1
  Editors = {e1, e2}
  MaxRuns = 2
  MaxEdits = 2
  MaxFaults = 1
  MaxDeaths = 1
  NumRows = 6
  NumAtStart = 5
  Title <- Titles
  PageSize = 2
  MaxPages = 4
  MaxChanges = 2
  N = 2
  Batch = 2
  MaxWrites = 3
  MaxFailedCalls = 1
  MaxCrashes = 1
  letter = letter
  entry = entry
  diary = diary
  Docs = {letter, entry}
  Series = {diary}
  Home <- OneSeries
  IdOf <- OwnIds
  Chunks <- Shrinking
  Limit = 3
  MaxRevisions = 2
  MaxFailures = 1
  MaxRestarts = 1
  MaxScripts = 1
  MaxUpsets = 1
INVARIANTS
  IngestTypeOK OneDocument CreatedIsWhole FilesBehindRows NothingLost
  HistoryTypeOK LatestReadable HistoryKept
  PagesTypeOK WalkComplete WalkOnce
  IndexTypeOK CorpusTypeOK HashMeansWhole QuietMeansWhole
PROPERTIES
  ImplementsIntake TmpRemoved SupersededPruned InSync
  CatchesUp DropHeals
CHECK_DEADLOCK FALSE
