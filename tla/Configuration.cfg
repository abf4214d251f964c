SPECIFICATION FairSpec
CONSTANTS
  Page = {p1, p2}
  Setting = {"base_url", "local_provider", "model"}
  Catalog <- MCCatalog
  Default <- MCDefault
  Unset = "unset"
  Files <- MCFiles
  Environments <- MCEnvironments
  Absent = Absent
  Torn = Torn
  MaxRevision = 2
  MaxBusy = 1
  MaxEdits = 1
  BusyEdits = FALSE
  MaxInterruptions = 1
CHECK_DEADLOCK FALSE
INVARIANT RevisionNamesContent
INVARIANT MicrophoneStaysLocal
INVARIANT BrokenDefaultUnused
PROPERTY SeenBeforeWrite
PROPERTY EditsKept
PROPERTY ServesAgain
