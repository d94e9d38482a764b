SPECIFICATION Spec
CONSTANTS
  src = src  app = app  version = version  example = example
  config = config  data = data
  Absent = Absent  Torn = Torn  Mixed = Mixed  NoLink = NoLink  Outside = Outside
  NoTab = NoTab
  RunningPython = 2
  CodePaths <- SwapOrder
  CodeDirs = {src}
  NestedPaths = {example}
  MaxCommands = 3
  KeepPaths = {config, data}
  NeededPaths = {src, app}
  VersionPath = version
  Published <- Bundles
  Bundle <- Carries
  Faults = {"fetch", "wipe", "swap", "pip", "restore", "crash"}
  Available <- Folders
  Tabs = {t1, t2}
  OnDisk <- OwnVersions
  Offers <- Releases
  OkTtl = 3
  FailTtl = 2
  LastHour = 5
CHECK_DEADLOCK FALSE
INVARIANTS
  UpdateTypeOK FolderIsSafe ReportIsTrue CurrentIsUsable RollbackIsRight
  QuestionsAreFew
PROPERTY InstalledIsKept
