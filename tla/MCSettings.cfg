\* Runs that end cleanly and runs that crash, files that cannot be opened.
CONSTANTS
  Keys <- SettingsKeys
  Values <- SettingsValues
  Length <- LengthOfValue
  MayFail = TRUE
  MaxCrashes = 1
  MaxChanges = 3
  clean_exit <- Mark
  False = "false"
SPECIFICATION SSpec
INVARIANTS
  SavedAgrees
  ExitReported
PROPERTIES
  OverwritesWithCopy
CHECK_DEADLOCK FALSE
