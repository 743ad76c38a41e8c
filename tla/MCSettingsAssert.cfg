\* The assertions of save_file when files cannot be opened.
CONSTANTS
  Keys <- SettingsKeys
  Values <- SettingsValues
  Length <- LengthOfValue
  MayFail = TRUE
  MaxCrashes = 1
  MaxChanges = 3
  clean_exit <- Mark
  False = "false"
SPECIFICATION SSpec
INVARIANTS
  AssertionsHold
CHECK_DEADLOCK FALSE
