----------------------------- MODULE Settings -----------------------------
(***************************************************************************)
(* The clean-exit mark that the server keeps in its settings               *)
(* (src/server/settings.cpp): the constructor reads it and writes it, the  *)
(* destructor erases it, and inifile saves it like any other value.  After *)
(* an exit that was not clean run_server (src/main.cpp) initializes the    *)
(* server twice.                                                           *)
(***************************************************************************)
EXTENDS Inifile

CONSTANTS
  clean_exit,  \* the key of the mark
  False        \* its value while the server runs

ASSUME SettingsAssumption == clean_exit \in Keys /\ False \in Values

VARIABLES
  last_clean_exit,  \* what the constructor read
  saved,            \* whether this run saved its settings (history)
  ended             \* how the run before ended (history)

vars == <<iniVars, last_clean_exit, saved, ended>>

SInit ==
  /\ Init
  /\ last_clean_exit = TRUE /\ saved = "no" /\ ended = "first"

was_clean_exit(m) == m.refs[clean_exit].val # False

\* settings::settings; a mark without an end of line throws when it is read.
Construct ==
  LET m == load_file(file)
  IN  /\ m.refs[clean_exit].val # Bad
      /\ Start(write(m, clean_exit, False))
      /\ last_clean_exit' = was_clean_exit(m)
      /\ saved' = "no"
      /\ UNCHANGED ended

\* Mutant of Destruct: the mark is left.
DestructMarked == Exit(mem) /\ UNCHANGED <<last_clean_exit, saved, ended>>

\* settings::~settings, then ~inifile.
Destruct ==
  /\ Exit(erase(mem, {clean_exit}))
  /\ UNCHANGED <<last_clean_exit, saved, ended>>

\* The settings change; the mark is not among what changes.
ChangeSettings == Change(Keys \ {clean_exit})

Saving ==
  /\ save \/ SaveSteps
  /\ saved' = CASE pc = "written" /\ pc' = "reload" -> "failed"
                [] saved # "failed" /\ pc # "idle" /\ pc' = "idle" -> "yes"
                [] OTHER -> saved
  /\ ended' = IF pc' # "down" THEN ended
              ELSE IF stale THEN "clean unsaved" ELSE "clean"

Dying ==
  /\ Crash \/ Throw
  /\ ended' = IF saved = "yes" /\ ~exiting /\ ~stale' THEN "crashed"
              ELSE "crashed unsaved"
  /\ UNCHANGED saved

SNext ==
  \/ Construct \/ Destruct
  \/ ChangeSettings /\ UNCHANGED <<last_clean_exit, saved, ended>>
  \/ (Saving \/ Dying) /\ UNCHANGED last_clean_exit

SSpec == SInit /\ [][SNext]_vars

-----------------------------------------------------------------------------
(* Properties.                                                             *)

\* A run that follows a clean exit says so.  A run that follows a crash says
\* so, provided that the run that crashed had saved its settings and was not
\* exiting.  Both suppose that the last full save was completed.
ExitReported ==
  pc # "down" =>
    /\ ended = "clean" => last_clean_exit
    /\ ended = "crashed" => ~last_clean_exit

=============================================================================
