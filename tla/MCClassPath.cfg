\* Command lines and class paths over the file systems of MCClassPath.
CONSTANTS
  CommandLines <- MCCommandLines
  ClassPaths <- MCClassPaths
  WorkingDir = "dir"
  Systems <- MCSystems
  LinkSize = 1
  Sizes <- MCSizes
  Queries <- MCQueries
SPECIFICATION Spec
INVARIANTS
  CommandMeant
  FirstEntryWins
  WholeFile
\* the search ends
CHECK_DEADLOCK FALSE
