SPECIFICATION Spec
CONSTANTS
  NoFile = NoFile
  NoName = NoName
  Main = "main"
  Files <- AllFiles
  Paths <- AllPaths
  FileOf <- FileAt
  Names <- AllNames
  Projects <- AllProjects
INVARIANTS ItemsOnce ImportsDeliver ErrorsAreReported NothingUnasked
PROPERTY Termination
CHECK_DEADLOCK FALSE
