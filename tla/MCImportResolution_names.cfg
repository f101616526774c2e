SPECIFICATION Spec
CONSTANTS
  NoFile = NoFile
  NoName = NoName
  Main = "main"
  Files <- AllFiles
  Paths <- AllPaths
  FileOf <- FileAt
  Names <- AllNames
  Projects <- Regular
INVARIANT SkippedWasImported
CHECK_DEADLOCK FALSE
