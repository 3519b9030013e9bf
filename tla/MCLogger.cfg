\* Two threads, two runs, three days of which the last has the number of the first
\* again, and a new file at every second line.
CONSTANTS
  NoFile = NoFile
  Thread = {main, clock}
  MaxLines = 2
  Month = 2
  MaxDay = 2
  MaxWrites = 4
  MaxRuns = 1
CHECK_DEADLOCK FALSE
SPECIFICATION Spec
INVARIANTS TypeOK OnceInOrder LoggedIsOnDisk DaysApart FilesSplit
PROPERTY FilesGrow
