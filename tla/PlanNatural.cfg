SPECIFICATION Spec
CONSTANTS
  Tables <- MCTables
  Rows <- MCRows
  Columns <- MCColumns
  KeyColumn <- MCKeyColumn
  Indexed <- MCIndexed
  Binds <- MCBinds
  Jobs <- NaturalJobs
  Contents <- MCContents
  Starts <- MCStarts
  Writes <- MCWrites
  Aliases <- MCAliases
  Conditions <- MCConditions
  Selections <- MCSelections
  Size <- MCSize
  MaxChanges = 1
INVARIANT Suffices
CHECK_DEADLOCK FALSE
