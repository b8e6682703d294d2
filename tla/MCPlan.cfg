SPECIFICATION Spec
CONSTANTS
  Tables <- MCTables
  Rows <- MCRows
  Columns <- MCColumns
  KeyColumn <- MCKeyColumn
  Indexed <- MCIndexed
  Binds <- MCBinds
  Jobs <- MCJobs
  Contents <- MCContents
  Starts <- MCStarts
  Writes <- MCWrites
  Aliases <- MCAliases
  Conditions <- MCConditions
  Selections <- MCSelections
  Size <- MCSize
  MaxChanges = 1
INVARIANTS TypeOK Suffices SameAnswer LimitExact EndedByItsOwner
CHECK_DEADLOCK FALSE
