SPECIFICATION Spec
CONSTANTS
  Columns <- MCColumns
  TableOf <- MCTableOf
  Unique = {}
  Inputs <- MCInputs
  StringCols <- MCStringCols
  Unlisted = {"c_title"}
INVARIANTS FrontEndsAgree TablesKept JoinSides ColumnsResolve
CHECK_DEADLOCK FALSE
