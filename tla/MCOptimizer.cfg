SPECIFICATION Spec
CONSTANTS
  Columns <- MCColumns
  TableOf <- MCTableOf
  Unique <- MCUnique
  Cases <- MCCases
INVARIANTS
  TypeOK
  InputsAligned
  OrderAndGroupsKept
  SemiJoinsOnlyFilter
  ReadsAreWritten
