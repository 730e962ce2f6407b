SPECIFICATION Spec
CONSTANTS
  Columns <- MCColumns
  TableOf <- MCTableOf
  Unique <- MCUnique
  Cases <- MCSortedSum
INVARIANTS
  InputsAligned
