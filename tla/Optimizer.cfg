SPECIFICATION Spec
CONSTANTS
  Db <- MCDb
  Width <- MCWidth
  Statements <- MCStatements
INVARIANTS RowsKept PredicatesSettled
CHECK_DEADLOCK FALSE
