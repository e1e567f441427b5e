SPECIFICATION Spec
INVARIANTS PiecesRight NamesRight EndsAtLine MessageRight StructuresRight
CHECK_DEADLOCK FALSE
