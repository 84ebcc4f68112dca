CONSTANTS
  MaxStatements = 2
  MaxLength = 4
SPECIFICATION Spec
INVARIANT TitleFirst
