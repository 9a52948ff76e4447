CONSTANTS
  Conns = {c1, c2}
  Workers = {w1, w2}
  Janitor = janitor
  NoOne = none
SPECIFICATION FairSpec
INVARIANTS AloneToChange ListedExactly
PROPERTIES ImplementsTable DepartedForgotten
