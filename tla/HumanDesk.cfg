\* Three calls at a time on one row; one fault, or one stale write that undoes
\* an update; ladders of three and four roles.
CONSTANTS
  Calls = {c1, c2, c3}
  None = None
  Gone = Gone
  Top = 3
  Tops = {2, 3}
  MaxFaults = 1
SYMMETRY CallSymmetry
SPECIFICATION Spec
INVARIANT TypeOK
INVARIANT EscalationsAddUp
PROPERTY PeopleReopen
CHECK_DEADLOCK FALSE
