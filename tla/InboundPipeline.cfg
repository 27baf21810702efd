\* One interaction; two runs of its jobs at a time; two faults and two changes of
\* the gate, three of them together.
CONSTANTS
  Slots = {s1, s2}
  None = None
  Attempts = 2
  MaxFaults = 2
  MaxGateChanges = 2
  MaxTogether = 3
SYMMETRY SlotSymmetry
SPECIFICATION Spec
INVARIANT TypeOK
INVARIANT OneFaultIsSurvived
INVARIANT AnsweredOnce
INVARIANT HistoryIsWhole
CHECK_DEADLOCK FALSE
