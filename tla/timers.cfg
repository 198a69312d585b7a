SPECIFICATION Spec
CONSTANTS
  Timer = {t1, t2, t3, t4}
  Caller = {c1, c2}
  Bystander = {b}
  None = None
  Delays = {0, 1}
  MaxTime = 2
INVARIANTS NeverEarly NoTimerStranded
SYMMETRY TimerSymmetry
CHECK_DEADLOCK FALSE
