CONSTANTS
  Call = {k1, k2, k3, k4}
  Payload = {p, q}
  None = None
  MaxRestart = 2
SPECIFICATION Spec
SYMMETRY Symmetry
INVARIANTS TypeOK OnceOnly OneAnswer
PROPERTY ErrorHidesNothing
CHECK_DEADLOCK FALSE
