CONSTANTS
  Calls = {c1, c2}
  Pushes = {}
SPECIFICATION Spec
INVARIANT DigitalIsAnswered
CHECK_DEADLOCK FALSE
