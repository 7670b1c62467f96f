SPECIFICATION Spec
CONSTANTS
  l1 = l1
  l2 = l2
  l3 = l3
  l4 = l4
  NoLoop = NoLoop
  Loops <- MCLoops
  Prompt = FALSE
CHECK_DEADLOCK FALSE
INVARIANT OneLoop
