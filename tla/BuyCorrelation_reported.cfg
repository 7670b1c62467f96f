SPECIFICATION Spec
CONSTANTS
  c1 = c1
  c2 = c2
  c3 = c3
  r1 = r1
  r2 = r2
  r3 = r3
  NoReq = NoReq
  NoOrder = NoOrder
  Calls <- MCTwoCalls
  ReqIds <- MCTwoIds
  OtherIds <- MCNoIds
  Overlapping = FALSE
  Patient = TRUE
CHECK_DEADLOCK FALSE
INVARIANT AcceptedIsReported
