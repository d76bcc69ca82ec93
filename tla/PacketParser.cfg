SPECIFICATION Spec
CONSTANTS
  Frames <- SomeFrames
  Functions <- SomeFunctions
INVARIANTS
  HeadersAreTheFrames
  AccessorsReadTheFrame
  CompleteHeadersAreHanded
  PayloadIsExact
CHECK_DEADLOCK FALSE
