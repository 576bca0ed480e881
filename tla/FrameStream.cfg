SPECIFICATION Spec
CONSTANTS
  Carriers = {"tcp", "tls", "ws"}
  Frames <- MCFrames
  LaterFrames <- MCLater
  MaxFrames = 2
  Cuts = {1, 4, 8}
  Composites <- MCComposites
  Routes <- MCRoutes
  Auths <- MCAuths
INVARIANTS Faithful CountersAgree NoFrameWaiting
CHECK_DEADLOCK FALSE
