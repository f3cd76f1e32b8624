SPECIFICATION Spec
CONSTANTS
  HelperId <- MCHelperId
  Nobody = Nobody
  MaxLines = 2
  MaxFiles = 2
  Stream <- MCStream
  NoStream = NoStream
  Window = 3
  MaxRows = 2
  Unparsable = {}
INVARIANT LatestShown
CHECK_DEADLOCK FALSE
