SPECIFICATION FairSpec
CONSTANTS
  HelperId <- MCHelperId
  Nobody = Nobody
  MaxLines = 2
  MaxFiles = 2
  Stream <- MCStream
  NoStream = NoStream
  Window = 3
  MaxRows = 2
  Unparsable = {1}
INVARIANTS TypeOK LinesWhole SleepsOnlyAtEnd Ordered NothingSkipped
PROPERTIES Shows Reaped
CHECK_DEADLOCK FALSE
