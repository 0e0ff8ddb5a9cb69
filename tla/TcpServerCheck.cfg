CONSTANTS
  MaxConns = 3
  CLIENTS = 2
  NUM_SOCKETS = 3
  Words = 2
  MaxErrors = 1
  MaxPackets = 2
  MaxCuts = 1
  MaxUploads = 1
SPECIFICATION Spec
INVARIANTS TypeOK OneClient CommandsInOrder AnswersReachClient
PROPERTY NewClientServed
CHECK_DEADLOCK FALSE
