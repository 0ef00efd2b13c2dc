SPECIFICATION Spec
CONSTANTS
  CrecvBuf = 4
  Requests = {1, 2, 3}
  ReqCap = 2
  PnWin = 8
  MaxSteps = 5
  Datagrams <- ClientDatagrams
  Rooms <- FullRoom
INVARIANTS
  HandledAsSent
\* A server stops when the clients send nothing more.
CHECK_DEADLOCK FALSE
