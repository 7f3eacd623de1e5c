\* Three clients of the UDP time server, one of which does not ask for the time;
\* two clients of the echo server. A datagram may be doubled once.
CONSTANTS
  Clients = {c1, c2, c3}
  TimeClients = {c1, c2}
  Copies = 2
  NoClient = NoClient
  EchoClients = {c1, c2}
SPECIFICATION MCSpec
INVARIANTS DatagramsHold
PROPERTIES WaitsForGood OnlyLossStarves TellsTheTime OnlyLossHangs
\* Every client may have been answered and the servers have nothing to do.
CHECK_DEADLOCK FALSE
