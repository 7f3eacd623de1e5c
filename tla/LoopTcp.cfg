\* Three clients over a queue of two: the queue fills, one request is not for
\* the time and one client may stay silent for ever.
CONSTANTS
  c1 = c1  c2 = c2  c3 = c3
  Clients = {c1, c2, c3}
  TimeClients = {c1, c2}
  Prompt = {c1, c3}
  Backlog = 2
  NoConn = NoConn
SPECIFICATION Spec
INVARIANTS LoopHolds
PROPERTIES HeadOfLine ImplementsTimeService
