\* Three clients, a queue of two and room for two children, so that the process
\* table fills; one client may stay silent for ever.
CONSTANTS
  c1 = c1  c2 = c2  c3 = c3
  Clients = {c1, c2, c3}
  TimeClients = {c1, c2, c3}
  Prompt = {c1, c3}
  Backlog = 2
  NoConn = NoConn
  ProcLimit = 3
SPECIFICATION Spec
INVARIANTS ForkHolds NoReaping
PROPERTIES NobodyInTheWay ImplementsTimeService
