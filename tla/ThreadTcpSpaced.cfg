\* The same with spaced arrivals and a request that is not for the time.
CONSTANTS
  c1 = c1  c2 = c2  c3 = c3
  Clients = {c1, c2, c3}
  TimeClients = {c1, c2}
  Prompt = {c1}
  Backlog = 2
  NoConn = NoConn
  MaxFds = 2
SPECIFICATION SpacedSpec
INVARIANTS SpacedHolds
PROPERTIES NobodyInTheWay ImplementsTimeService
