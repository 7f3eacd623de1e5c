\* Two clients are enough for two threads to share a connection.
CONSTANTS
  c1 = c1  c2 = c2
  Clients = {c1, c2}
  TimeClients = {c1, c2}
  Prompt = {c1}
  Backlog = 2
  NoConn = NoConn
  MaxFds = 2
SPECIFICATION Spec
INVARIANT OneThreadPerClient
