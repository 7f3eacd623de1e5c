\* Three clients over a queue of two and CLIENTNUM = 2 workers; one client may
\* stay silent for ever.
CONSTANTS
  c1 = c1  c2 = c2  c3 = c3
  w1 = w1  w2 = w2
  Clients = {c1, c2, c3}
  TimeClients = {c1, c2}
  Prompt = {c1, c3}
  Backlog = 2
  Workers = {w1, w2}
  NoConn = NoConn
  Nobody = Nobody
SPECIFICATION Spec
INVARIANTS MutualExclusion OneOwner OneAnswer NoBrokenPipe
PROPERTIES WedgedForGood OnlyWedgedOrSilent ImplementsTimeService
