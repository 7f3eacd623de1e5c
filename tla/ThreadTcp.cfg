\* Three interchangeable clients over two descriptors: the table fills and
\* descriptors are reused while a thread still holds their number.
CONSTANTS
  c1 = c1  c2 = c2  c3 = c3
  Clients = {c1, c2, c3}
  TimeClients = {c1, c2, c3}
  Prompt = {c1, c2, c3}
  Backlog = 2
  NoConn = NoConn
  MaxFds = 2
SYMMETRY Symmetry
SPECIFICATION Spec
INVARIANT AnswersAreAskedFor
PROPERTY MixUpsLoseDescriptors
