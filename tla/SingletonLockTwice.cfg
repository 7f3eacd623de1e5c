\* Two callers are enough for the same thread to be given two instances.
CONSTANTS
  t1 = t1  t2 = t2
  Threads = {t1, t2}
  NULL = NULL
SPECIFICATION Spec
INVARIANTS OneInstance
