\* Three callers of the singleton: one constructs, one gets in through the
\* reopened mutex, and one sleeps or comes late. The first value of sem.c, and a
\* limit a little above it, so that the producer reaches it and the consumer
\* reaches zero. More rounds than the one left when main destroys the mutex.
\* More rounds of main than its three, for every relation of its two threads; two
\* threads and one change of the second for ctime. The fifteen bytes of the
\* message. One echo child fills the table, the other client finds it full.
CONSTANTS
  t1 = t1  t2 = t2  t3 = t3
  Threads = {t1, t2, t3}
  NULL = NULL
  Initial = 10
  SemMax = 13
  MaxRounds = 4
  Nobody = "nobody"
  Times = 30
  MaxTime = 2
  CtimeWorkers = {"w1", "w2"}
  Message = 15
  Clients = {"c1", "c2"}
  EchoBacklog = 2
  ProcLimit = 1
  NoConn = "none"
  Prompt = {"c1"}
SPECIFICATION MCSpec
INVARIANTS OneBuilderAtATime NeverNull ThreadsHold
PROPERTIES SettledForGood OnlyForgottenSleepersHang ThreadsEnd
\* A program that has ended does nothing more.
CHECK_DEADLOCK FALSE
