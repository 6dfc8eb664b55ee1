\* Two threads that add four tasks, the queue's thread adding some of them
\* from its handler, and a destructor that stops the queue at any moment.
SPECIFICATION FairSpec
CONSTANTS
  Callers = {c1, c2}
  Stoppers = {s1}
  Threads = {w1, w2}
  Tasks = {t1, t2, t3, t4}
  NoTask = NoTask
  NoThread = NoThread
  Nobody = Nobody
  StartMayFail = FALSE
INVARIANTS
  TypeOK
  RunningIsOneThread
  JoinsOnlyLeavingThreads
  NoForgottenTask
  NothingAfterStop
PROPERTIES
  ImplementsFifo
  AddedIsHandled
  StopReturns
\* The destructor returns and every task was offered: the queue is gone.
CHECK_DEADLOCK FALSE
