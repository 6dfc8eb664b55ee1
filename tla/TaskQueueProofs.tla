--------------------------- MODULE TaskQueueProofs ---------------------------
(***************************************************************************)
(* Proofs about TaskQueue for any sets of callers, stoppers, threads and   *)
(* tasks, when Thread::Start does not fail.  The properties are not        *)
(* inductive as they stand: which thread is where follows from how the     *)
(* thread pointer, the running flag and the mutex go together (IInv).      *)
(***************************************************************************)
EXTENDS TaskQueue, TLAPS

\* A thread object other than the one pointed to does not exist; the one
\* pointed to is inside HandleTasks exactly while running is set.
PointerInv ==
  /\ \A w \in Threads : w # thread => tpc[w] = "none"
  /\ running => thread \in Threads /\ tpc[thread] \in Live
  /\ ~running /\ thread # NoThread => tpc[thread] \in {"exiting", "ended"}
  /\ current # NoTask => thread \in Threads /\ tpc[thread] = "handling"

\* The mutex is kept from step to step by whoever joins, and by nobody else.
MutexInv ==
  /\ \A c \in Adders : apc[c] = "joining" =>
       mutex = c /\ ~running /\ ~stopped /\ thread \in Threads
  /\ \A s \in Stoppers : spc[s] = "joining" =>
       mutex = s /\ ~running /\ thread \in Threads
  /\ \A w \in Threads : apc[w] = "idle"

\* Stop and what it leaves behind.
StopInv ==
  /\ \A s \in Stoppers : spc[s] # "idle" => stopped
  /\ stopped /\ ~running => list = <<>>
  /\ ~stopped /\ ~running /\ list # <<>> => \E c \in Adders : apc[c] = "joining"
  /\ \A s \in Stoppers : spc[s] = "returned" => ~running /\ thread = NoThread

IInv == TypeOK /\ PointerInv /\ MutexInv /\ StopInv

------------------------------------------------------------------------------

LEMMA InitIInv == Init => IInv
<1> SUFFICES ASSUME Init PROVE IInv
  OBVIOUS
<1> USE DEF Init
<1>1. TypeOK
  <2>1. list \in Seq(Tasks)
    OBVIOUS
  <2>2. apc \in [Adders -> {"idle", "joining"}]
    OBVIOUS
  <2>3. /\ tpc \in [Threads -> ThreadStates]
        /\ spc \in [Stoppers -> {"idle", "waiting", "woken", "joining", "returned"}]
    BY DEF ThreadStates
  <2> QED
    BY <2>1, <2>2, <2>3 DEF TypeOK
<1>2. PointerInv
  BY DEF PointerInv
<1>3. MutexInv
  BY DEF MutexInv, Adders
<1>4. StopInv
  BY DEF StopInv
<1> QED
  BY <1>1, <1>2, <1>3, <1>4 DEF IInv

\* A step of AddTask.
LEMMA AddTaskStep ==
  ASSUME StartMayFail = FALSE, IInv, NEW c \in Adders, AddTask(c)
  PROVE  IInv'
<1> USE TaskQueueAssumption DEF IInv, Adders
<1>1. CASE \E t \in Tasks : AddIgnored(c, t)
  BY <1>1 DEF AddIgnored, CallsAddTask, TypeOK, PointerInv, MutexInv, StopInv
<1>2. CASE \E t \in Tasks : AddToRunning(c, t)
  <2> PICK t \in Tasks : AddToRunning(c, t)
    BY <1>2
  <2> USE DEF AddToRunning, CallsAddTask
  <2>1. TypeOK'
    BY DEF TypeOK
  <2>2. PointerInv' /\ MutexInv' /\ StopInv'
    BY DEF PointerInv, MutexInv, StopInv, TypeOK
  <2> QED
    BY <2>1, <2>2
<1>3. CASE \E t \in Tasks : AddAndStart(c, t)
  <2> PICK t \in Tasks : AddAndStart(c, t)
    BY <1>3
  <2> PICK w \in Threads : /\ tpc[w] = "none"
                           /\ thread' = w
                           /\ tpc' = [tpc EXCEPT ![w] = "started"]
                           /\ running' = TRUE
    BY DEF AddAndStart, StartThread
  <2> USE DEF AddAndStart, CallsAddTask
  <2>1. TypeOK'
    BY DEF TypeOK, ThreadStates
  <2>2. PointerInv'
    BY DEF PointerInv, TypeOK, Live
  <2>3. MutexInv' /\ StopInv'
    BY DEF MutexInv, StopInv, TypeOK
  <2> QED
    BY <2>1, <2>2, <2>3
<1>4. CASE \E t \in Tasks : AddAndJoin(c, t)
  <2> PICK t \in Tasks : AddAndJoin(c, t)
    BY <1>4
  <2> USE DEF AddAndJoin, CallsAddTask
  <2>1. TypeOK'
    BY DEF TypeOK
  <2>2. PointerInv'
    BY DEF PointerInv
  <2>3. c \notin Threads
    BY DEF PointerInv
  <2>4. MutexInv' /\ StopInv'
    BY <2>3 DEF MutexInv, StopInv, TypeOK
  <2> QED
    BY <2>1, <2>2, <2>4
<1>5. CASE AddJoined(c)
  <2> DEFINE pcs == [tpc EXCEPT ![thread] = "none"]
  <2>0. thread \in Threads /\ ~stopped /\ mutex = c
    BY <1>5 DEF AddJoined, MutexInv
  <2> PICK w \in Threads : /\ pcs[w] = "none"
                           /\ thread' = w
                           /\ tpc' = [pcs EXCEPT ![w] = "started"]
                           /\ running' = TRUE
    BY <1>5 DEF AddJoined, StartThread
  <2> USE <1>5, <2>0 DEF AddJoined
  <2>1. TypeOK'
    BY DEF TypeOK, ThreadStates
  <2>2. PointerInv'
    BY DEF PointerInv, TypeOK, Live
  <2>3. MutexInv' /\ StopInv'
    BY DEF MutexInv, StopInv, TypeOK
  <2> QED
    BY <2>1, <2>2, <2>3
<1> QED
  BY <1>1, <1>2, <1>3, <1>4, <1>5 DEF AddTask

\* A step of a queue thread.
LEMMA HandleTasksStep ==
  ASSUME IInv, NEW w \in Threads, HandleTasks(w)
  PROVE  IInv'
<1> USE TaskQueueAssumption DEF IInv, Adders
<1>1. CASE TakeTask(w)
  <2> USE <1>1 DEF TakeTask, AtLoop
  <2>1. TypeOK'
    BY DEF TypeOK, ThreadStates
  <2>2. PointerInv'
    BY DEF PointerInv, TypeOK, Live
  <2>3. MutexInv' /\ StopInv'
    BY DEF MutexInv, StopInv, PointerInv, TypeOK
  <2> QED
    BY <2>1, <2>2, <2>3
<1>2. CASE HandlerReturns(w)
  <2> USE <1>2 DEF HandlerReturns
  <2>1. TypeOK'
    BY DEF TypeOK, ThreadStates
  <2>2. PointerInv'
    BY DEF PointerInv, TypeOK, Live
  <2>3. MutexInv' /\ StopInv'
    BY DEF MutexInv, StopInv, PointerInv, TypeOK
  <2> QED
    BY <2>1, <2>2, <2>3
<1>3. CASE LeaveLoop(w)
  <2> USE <1>3 DEF LeaveLoop, AtLoop
  <2>0. /\ \A s \in Stoppers : spc'[s] = "joining" => spc[s] = "joining"
        /\ \A s \in Stoppers : spc'[s] = "returned" => spc[s] = "returned"
        /\ \A s \in Stoppers : spc'[s] # "idle" => spc[s] # "idle"
    BY DEF TypeOK
  <2>1. TypeOK'
    <3>1. list' \in Seq(Tasks)
      OBVIOUS
    <3>2. spc' \in [Stoppers -> {"idle", "waiting", "woken", "joining", "returned"}]
      BY DEF TypeOK
    <3>3. tpc' \in [Threads -> ThreadStates]
      BY DEF TypeOK, ThreadStates
    <3> QED
      BY <3>1, <3>2, <3>3 DEF TypeOK
  <2>2. PointerInv'
    BY DEF PointerInv, TypeOK, Live
  <2>3. MutexInv'
    BY <2>0 DEF MutexInv
  <2>4. StopInv'
    BY <2>0 DEF StopInv
  <2> QED
    BY <2>1, <2>2, <2>3, <2>4
<1>4. CASE ThreadEnds(w)
  <2> USE <1>4 DEF ThreadEnds
  <2>1. TypeOK'
    BY DEF TypeOK, ThreadStates
  <2>2. PointerInv'
    BY DEF PointerInv, TypeOK, Live
  <2>3. MutexInv' /\ StopInv'
    BY DEF MutexInv, StopInv, TypeOK
  <2> QED
    BY <2>1, <2>2, <2>3
<1> QED
  BY <1>1, <1>2, <1>3, <1>4 DEF HandleTasks

\* A step of Stop.
LEMMA StopStep ==
  ASSUME IInv, NEW s \in Stoppers, StopCall(s)
  PROVE  IInv'
<1> USE TaskQueueAssumption DEF IInv, Adders
<1>1. CASE Stop(s) \/ StopResumes(s)
  <2>1. /\ mutex = Nobody
        /\ stopped' = TRUE
        /\ StopProceeds(s)
        /\ UNCHANGED <<list, running, thread, tpc, current, apc, fresh>>
    BY <1>1 DEF Stop, StopResumes, StopInv, TypeOK
  <2>2. \A c \in Adders : apc[c] # "joining"
    BY <2>1 DEF MutexInv
  <2>3. TypeOK'
    BY <2>1 DEF TypeOK, StopProceeds
  <2>4. PointerInv'
    BY <2>1 DEF PointerInv
  <2>5. MutexInv'
    BY <2>1, <2>2 DEF MutexInv, StopProceeds, TypeOK
  <2>6. StopInv'
    BY <2>1, <2>2 DEF StopInv, StopProceeds, TypeOK
  <2> QED
    BY <2>3, <2>4, <2>5, <2>6
<1>2. CASE SpuriousWakeup(s)
  BY <1>2 DEF SpuriousWakeup, TypeOK, PointerInv, MutexInv, StopInv
<1>3. CASE StopJoined(s)
  <2> USE <1>3 DEF StopJoined
  <2>1. TypeOK'
    BY DEF TypeOK, ThreadStates
  <2>2. PointerInv'
    BY DEF PointerInv, MutexInv, TypeOK
  <2>3. MutexInv'
    BY DEF MutexInv, TypeOK
  <2>4. StopInv'
    BY DEF StopInv, MutexInv, TypeOK
  <2> QED
    BY <2>1, <2>2, <2>3, <2>4
<1> QED
  BY <1>1, <1>2, <1>3 DEF StopCall

\* Every step keeps the inductive invariant.
LEMMA NextIInv ==
  ASSUME StartMayFail = FALSE, IInv, [Next]_vars
  PROVE  IInv'
<1>1. CASE \E c \in Adders : AddTask(c)
  BY <1>1, AddTaskStep
<1>2. CASE \E w \in Threads : HandleTasks(w)
  BY <1>2, HandleTasksStep
<1>3. CASE \E s \in Stoppers : StopCall(s)
  BY <1>3, StopStep
<1>4. CASE UNCHANGED vars
  BY <1>4 DEF vars, IInv, TypeOK, PointerInv, MutexInv, StopInv
<1> QED
  BY <1>1, <1>2, <1>3, <1>4 DEF Next

LEMMA Invariance == ASSUME StartMayFail = FALSE PROVE Spec => []IInv
<1>1. IInv /\ [Next]_vars => IInv'
  BY NextIInv
<1> QED
  BY <1>1, InitIInv, PTL DEF Spec

------------------------------------------------------------------------------

\* The variables of the queue have their types.
THEOREM TypeCorrect ==
  ASSUME StartMayFail = FALSE
  PROVE  Spec => []TypeOK
<1>1. IInv => TypeOK
  BY DEF IInv
<1> QED
  BY <1>1, Invariance, PTL

\* The running flag is set exactly while one thread handles the list
\* (TaskQueue.h, the flag tested by AddTask before it starts a thread).
THEOREM RunningIsTrue ==
  ASSUME StartMayFail = FALSE
  PROVE  Spec => []RunningIsOneThread
<1>1. IInv => RunningIsOneThread
  BY TaskQueueAssumption DEF IInv, TypeOK, PointerInv, RunningIsOneThread, Live
<1> QED
  BY <1>1, Invariance, PTL

\* Joining a thread with the mutex locked cannot deadlock: the joined thread
\* needs the mutex no more (the Join calls of AddTask and Stop).
THEOREM JoinIsSafe ==
  ASSUME StartMayFail = FALSE
  PROVE  Spec => []JoinsOnlyLeavingThreads
<1>1. IInv => JoinsOnlyLeavingThreads
  <2> SUFFICES ASSUME IInv PROVE JoinsOnlyLeavingThreads
    OBVIOUS
  <2>1. ASSUME NEW c \in Adders, apc[c] = "joining"
        PROVE  mutex = c /\ c # thread /\ tpc[thread] \in {"exiting", "ended"}
    BY <2>1, TaskQueueAssumption DEF IInv, PointerInv, MutexInv
  <2>2. ASSUME NEW s \in Stoppers, spc[s] = "joining"
        PROVE  mutex = s /\ tpc[thread] \in {"exiting", "ended"}
    BY <2>2, TaskQueueAssumption DEF IInv, PointerInv, MutexInv
  <2> QED
    BY <2>1, <2>2 DEF JoinsOnlyLeavingThreads
<1> QED
  BY <1>1, Invariance, PTL

\* A queued task has a thread, or is about to get one.
THEOREM NoTaskForgotten ==
  ASSUME StartMayFail = FALSE
  PROVE  Spec => []NoForgottenTask
<1>1. IInv => NoForgottenTask
  BY DEF IInv, TypeOK, StopInv, NoForgottenTask
<1> QED
  BY <1>1, Invariance, PTL

\* When Stop returns nothing of the queue runs any more, so that the
\* destructors of ApplicationUpdater and SecurityAgentImpl may go on.
THEOREM StopIsFinal ==
  ASSUME StartMayFail = FALSE
  PROVE  Spec => []NothingAfterStop
<1>1. IInv => NothingAfterStop
  BY TaskQueueAssumption DEF IInv, TypeOK, PointerInv, StopInv, NothingAfterStop
<1> QED
  BY <1>1, Invariance, PTL

------------------------------------------------------------------------------

\* Every step of the queue is a step of FifoServer or changes nothing of it.
LEMMA StepSimulates ==
  ASSUME IInv, [Next]_vars
  PROVE  [Server!Next]_(Server!vars)
<1> USE DEF Server!Next, Server!vars
<1>1. ASSUME NEW c \in Adders, AddTask(c)
      PROVE  [Server!Next]_(Server!vars)
  <2>1. ASSUME NEW t \in Tasks, AddIgnored(c, t)
        PROVE  UNCHANGED Server!vars
    BY <2>1 DEF AddIgnored
  <2>2. ASSUME NEW t \in Tasks,
               AddToRunning(c, t) \/ AddAndStart(c, t) \/ AddAndJoin(c, t)
        PROVE  Server!Accept(t)
    BY <2>2 DEF AddToRunning, AddAndStart, AddAndJoin, Server!Accept
  <2>3. AddJoined(c) => UNCHANGED Server!vars
    BY DEF AddJoined
  <2> QED
    BY <1>1, <2>1, <2>2, <2>3 DEF AddTask
<1>2. ASSUME NEW w \in Threads, HandleTasks(w)
      PROVE  [Server!Next]_(Server!vars)
  <2>1. TakeTask(w) => Server!Begin
    BY DEF TakeTask, AtLoop, Server!Begin, IInv, PointerInv
  <2>2. HandlerReturns(w) => Server!Finish \/ UNCHANGED Server!vars
    BY DEF HandlerReturns, Server!Finish
  <2>3. LeaveLoop(w) => Server!Discard \/ UNCHANGED Server!vars
    BY DEF LeaveLoop, Server!Discard, IInv, TypeOK
  <2>4. ThreadEnds(w) => UNCHANGED Server!vars
    BY DEF ThreadEnds
  <2> QED
    BY <1>2, <2>1, <2>2, <2>3, <2>4 DEF HandleTasks
<1>3. ASSUME NEW s \in Stoppers, StopCall(s)
      PROVE  [Server!Next]_(Server!vars)
  <2>1. Stop(s) => Server!Close
    BY DEF Stop, Server!Close
  <2>2. StopResumes(s) \/ SpuriousWakeup(s) \/ StopJoined(s) => UNCHANGED Server!vars
    BY DEF StopResumes, SpuriousWakeup, StopJoined
  <2> QED
    BY <1>3, <2>1, <2>2 DEF StopCall
<1>4. CASE UNCHANGED vars
  BY <1>4 DEF vars
<1> QED
  BY <1>1, <1>2, <1>3, <1>4 DEF Next

\* The queue implements the FIFO server its two users rely on: tasks begin one
\* at a time, in the order of AddTask, and none begins after Stop was called.
THEOREM QueueIsFifo ==
  ASSUME StartMayFail = FALSE
  PROVE  Spec => ImplementsFifo
<1>1. Init => Server!Init
  BY DEF Init, Server!Init
<1>2. IInv /\ [Next]_vars => [Server!Next]_(Server!vars)
  BY StepSimulates
<1> QED
  BY <1>1, <1>2, Invariance, PTL DEF Spec, ImplementsFifo, Server!Spec

==============================================================================
