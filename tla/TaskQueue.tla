------------------------------ MODULE TaskQueue ------------------------------
(***************************************************************************)
(* TaskQueue<TASK, HANDLER> (agent/src/TaskQueue.h): a list of tasks, and  *)
(* a thread that is started when a task arrives while none is running,     *)
(* drains the list, and ends.  SecurityAgentImpl uses one queue for the    *)
(* events of its listeners, ApplicationUpdater one for the applications to *)
(* update.                                                                 *)
(*                                                                         *)
(* A critical section of the mutex is one step.  The mutex is a variable   *)
(* because AddTask and Stop keep it while they join the previous thread;   *)
(* a thread that is joined needs some more time after it has left its last *)
(* critical section.                                                       *)
(***************************************************************************)
EXTENDS Naturals, Sequences, FiniteSets

CONSTANTS
  Callers,       \* threads that call AddTask
  Stoppers,      \* threads that call Stop (the owner's destructor)
  Threads,       \* QueueThread objects that can exist at a time
  Tasks,         \* the tasks of all calls of AddTask: each is a new object
  NoTask,
  NoThread,      \* thread == nullptr
  Nobody,        \* the mutex is free
  StartMayFail   \* can Thread::Start fail (its result is not looked at)?

ASSUME TaskQueueAssumption ==
  /\ NoTask \notin Tasks
  /\ NoThread \notin Threads
  /\ Nobody \notin Callers \cup Stoppers \cup Threads
  /\ Callers \cap Stoppers = {}
  /\ Callers \cap Threads = {}
  /\ Stoppers \cap Threads = {}
  /\ StartMayFail \in BOOLEAN

VARIABLES
  mutex,     \* who keeps the mutex from one step to the next
  list,      \* the queued tasks
  running,
  stopped,
  thread,    \* the QueueThread the queue points to
  tpc,       \* where each QueueThread is
  current,   \* the task whose HandleTask has been called
  apc,       \* where each caller of AddTask is
  spc,       \* where each caller of Stop is
  fresh      \* tasks nobody has offered yet

vars == <<mutex, list, running, stopped, thread, tpc, current, apc, spc, fresh>>

\* A QueueThread is not allocated; started; inside taskHandler->HandleTask;
\* back from it; out of HandleTasks; terminated; or Start failed.
ThreadStates ==
  {"none", "started", "handling", "handled", "exiting", "ended", "failed"}

\* The states in which a thread is inside HandleTasks or about to enter it.
Live == {"started", "handling", "handled"}

\* AddTask is called by threads of the program, and by the queue's own thread
\* while it runs a handler (a listener that changes the storage).
Adders == Callers \cup Threads

TypeOK ==
  /\ mutex \in Adders \cup Stoppers \cup {Nobody}
  /\ list \in Seq(Tasks)
  /\ running \in BOOLEAN
  /\ stopped \in BOOLEAN
  /\ thread \in Threads \cup {NoThread}
  /\ tpc \in [Threads -> ThreadStates]
  /\ current \in Tasks \cup {NoTask}
  /\ apc \in [Adders -> {"idle", "joining"}]
  /\ spc \in [Stoppers -> {"idle", "waiting", "woken", "joining", "returned"}]
  /\ fresh \in SUBSET Tasks

Init ==
  /\ mutex = Nobody
  /\ list = <<>>
  /\ running = FALSE
  /\ stopped = FALSE
  /\ thread = NoThread
  /\ tpc = [w \in Threads |-> "none"]
  /\ current = NoTask
  /\ apc = [c \in Adders |-> "idle"]
  /\ spc = [s \in Stoppers |-> "idle"]
  /\ fresh = Tasks

------------------------------------------------------------------------------
(* AddTask *)

\* Mutant: running is not set.
StartThread_NotRunning(pcs) ==
  \E w \in Threads :
    /\ pcs[w] = "none"
    /\ thread' = w
    /\ tpc' = [pcs EXCEPT ![w] = "started"]
    /\ UNCHANGED running

\* thread = new QueueThread(this); thread->Start(); running = true;
StartThread(pcs) ==
  \E w \in Threads, st \in {"started"} \cup (IF StartMayFail THEN {"failed"} ELSE {}) :
    /\ pcs[w] = "none"
    /\ thread' = w
    /\ tpc' = [pcs EXCEPT ![w] = st]
    /\ running' = TRUE

CallsAddTask(c, t) ==
  /\ mutex = Nobody
  /\ apc[c] = "idle"
  /\ c \in Threads => tpc[c] = "handling"
  /\ t \in fresh
  /\ fresh' = fresh \ {t}

\* The queue was stopped: the task is not added.
AddIgnored(c, t) ==
  /\ CallsAddTask(c, t)
  /\ stopped
  /\ UNCHANGED <<mutex, list, running, stopped, thread, tpc, current, apc, spc>>

\* Mutant: the pointer is cleared before it is queued.
AddToRunning_Null(c, t) ==
  /\ CallsAddTask(c, t)
  /\ ~stopped
  /\ running
  /\ list' = Append(list, NoTask)
  /\ UNCHANGED <<mutex, running, stopped, thread, tpc, current, apc, spc>>

\* A thread is running and will find the task.
AddToRunning(c, t) ==
  /\ CallsAddTask(c, t)
  /\ ~stopped
  /\ running
  /\ list' = Append(list, t)
  /\ UNCHANGED <<mutex, running, stopped, thread, tpc, current, apc, spc>>

\* There never was a thread, or Stop has deleted it.
AddAndStart(c, t) ==
  /\ CallsAddTask(c, t)
  /\ ~stopped
  /\ ~running
  /\ thread = NoThread
  /\ list' = Append(list, t)
  /\ StartThread(tpc)
  /\ UNCHANGED <<mutex, stopped, current, apc, spc>>

\* The previous thread has to be joined first; the mutex stays locked.
AddAndJoin(c, t) ==
  /\ CallsAddTask(c, t)
  /\ ~stopped
  /\ ~running
  /\ thread # NoThread
  /\ list' = Append(list, t)
  /\ mutex' = c
  /\ apc' = [apc EXCEPT ![c] = "joining"]
  /\ UNCHANGED <<running, stopped, thread, tpc, current, spc>>

\* Mutant: the old thread is joined and deleted, no new one is started.
AddJoined_NoStart(c) ==
  /\ apc[c] = "joining"
  /\ tpc[thread] = "ended"
  /\ tpc' = [tpc EXCEPT ![thread] = "none"]
  /\ thread' = NoThread
  /\ mutex' = Nobody
  /\ apc' = [apc EXCEPT ![c] = "idle"]
  /\ UNCHANGED <<list, running, stopped, current, spc, fresh>>

AddJoined(c) ==
  /\ apc[c] = "joining"
  /\ tpc[thread] = "ended"
  /\ StartThread([tpc EXCEPT ![thread] = "none"])
  /\ mutex' = Nobody
  /\ apc' = [apc EXCEPT ![c] = "idle"]
  /\ UNCHANGED <<list, stopped, current, spc, fresh>>

------------------------------------------------------------------------------
(* HandleTasks, run by a QueueThread *)

\* The thread gets the mutex at the head of its loop: first entry, or back
\* from a handler (whose task it deletes).
AtLoop(w) ==
  /\ tpc[w] \in {"started", "handled"}
  /\ mutex = Nobody

\* Mutant: the newest task is taken first.
TakeTask_Newest(w) ==
  /\ AtLoop(w)
  /\ list # <<>>
  /\ ~stopped
  /\ current' = list[Len(list)]
  /\ list' = SubSeq(list, 1, Len(list) - 1)
  /\ tpc' = [tpc EXCEPT ![w] = "handling"]
  /\ UNCHANGED <<mutex, running, stopped, thread, apc, spc, fresh>>

\* Mutant: running is reset with the last task of the list, before its handler.
TakeTask_ResetsRunning(w) ==
  /\ AtLoop(w)
  /\ list # <<>>
  /\ ~stopped
  /\ current' = Head(list)
  /\ list' = Tail(list)
  /\ running' = (Tail(list) # <<>>)
  /\ tpc' = [tpc EXCEPT ![w] = "handling"]
  /\ UNCHANGED <<mutex, stopped, thread, apc, spc, fresh>>

\* There is a task and the queue is not stopped: call the handler unlocked.
TakeTask(w) ==
  /\ AtLoop(w)
  /\ list # <<>>
  /\ ~stopped
  /\ current' = Head(list)
  /\ list' = Tail(list)
  /\ tpc' = [tpc EXCEPT ![w] = "handling"]
  /\ UNCHANGED <<mutex, running, stopped, thread, apc, spc, fresh>>

HandlerReturns(w) ==
  /\ tpc[w] = "handling"
  /\ tpc' = [tpc EXCEPT ![w] = "handled"]
  /\ current' = NoTask
  /\ UNCHANGED <<mutex, list, running, stopped, thread, apc, spc, fresh>>

\* Mutant: the thread ends after one round.
LeaveLoop_AfterOneTask(w) ==
  /\ AtLoop(w)
  /\ list = <<>> \/ stopped \/ tpc[w] = "handled"
  /\ running' = FALSE
  /\ spc' = [s \in Stoppers |-> IF spc[s] = "waiting" THEN "woken" ELSE spc[s]]
  /\ tpc' = [tpc EXCEPT ![w] = "exiting"]
  /\ UNCHANGED <<mutex, list, stopped, thread, current, apc, fresh>>

\* Mutant: no Broadcast.
LeaveLoop_NoBroadcast(w) ==
  /\ AtLoop(w)
  /\ list = <<>> \/ stopped
  /\ list' = <<>>
  /\ running' = FALSE
  /\ tpc' = [tpc EXCEPT ![w] = "exiting"]
  /\ UNCHANGED <<mutex, stopped, thread, current, apc, spc, fresh>>

\* The list is empty, or the queue is stopped and the loop deletes what is
\* left without handling it: tell everyone who waits, and leave.
LeaveLoop(w) ==
  /\ AtLoop(w)
  /\ list = <<>> \/ stopped
  /\ list' = <<>>
  /\ running' = FALSE
  /\ spc' = [s \in Stoppers |-> IF spc[s] = "waiting" THEN "woken" ELSE spc[s]]
  /\ tpc' = [tpc EXCEPT ![w] = "exiting"]
  /\ UNCHANGED <<mutex, stopped, thread, current, apc, fresh>>

ThreadEnds(w) ==
  /\ tpc[w] = "exiting"
  /\ tpc' = [tpc EXCEPT ![w] = "ended"]
  /\ UNCHANGED <<mutex, list, running, stopped, thread, current, apc, spc, fresh>>

------------------------------------------------------------------------------
(* Stop *)

\* Mutant: Stop only raises the flag when a thread is running.
StopProceeds_NoWait(s) ==
  \/ /\ running \/ thread = NoThread
     /\ spc' = [spc EXCEPT ![s] = "returned"]
     /\ UNCHANGED mutex
  \/ /\ ~running
     /\ thread # NoThread
     /\ spc' = [spc EXCEPT ![s] = "joining"]
     /\ mutex' = s

\* The part of Stop after "while (running)" for a caller that has the mutex.
StopProceeds(s) ==
  \/ /\ running
     /\ spc' = [spc EXCEPT ![s] = "waiting"]
     /\ UNCHANGED mutex
  \/ /\ ~running
     /\ thread = NoThread
     /\ spc' = [spc EXCEPT ![s] = "returned"]
     /\ UNCHANGED mutex
  \/ /\ ~running
     /\ thread # NoThread
     /\ spc' = [spc EXCEPT ![s] = "joining"]
     /\ mutex' = s

Stop(s) ==
  /\ spc[s] = "idle"
  /\ mutex = Nobody
  /\ stopped' = TRUE
  /\ StopProceeds(s)
  /\ UNCHANGED <<list, running, thread, tpc, current, apc, fresh>>

\* Wait has returned: the loop looks at running again.
StopResumes(s) ==
  /\ spc[s] = "woken"
  /\ mutex = Nobody
  /\ StopProceeds(s)
  /\ UNCHANGED <<list, running, stopped, thread, tpc, current, apc, fresh>>

\* A condition variable may wake up without a Broadcast.
SpuriousWakeup(s) ==
  /\ spc[s] = "waiting"
  /\ spc' = [spc EXCEPT ![s] = "woken"]
  /\ UNCHANGED <<mutex, list, running, stopped, thread, tpc, current, apc, fresh>>

StopJoined(s) ==
  /\ spc[s] = "joining"
  /\ tpc[thread] = "ended"
  /\ tpc' = [tpc EXCEPT ![thread] = "none"]
  /\ thread' = NoThread
  /\ mutex' = Nobody
  /\ spc' = [spc EXCEPT ![s] = "returned"]
  /\ UNCHANGED <<list, running, stopped, current, apc, fresh>>

------------------------------------------------------------------------------

AddTask(c) ==
  \/ \E t \in Tasks :
       \/ AddIgnored(c, t)
       \/ AddToRunning(c, t)
       \/ AddAndStart(c, t)
       \/ AddAndJoin(c, t)
  \/ AddJoined(c)

HandleTasks(w) ==
  \/ TakeTask(w)
  \/ HandlerReturns(w)
  \/ LeaveLoop(w)
  \/ ThreadEnds(w)

StopCall(s) ==
  \/ Stop(s)
  \/ StopResumes(s)
  \/ SpuriousWakeup(s)
  \/ StopJoined(s)

Next ==
  \/ \E c \in Adders : AddTask(c)
  \/ \E w \in Threads : HandleTasks(w)
  \/ \E s \in Stoppers : StopCall(s)

Spec == Init /\ [][Next]_vars

\* Threads are scheduled, and handlers return.  Nobody is obliged to call
\* AddTask or Stop, but a call that was made goes on.
Fairness ==
  /\ \A w \in Threads : WF_vars(HandleTasks(w))
  /\ \A c \in Adders : WF_vars(AddJoined(c))
  /\ \A s \in Stoppers : WF_vars(StopResumes(s) \/ StopJoined(s))

FairSpec == Spec /\ Fairness

------------------------------------------------------------------------------
(* Properties *)

\* "running" tells the truth: while it is set exactly one thread is inside
\* HandleTasks or about to enter it, and it is the thread the queue points
\* to; while it is not set there is no such thread, so tasks are never
\* handled by two threads and AddTask never starts a second one.
RunningIsOneThread ==
  {w \in Threads : tpc[w] \in Live} = IF running THEN {thread} ELSE {}

\* AddTask and Stop join a thread while they keep the mutex.  That thread has
\* left its last critical section, so that the join cannot deadlock; in
\* particular a handler that adds a task never joins its own thread.
JoinsOnlyLeavingThreads ==
  /\ \A c \in Adders : apc[c] = "joining" =>
       /\ mutex = c
       /\ c # thread
       /\ tpc[thread] \in {"exiting", "ended"}
  /\ \A s \in Stoppers : spc[s] = "joining" =>
       /\ mutex = s
       /\ tpc[thread] \in {"exiting", "ended"}

\* Queued tasks are never forgotten: while the queue is not stopped, tasks in
\* the list have a thread that will look at the list again, or an AddTask
\* that is about to start one.
NoForgottenTask ==
  list # <<>> => running \/ \E c \in Adders : apc[c] = "joining"

\* When Stop has returned, the owner may destroy the queue and the handler:
\* no thread exists any more, no handler runs and no task is left.
NothingAfterStop ==
  (\E s \in Stoppers : spc[s] = "returned") =>
    /\ \A w \in Threads : tpc[w] = "none"
    /\ current = NoTask
    /\ list = <<>>

\* The queue hands out its tasks one at a time and in the order in which they
\* were added, and none after Stop was called: it implements FifoServer.
Server == INSTANCE FifoServer WITH queue <- list, closed <- stopped
ImplementsFifo == Server!Spec

\* A task that was added is taken by the thread, unless the queue is stopped.
AddedIsHandled ==
  \A t \in Tasks : (\E i \in 1..Len(list) : list[i] = t) ~> (current = t \/ stopped)

\* Stop returns.
StopReturns ==
  \A s \in Stoppers : (spc[s] # "idle") ~> (spc[s] = "returned")

==============================================================================
