------------------------------- MODULE MultiPeer -------------------------------
(***************************************************************************)
(* The multipeer_claim program: a manager process and a number of peer     *)
(* processes.  The manager claims every peer, changes its configuration    *)
(* when it asks for an update, checks the result and resets it, and all of *)
(* that in callbacks and in threads that share two locks.  The main process*)
(* starts them, waits for the manager and ends the rest.                   *)
(*                                                                         *)
(* Below it is the whole agent, in coarse steps: a signal of the state of  *)
(* an application is heard by the map and the updater at once, and a change*)
(* of the storage is told to both at once.  What can happen in between is  *)
(* in AgentView.                                                           *)
(***************************************************************************)
EXTENDS Integers, FiniteSets, SequencesExt

CONSTANTS
  Peers,      \* the peer processes
  Manager,    \* the manager process
  Nobody,     \* no thread holds a lock
  Impatient,  \* the manager may count ten seconds in which something is still going on
  StartDelay, \* the five seconds before the first peer starts are enough for the manager
  MaxFaults   \* bound: calls of the storage or of an application and starts of a process that fail

ASSUME MultiPeerAssumption ==
  /\ IsFiniteSet(Peers) /\ Peers # {} /\ Manager \notin Peers
  /\ Nobody \notin Peers \cup {"handler", "claimer"}
  /\ Impatient \in BOOLEAN /\ StartDelay \in BOOLEAN /\ MaxFaults \in Nat

VARIABLES
  proc,        \* the processes: "none", "running", "ok", "failed", "killed"
  main,        \* the main process: "left" if it returned before it waited
  dev,         \* the applications: state, membership, policy
  prog,        \* where a peer's WaitUntilFinished is
  signals,     \* applications with a State signal on its way
  row,         \* the storage: the sync state of an application, its membership and policy
  view,        \* the map of the agent
  jobs,        \* the queue of the updater
  updater,     \* the update it is busy with
  events,      \* the queue of the agent's listeners
  apps,        \* MPSecurityMngr::apps
  localbus,    \* MPSecurityMngr::localstate, the task ClaimLocalBus, and what the agent does for it
  peersFound, peersReady, errorFound,
  appslock, actionLock,
  handler,     \* the thread that calls OnApplicationStateChange
  claimer,     \* the task ClaimApplications
  checker,     \* the tasks CheckApplicationUpdated
  poll,        \* WaitUntilFinished: apps changed since it looked, how often it had not
  failed,      \* how many calls and starts have failed
  callFailed   \* a call of the manager's own callbacks and tasks has failed

world == <<dev, prog, signals>>
agent == <<row, view, jobs, updater, events>>
counts == <<peersFound, peersReady>>
locks == <<appslock, actionLock>>
tasks == <<handler, claimer, checker>>
test == <<apps, localbus, counts, errorFound, locks, tasks, poll>>
faults == <<failed, callFailed>>
vars == <<proc, main, world, agent, test, faults>>

None == [state |-> "none", sync |-> "none"]
NoJob == [app |-> Nobody, reset |-> FALSE, dirty |-> FALSE]

Up == proc[Manager] = "running"

\* A call of the storage or of an application fails.
Fault == failed < MaxFaults /\ failed' = failed + 1

\* It was made by a callback or a task of the manager, which notes the error.
CallFails == errorFound' = TRUE /\ callFailed' = TRUE

\* ---- the agent below the manager ----

\* What the storage says of a change: the updater gets a job, the map and the listeners are told.
Tell(a, s) ==
  IF view[a] = None \/ view[a].sync = s THEN UNCHANGED <<view, events>>
  ELSE /\ view' = [view EXCEPT ![a].sync = s]
       /\ events' = Append(events, [app |-> a, state |-> view[a].state, sync |-> s])

Pending(a, s) ==
  /\ Tell(a, s)
  /\ jobs' = IF view[a] = None THEN jobs ELSE Append(jobs, [app |-> a, state |-> view[a].state])
  /\ updater' = [updater EXCEPT !.dirty = @ \/ updater.app = a]

\* A new application gets a job and an event; a change to NEED_UPDATE gets a job.
HearState(a) ==
  /\ Up /\ a \in signals
  /\ signals' = signals \ {a}
  /\ LET sync == IF view[a] # None THEN view[a].sync
                 ELSE IF row[a].sync = "none" THEN "unmanaged" ELSE row[a].sync
         v == [state |-> dev[a].state, sync |-> sync]
     IN  /\ view' = [view EXCEPT ![a] = v]
         /\ events' = Append(events, [app |-> a, state |-> v.state, sync |-> v.sync])
         /\ jobs' = IF view[a] = None \/ (v.state = "need_update" /\ view[a].state # "need_update")
                    THEN Append(jobs, [app |-> a, state |-> v.state]) ELSE jobs
  /\ UNCHANGED <<proc, main, dev, prog, row, updater, test, faults>>

\* The application gets what is in the storage, or is reset.
Send(a) ==
  /\ updater' = [app |-> a, reset |-> row[a].sync = "will_reset", dirty |-> FALSE]
  /\ dev' = [dev EXCEPT ![a] =
       IF row[a].sync = "will_reset" THEN [state |-> "claimable", mem |-> FALSE, pol |-> FALSE]
       ELSE [@ EXCEPT !.mem = row[a].mem, !.pol = row[a].pol]]
  /\ signals' = IF row[a].sync = "will_reset" THEN signals \cup {a} ELSE signals

\* StartUpdates: an application that is not managed has none; a configuration for one that was
\* claimable when the job was queued is an error, told to OnSyncError.  So is a call that fails,
\* but not a session that cannot be joined.
StartUpdates ==
  /\ Up /\ updater = NoJob /\ jobs # <<>>
  /\ jobs' = Tail(jobs)
  /\ LET a == Head(jobs).app
         managed == row[a].sync # "none"
         early == row[a].sync \in {"ok", "pending"} /\ Head(jobs).state = "claimable"
     IN  \/ managed /\ ~early /\ Send(a) /\ UNCHANGED <<errorFound, failed>>
         \/ /\ \/ ~managed /\ UNCHANGED <<errorFound, failed>>
               \/ early /\ errorFound' = TRUE /\ UNCHANGED failed
               \/ managed /\ ~early /\ Fault /\ errorFound' \in {errorFound, TRUE}
            /\ UNCHANGED <<updater, dev, signals>>
  /\ UNCHANGED <<proc, main, prog, row, view, events, apps, localbus, counts, locks, tasks, poll, callFailed>>

\* UpdatesCompleted: what was changed in the meantime is sent as well.
UpdatesCompleted ==
  /\ Up /\ updater # NoJob
  /\ LET a == updater.app
     IN  \/ /\ updater.reset
           /\ row' = [row EXCEPT ![a] = [sync |-> "none", mem |-> FALSE, pol |-> FALSE]]
           /\ Tell(a, "unmanaged") /\ updater' = NoJob
           /\ UNCHANGED <<dev, signals>>
        \/ /\ ~updater.reset /\ updater.dirty
           /\ Send(a)
           /\ UNCHANGED <<row, view, events>>
        \/ /\ ~updater.reset /\ ~updater.dirty
           /\ row' = [row EXCEPT ![a].sync = "ok"]
           /\ Tell(a, "ok") /\ updater' = NoJob
           /\ UNCHANGED <<dev, signals>>
  /\ UNCHANGED <<proc, main, prog, jobs, test, faults>>

\* SecurityAgentImpl::Claim: the application is claimed, then it is stored and told.
RemoteClaim(a) ==
  /\ dev' = [dev EXCEPT ![a].state = "claimed"]
  /\ signals' = signals \cup {a}

StoreClaim(a) ==
  /\ row' = [row EXCEPT ![a].sync = "ok"]
  /\ Tell(a, "ok")
  /\ UNCHANGED <<jobs, updater>>

\* A membership or a policy is stored: the application must be managed.
StoreMembership(a) ==
  /\ row' = [row EXCEPT ![a].mem = TRUE, ![a].sync = "pending"]
  /\ Pending(a, "pending")

UpdatePolicy(a) ==
  /\ row' = [row EXCEPT ![a].pol = TRUE, ![a].sync = "pending"]
  /\ Pending(a, "pending")

\* ---- MPApplication ----

\* WaitUntilFinished: the state is polled.  After that the peer only waits, until it is killed.
PeerSeesClaim(p) ==
  /\ proc[p] = "running" /\ prog[p] = "claim" /\ dev[p].state = "claimed"
  /\ prog' = [prog EXCEPT ![p] = "reset"]
  /\ dev' = [dev EXCEPT ![p].state = "need_update"]
  /\ signals' = signals \cup {p}
  /\ UNCHANGED <<proc, main, agent, test, faults>>

\* ---- MPSecurityMngr: the callback ----

Move(a, s) ==
  /\ apps' = [apps EXCEPT ![a] = s]
  /\ poll' = [poll EXCEPT !.moved = TRUE]

Claimable(e) ==
  /\ e.state = "claimable"
  /\ \/ /\ apps[e.app] = "unknown"
        /\ Move(e.app, "discovered")
        /\ peersFound' = peersFound + 1
        /\ claimer' = IF peersFound + 1 >= Cardinality(Peers)
                      THEN [claimer EXCEPT !.pc = "snapshot"] ELSE claimer
        /\ UNCHANGED peersReady
     \/ /\ apps[e.app] = "resetting"
        /\ Move(e.app, "done")
        /\ peersReady' = peersReady + 1
        /\ UNCHANGED <<peersFound, claimer>>
     \/ /\ apps[e.app] \notin {"unknown", "resetting"}
        /\ UNCHANGED <<apps, poll, counts, claimer>>
  /\ UNCHANGED <<localbus, appslock, handler, checker>>

Claimed(e) ==
  /\ e.state = "claimed"
  /\ IF apps[e.app] = "claiming" THEN Move(e.app, "claimed") ELSE UNCHANGED <<apps, poll>>
  /\ UNCHANGED <<localbus, counts, appslock, handler, claimer, checker>>

NeedUpdate(e) ==
  /\ e.state = "need_update"
  /\ \/ /\ apps[e.app] \in {"claiming", "claimed"}
        /\ handler' = [pc |-> "action", app |-> e.app]
        /\ appslock' = "handler"
        /\ UNCHANGED <<apps, poll, checker>>
     \/ /\ apps[e.app] = "update_pending" /\ e.sync = "pending"
        /\ Move(e.app, "updating")
        /\ UNCHANGED <<handler, appslock, checker>>
     \/ /\ apps[e.app] = "updating" /\ e.sync = "ok"
        /\ checker' = [checker EXCEPT ![e.app] = "wait"]
        /\ Move(e.app, "check_update")
        /\ UNCHANGED <<handler, appslock>>
     \/ /\ ~(apps[e.app] \in {"claiming", "claimed"})
        /\ ~(apps[e.app] = "update_pending" /\ e.sync = "pending")
        /\ ~(apps[e.app] = "updating" /\ e.sync = "ok")
        /\ UNCHANGED <<apps, poll, handler, appslock, checker>>
  /\ UNCHANGED <<localbus, counts, claimer>>

OnApplicationStateChange ==
  /\ Up /\ handler.pc = "idle" /\ events # <<>> /\ appslock = Nobody
  /\ events' = Tail(events)
  /\ LET e == Head(events) IN Claimable(e) \/ Claimed(e) \/ NeedUpdate(e)
  /\ UNCHANGED <<proc, main, world, row, view, jobs, updater, errorFound, actionLock, faults>>

\* Mutant: an update does not wait for a claim.
LockAction_NoLock ==
  /\ Up /\ handler.pc = "action"
  /\ UNCHANGED actionLock
  /\ handler' = [handler EXCEPT !.pc = "membership"]
  /\ UNCHANGED <<proc, main, world, agent, apps, localbus, counts, errorFound, appslock, claimer,
                 checker, poll, faults>>

\* UpdateApplication, inside the callback.
LockAction ==
  /\ Up /\ handler.pc = "action" /\ actionLock = Nobody
  /\ actionLock' = "handler"
  /\ handler' = [handler EXCEPT !.pc = "membership"]
  /\ UNCHANGED <<proc, main, world, agent, apps, localbus, counts, errorFound, appslock, claimer,
                 checker, poll, faults>>

InstallMembership ==
  /\ Up /\ handler.pc = "membership"
  /\ \/ /\ row[handler.app].sync # "none"
        /\ StoreMembership(handler.app)
        /\ handler' = [handler EXCEPT !.pc = "policy"]
        /\ UNCHANGED <<errorFound, faults>>
     \/ /\ (row[handler.app].sync = "none" /\ UNCHANGED failed) \/ Fault
        /\ CallFails
        /\ handler' = [handler EXCEPT !.pc = "pending"]
        /\ UNCHANGED agent
  /\ UNCHANGED <<proc, main, world, apps, localbus, counts, locks, claimer, checker, poll>>

InstallPolicy ==
  /\ Up /\ handler.pc = "policy"
  /\ \/ UpdatePolicy(handler.app) /\ UNCHANGED <<errorFound, faults>>
     \/ Fault /\ CallFails /\ UNCHANGED agent
  /\ handler' = [handler EXCEPT !.pc = "pending"]
  /\ UNCHANGED <<proc, main, world, apps, localbus, counts, locks, claimer, checker, poll>>

UpdatePending ==
  /\ Up /\ handler.pc = "pending"
  /\ Move(handler.app, "update_pending")
  /\ handler' = [pc |-> "idle", app |-> Nobody]
  /\ appslock' = Nobody /\ actionLock' = Nobody
  /\ UNCHANGED <<proc, main, world, agent, localbus, counts, errorFound, claimer,
                 checker, faults>>

\* ---- ClaimApplications ----

Snapshot ==
  /\ Up /\ claimer.pc = "snapshot" /\ appslock = Nobody
  /\ claimer' = [pc |-> "mark", app |-> Nobody, todo |-> {p \in Peers : apps[p] # "unknown"}]
  /\ UNCHANGED <<proc, main, world, agent, apps, localbus, counts, errorFound, locks, handler,
                 checker, poll, faults>>

Mark(p) ==
  /\ Up /\ claimer.pc = "mark" /\ p \in claimer.todo /\ appslock = Nobody
  /\ Move(p, "claiming")
  /\ claimer' = [pc |-> "lock", app |-> p, todo |-> claimer.todo \ {p}]
  /\ UNCHANGED <<proc, main, world, agent, localbus, counts, errorFound, locks, handler,
                 checker, faults>>

LockClaim ==
  /\ Up /\ claimer.pc = "lock" /\ actionLock = Nobody
  /\ actionLock' = "claimer"
  /\ claimer' = [claimer EXCEPT !.pc = "claim"]
  /\ UNCHANGED <<proc, main, world, agent, apps, localbus, counts, errorFound, appslock, handler,
                 checker, poll, faults>>

\* A claim that fails ends the task.
Claim ==
  /\ Up /\ claimer.pc = "claim"
  /\ \/ /\ dev[claimer.app].state = "claimable"
        /\ RemoteClaim(claimer.app)
        /\ claimer' = [claimer EXCEPT !.pc = "store"]
        /\ UNCHANGED <<errorFound, actionLock, faults>>
     \/ /\ (dev[claimer.app].state # "claimable" /\ UNCHANGED failed) \/ Fault
        /\ CallFails
        /\ actionLock' = Nobody
        /\ claimer' = [claimer EXCEPT !.pc = "idle"]
        /\ UNCHANGED <<dev, signals>>
  /\ UNCHANGED <<proc, main, prog, agent, apps, localbus, counts, appslock, handler,
                 checker, poll>>

ApplicationClaimed ==
  /\ Up /\ claimer.pc = "store"
  /\ StoreClaim(claimer.app)
  /\ actionLock' = Nobody
  /\ claimer' = [claimer EXCEPT !.pc = IF claimer.todo = {} THEN "idle" ELSE "mark"]
  /\ UNCHANGED <<proc, main, world, apps, localbus, counts, errorFound, appslock, handler,
                 checker, poll, faults>>

\* ---- the validator bus, an application of the manager itself ----

\* state: localstate; task: ClaimLocalBus; sync: what the storage and the map say; jobs: updates
\* that are queued, TRUE if the claim had been heard of by then; events: what the listeners get.
Unclaimed == [state |-> "unclaimed", task |-> "idle", sync |-> "none", jobs |-> {}, events |-> <<>>]

Initialized == localbus.state = "initialized"

LocalStep ==
  /\ Up
  /\ UNCHANGED <<proc, main, world, agent, apps, counts, locks, tasks, poll>>

\* OnApplicationStateChange: the first event is that the bus can be claimed; it starts the task.
LocalFound ==
  /\ LocalStep /\ localbus.state = "unclaimed" /\ appslock = Nobody
  /\ localbus' = [localbus EXCEPT !.state = "claiming", !.task = "claim", !.jobs = {FALSE}]
  /\ UNCHANGED <<errorFound, faults>>

\* After every change of the storage that was sent the bus counts as initialised.
LocalEvent ==
  /\ LocalStep /\ localbus.events # <<>> /\ appslock = Nobody
  /\ localbus' = [localbus EXCEPT
       !.events = Tail(@),
       !.state = CASE Head(localbus.events) = "pending" -> "sync_inprogress"
                   [] Head(localbus.events) = "ok" /\ @ = "sync_inprogress" -> "initialized"
                   [] OTHER -> @]
  /\ UNCHANGED <<errorFound, faults>>

\* ClaimLocalBus: each of its three calls may fail, which ends it.  It does not wait for the
\* claim to be heard of.
ClaimLocalBus ==
  /\ LocalStep /\ localbus.task # "idle"
  /\ \/ /\ localbus.task = "claim"
        /\ localbus' = [localbus EXCEPT !.task = "membership", !.sync = "ok"]
        /\ UNCHANGED <<errorFound, faults>>
     \/ /\ localbus.task \in {"membership", "policy"}
        /\ \E heard \in BOOLEAN :
             localbus' = [localbus EXCEPT
               !.task = IF @ = "membership" THEN "policy" ELSE "idle",
               !.sync = "pending", !.jobs = @ \cup {heard},
               !.events = IF localbus.sync = "pending" THEN @ ELSE Append(@, "pending")]
        /\ UNCHANGED <<errorFound, faults>>
     \/ /\ Fault /\ CallFails
        /\ localbus' = [localbus EXCEPT !.task = "idle"]

\* The updater: as for a peer.
UpdateLocalBus ==
  /\ LocalStep
  /\ \E heard \in localbus.jobs :
       LET taken == [localbus EXCEPT !.jobs = @ \ {heard}]
       IN  \/ /\ localbus.sync = "none" \/ heard
              /\ localbus' = IF localbus.sync # "pending" THEN taken
                             ELSE [taken EXCEPT !.sync = "ok", !.events = Append(@, "ok")]
              /\ UNCHANGED <<errorFound, failed>>
           \/ /\ localbus.sync # "none"
              /\ localbus' = taken
              /\ \/ ~heard /\ errorFound' = TRUE /\ UNCHANGED failed
                 \/ heard /\ Fault /\ errorFound' \in {errorFound, TRUE}
  /\ UNCHANGED callFailed

LocalBusy ==
  localbus.state = "unclaimed" \/ localbus.task # "idle" \/ localbus.jobs # {} \/ localbus.events # <<>>

\* ---- CheckApplicationUpdated ----

\* The number of memberships is compared, twice; the version of the policy is not.
Check(p) ==
  /\ Up /\ checker[p] = "wait" /\ Initialized
  /\ \/ dev[p].mem /\ checker' = [checker EXCEPT ![p] = "reset"] /\ UNCHANGED <<errorFound, faults>>
     \/ /\ (~dev[p].mem /\ UNCHANGED failed) \/ Fault
        /\ CallFails /\ checker' = [checker EXCEPT ![p] = "idle"]
  /\ UNCHANGED <<proc, main, world, agent, apps, localbus, counts, locks, handler, claimer,
                 poll>>

\* With appslock: the state is changed before the application can be reset.
Reset(p) ==
  /\ Up /\ checker[p] = "reset" /\ appslock = Nobody
  /\ Move(p, "resetting")
  /\ \/ row' = [row EXCEPT ![p].sync = "will_reset"] /\ Pending(p, "will_reset")
        /\ UNCHANGED <<errorFound, faults>>
     \/ Fault /\ CallFails /\ UNCHANGED agent
  /\ checker' = [checker EXCEPT ![p] = "idle"]
  /\ UNCHANGED <<proc, main, world, localbus, counts, locks, handler, claimer>>

\* ---- WaitUntilFinished ----

\* Something that the manager waits for is about to happen.
Busy ==
  \/ signals # {} \/ jobs # <<>> \/ updater # NoJob \/ events # <<>> \/ main = "fork"
  \/ handler.pc # "idle" \/ claimer.pc # "idle" \/ LocalBusy
  \/ \E p \in Peers : \/ proc[p] = "running" /\ prog[p] = "claim" /\ dev[p].state = "claimed"
                      \/ checker[p] # "idle" /\ Initialized

\* Every ten seconds: an error if nothing has changed for the third time.
Poll ==
  /\ Up /\ (Impatient \/ ~Busy) /\ appslock = Nobody /\ peersReady < Cardinality(Peers) /\ ~errorFound
  /\ poll' = [moved |-> FALSE, same |-> IF poll.moved THEN poll.same ELSE poll.same + 1]
  /\ errorFound' = (~poll.moved /\ poll.same = 2)
  /\ UNCHANGED <<proc, main, world, agent, apps, localbus, counts, locks, tasks, faults>>

\* Mutant: the peers that were found are counted.
Succeed_Found ==
  /\ Up /\ peersFound >= Cardinality(Peers) /\ ~errorFound
  /\ proc' = [proc EXCEPT ![Manager] = "ok"]
  /\ UNCHANGED <<main, world, agent, test, faults>>

Succeed ==
  /\ Up /\ peersReady >= Cardinality(Peers) /\ ~errorFound
  /\ proc' = [proc EXCEPT ![Manager] = "ok"]
  /\ UNCHANGED <<main, world, agent, test, faults>>

\* What the process had in its memory is gone.
Fail ==
  /\ Up /\ errorFound
  /\ proc' = [proc EXCEPT ![Manager] = "failed"]
  /\ view' = [a \in Peers |-> None] /\ jobs' = <<>> /\ updater' = NoJob /\ events' = <<>>
  /\ apps' = [p \in Peers |-> "unknown"] /\ localbus' = Unclaimed
  /\ peersFound' = 0 /\ peersReady' = 0 /\ errorFound' = FALSE
  /\ appslock' = Nobody /\ actionLock' = Nobody
  /\ handler' = [pc |-> "idle", app |-> Nobody]
  /\ claimer' = [pc |-> "idle", app |-> Nobody, todo |-> {}]
  /\ checker' = [p \in Peers |-> "idle"]
  /\ poll' = [moved |-> FALSE, same |-> 0]
  /\ UNCHANGED <<main, world, row, faults>>

\* ---- main ----

\* The manager is started first, then the peers, in an order that does not matter to it.  A
\* process that does not come up has failed.  If fork or AllJoynInit fails, main returns and
\* leaves the others to themselves.
ForkManager ==
  /\ main = "fork" /\ proc[Manager] = "none"
  /\ \/ proc' = [proc EXCEPT ![Manager] = "running"] /\ UNCHANGED <<main, faults>>
     \/ /\ Fault /\ UNCHANGED callFailed
        /\ \/ proc' = [proc EXCEPT ![Manager] = "failed"] /\ UNCHANGED main
           \/ main' = "left" /\ UNCHANGED proc
  /\ UNCHANGED <<world, agent, test>>

ForkPeers ==
  /\ main = "fork" /\ proc[Manager] # "none" /\ (StartDelay /\ Up => ~LocalBusy /\ ~errorFound)
  /\ \E up \in SUBSET Peers :
       /\ signals' = up
       /\ \E others \in {"none", "failed"} :
            proc' = [x \in DOMAIN proc |-> CASE x = Manager -> proc[x] [] x \in up -> "running"
                                             [] OTHER -> others]
       /\ \/ up = Peers /\ main' = "wait" /\ UNCHANGED faults
          \/ /\ Fault /\ UNCHANGED callFailed
             /\ main' = IF \E p \in Peers : proc'[p] = "failed" THEN "wait" ELSE "left"
  /\ UNCHANGED <<dev, prog, agent, test>>

\* Mutant: the others are left alone if the first one failed.
WaitPid_LeavesThem ==
  /\ main = "wait"
  /\ \E x \in DOMAIN proc : proc[x] \in {"ok", "failed"} /\ main' = proc[x]
  /\ proc' = [x \in DOMAIN proc |-> IF proc[x] = "running" /\ main' = "ok" THEN "killed" ELSE proc[x]]
  /\ UNCHANGED <<world, agent, test, faults>>

\* The first process that ends ends the program: it is the manager, or it has failed.  The
\* others are killed.
WaitPid ==
  /\ main = "wait"
  /\ \E x \in DOMAIN proc : proc[x] \in {"ok", "failed"} /\ main' = proc[x]
  /\ proc' = [x \in DOMAIN proc |-> IF proc[x] = "running" THEN "killed" ELSE proc[x]]
  /\ UNCHANGED <<world, agent, test, faults>>

Ended == main \in {"ok", "failed", "left"} /\ UNCHANGED vars

\* ---- the specification ----

Init ==
  /\ proc = [x \in Peers \cup {Manager} |-> "none"] /\ main = "fork"
  /\ dev = [a \in Peers |-> [state |-> "claimable", mem |-> FALSE, pol |-> FALSE]]
  /\ prog = [p \in Peers |-> "claim"] /\ signals = {}
  /\ row = [a \in Peers |-> [sync |-> "none", mem |-> FALSE, pol |-> FALSE]]
  /\ view = [a \in Peers |-> None] /\ jobs = <<>> /\ updater = NoJob /\ events = <<>>
  /\ apps = [p \in Peers |-> "unknown"] /\ localbus = Unclaimed
  /\ peersFound = 0 /\ peersReady = 0 /\ errorFound = FALSE
  /\ appslock = Nobody /\ actionLock = Nobody
  /\ handler = [pc |-> "idle", app |-> Nobody]
  /\ claimer = [pc |-> "idle", app |-> Nobody, todo |-> {}]
  /\ checker = [p \in Peers |-> "idle"]
  /\ poll = [moved |-> FALSE, same |-> 0]
  /\ failed = 0 /\ callFailed = FALSE

Updater == StartUpdates \/ UpdatesCompleted
Handler == OnApplicationStateChange \/ LockAction \/ InstallMembership \/ InstallPolicy \/ UpdatePending
Claimer == Snapshot \/ (\E p \in Peers : Mark(p)) \/ LockClaim \/ Claim \/ ApplicationClaimed
LocalBus == LocalFound \/ LocalEvent \/ ClaimLocalBus \/ UpdateLocalBus
Main == ForkManager \/ ForkPeers \/ WaitPid

Mngr ==
  \/ \E p \in Peers : HearState(p) \/ Check(p) \/ Reset(p)
  \/ Updater \/ Handler \/ Claimer \/ LocalBus \/ Poll \/ Succeed \/ Fail
Peer == \E p \in Peers : PeerSeesClaim(p)

Next == Mngr \/ Peer \/ Main \/ Ended

\* No process stands still while one of its threads can go on.
Fairness == WF_vars(Mngr) /\ WF_vars(Peer) /\ WF_vars(Main)

FairSpec == Init /\ [][Next]_vars /\ Fairness

\* ---- properties ----

AppStates == {"unknown", "discovered", "claiming", "claimed", "update_pending", "updating",
              "check_update", "resetting", "done"}
States == {"claimable", "claimed", "need_update"}
LocalBuses ==
  [state : {"unclaimed", "claiming", "sync_inprogress", "initialized"},
   task : {"idle", "claim", "membership", "policy"}, sync : {"none", "ok", "pending"},
   jobs : SUBSET BOOLEAN, events : Seq({"pending", "ok"})]

TypeOK ==
  /\ proc \in [Peers \cup {Manager} -> {"none", "running", "ok", "failed", "killed"}]
  /\ main \in {"fork", "wait", "ok", "failed", "left"}
  /\ dev \in [Peers -> [state : States, mem : BOOLEAN, pol : BOOLEAN]] /\ signals \subseteq Peers
  /\ row \in [Peers -> [sync : {"none", "ok", "pending", "will_reset"}, mem : BOOLEAN, pol : BOOLEAN]]
  /\ view \in [Peers -> {None} \cup [state : States, sync : {"unmanaged", "ok", "pending", "will_reset"}]]
  /\ apps \in [Peers -> AppStates] /\ localbus \in LocalBuses
  /\ peersFound \in Nat /\ peersReady \in Nat /\ errorFound \in BOOLEAN
  /\ appslock \in {Nobody, "handler"} /\ actionLock \in {Nobody, "handler", "claimer"}
  /\ failed \in 0 .. MaxFaults /\ callFailed \in BOOLEAN

(***************************************************************************)
(* No call that the callbacks and tasks of the manager make fails unless   *)
(* the storage, an application or the start of a process failed first: no  *)
(* application is claimed twice, none gets a membership before its claim is*)
(* stored, and none is checked before it has what was stored.  Updates that*)
(* the agent's own queue refuses are not calls of the manager.             *)
(***************************************************************************)
CallsSucceed == callFailed => failed > 0

(***************************************************************************)
(* At the moment the manager reports success, every peer was taken through *)
(* all states and reset, and no thread is still at work on a peer.         *)
(***************************************************************************)
SuccessIsComplete ==
  proc[Manager] = "ok" =>
    /\ \A p \in Peers : apps[p] = "done" /\ checker[p] = "idle" /\ ~dev[p].mem
    /\ claimer.pc = "idle" /\ handler.pc = "idle"

(***************************************************************************)
(* Whatever fails, and in whatever order the callbacks and the threads run,*)
(* the main process ends, and so does the manager: the two locks are never *)
(* waited for forever, and a manager that cannot go on gives up.  All other*)
(* processes end too, unless fork or AllJoynInit has failed in the main    *)
(* process, which then returns and leaves the peers it has started.        *)
(***************************************************************************)
ProgramEnds ==
  <>[](/\ main \in {"ok", "failed", "left"} /\ proc[Manager] # "running"
       /\ main = "left" \/ \A x \in DOMAIN proc : proc[x] # "running")
================================================================================
