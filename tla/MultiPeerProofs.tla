---------------------------- MODULE MultiPeerProofs ----------------------------
(***************************************************************************)
(* Proofs about MultiPeer for any number of peers and of failures: type    *)
(* correctness, that no call of the manager's callbacks and tasks fails but*)
(* for a fault, and that success means that every peer was taken through   *)
(* all states.                                                             *)
(***************************************************************************)
EXTENDS MultiPeer, FiniteSetTheorems, TLAPS

Syncs == {"none", "ok", "pending", "will_reset"}
Told == {"unmanaged", "ok", "pending", "will_reset"}
Devs == [state : States, mem : BOOLEAN, pol : BOOLEAN]
Stored == [sync : Syncs, mem : BOOLEAN, pol : BOOLEAN]
Seen == [state : States, sync : Told]
Events == [app : Peers, state : States, sync : Told]
Jobs == [app : Peers, state : States]
Updates == [app : Peers, reset : BOOLEAN, dirty : BOOLEAN]
Handlers == [pc : {"idle", "action", "membership", "policy", "pending"}, app : Peers \cup {Nobody}]
Claimers == [pc : {"idle", "snapshot", "mark", "lock", "claim", "store"}, app : Peers \cup {Nobody},
             todo : SUBSET Peers]

OutsideTyped ==
  /\ proc \in [Peers \cup {Manager} -> {"none", "running", "ok", "failed", "killed"}]
  /\ main \in {"fork", "wait", "ok", "failed", "left"}
  /\ dev \in [Peers -> Devs] /\ signals \subseteq Peers
  /\ row \in [Peers -> Stored]

AgentTyped ==
  /\ view \in [Peers -> {None} \cup Seen]
  /\ jobs \in Seq(Jobs) /\ updater \in {NoJob} \cup Updates
  /\ events \in Seq(Events)

ManagerTyped ==
  /\ apps \in [Peers -> AppStates] /\ localbus \in LocalBuses
  /\ appslock \in {Nobody, "handler"} /\ actionLock \in {Nobody, "handler", "claimer"}
  /\ handler \in Handlers /\ claimer \in Claimers /\ checker \in [Peers -> {"idle", "wait", "reset"}]
  /\ errorFound \in BOOLEAN /\ poll \in [moved : BOOLEAN, same : Nat]
  /\ peersFound \in Nat /\ peersReady \in Nat

FaultsTyped == failed \in 0 .. MaxFaults /\ callFailed \in BOOLEAN

Counted ==
  /\ peersFound = Cardinality({p \in Peers : apps[p] # "unknown"})
  /\ peersReady = Cardinality({p \in Peers : apps[p] = "done"})

Typed == OutsideTyped /\ AgentTyped /\ ManagerTyped /\ FaultsTyped

\* What a peer has gone through, as the manager knows it.
Early == {"unknown", "discovered"}
Claims == {"claiming", "claimed"}
Changing == {"update_pending", "updating", "check_update"}
Over == {"resetting", "done"}

\* What the threads of the manager are about to do with it.
Works(p) == handler.pc # "idle" /\ handler.app = p
Sends(p) == handler.pc \in {"policy", "pending"} /\ handler.app = p
Listed(p) == claimer.pc \in {"mark", "lock", "claim", "store"} /\ p \in claimer.todo
Locking(p) == claimer.pc \in {"lock", "claim"} /\ claimer.app = p
Storing(p) == claimer.pc = "store" /\ claimer.app = p

\* Nobody has claimed it, nor can anybody think so.
Fresh(p) ==
  /\ dev[p].state = "claimable" /\ row[p].sync = "none"
  /\ view[p] = None \/ view[p].state = "claimable"
  /\ \A i \in 1 .. Len(events) : events[i].app = p => events[i].state = "claimable"

\* It has asked for an update, and everybody below the manager knows it.
Asked(p) ==
  /\ dev[p].state = "need_update" /\ view[p] # None /\ view[p].state = "need_update"
  /\ \A i \in 1 .. Len(events) : events[i].app = p => events[i].state = "need_update"

\* The news of the request for an update are not overtaken by older ones.
InOrder(p) ==
  /\ view[p] # None /\ view[p].state = "need_update" => dev[p].state = "need_update"
  /\ \A i \in 1 .. Len(events) :
       events[i].app = p /\ events[i].state = "need_update"
         => /\ view[p].state = "need_update"
            /\ \A j \in i .. Len(events) : events[j].app = p => events[j].state = "need_update"

Stages(p) ==
  /\ apps[p] \in Early => Fresh(p)
  /\ apps[p] \notin Over => InOrder(p) /\ row[p].sync # "will_reset"
  /\ apps[p] \in Changing \/ Works(p) => Asked(p)
  /\ Works(p) => apps[p] \in Claims
  /\ apps[p] \in Over => /\ row[p].sync \in {"will_reset", "none"}
                         /\ Asked(p) \/ (dev[p].state = "claimable" /\ ~dev[p].mem)
  /\ apps[p] = "done" => dev[p].state = "claimable"
  /\ checker[p] # "idle" => apps[p] = "check_update"
  /\ apps[p] # "unknown" => view[p] # None
  /\ \A i \in 1 .. Len(events) : events[i].app = p => view[p] # None

\* The claims go through the applications one after the other.
ClaimOf(p) ==
  /\ Listed(p) => apps[p] = "discovered"
  /\ Locking(p) => apps[p] = "claiming" /\ Fresh(p)
  /\ Storing(p) => apps[p] \in Claims /\ row[p].sync = "none"

\* A claimed application is stored, or is about to be.
Storage(p) ==
  /\ dev[p].state # "claimable" => row[p].sync # "none" \/ Storing(p)
  /\ dev[p].mem => row[p].mem
  /\ row[p].mem => row[p].sync # "none"

\* The update that is going on for it.
Updated(p) ==
  updater.app = p =>
    /\ row[p].sync # "none"
    /\ updater.reset => row[p].sync = "will_reset" /\ dev[p].state = "claimable" /\ ~dev[p].mem
    /\ row[p].sync = "will_reset" => updater.reset \/ updater.dirty
    /\ ~updater.reset /\ ~updater.dirty /\ row[p].mem => dev[p].mem

\* After the news that the changes are pending, the news that they were sent are true.
News(p) ==
  apps[p] \notin Over =>
    /\ view[p] # None /\ view[p].sync = "pending" => row[p].mem
    /\ apps[p] \in Changing \/ Sends(p) => row[p].mem
    /\ apps[p] = "updating" /\ view[p].sync = "ok" => dev[p].mem
    /\ apps[p] = "check_update" => dev[p].mem
    /\ \A i \in 1 .. Len(events) : events[i].app = p =>
         /\ events[i].sync = "pending" => row[p].mem /\ (view[p].sync = "ok" => dev[p].mem)
         /\ events[i].sync = "ok" =>
              /\ apps[p] = "updating" => dev[p].mem
              /\ \A j \in 1 .. i : events[j].app = p /\ events[j].sync = "pending" => dev[p].mem

Locks ==
  /\ appslock = Nobody <=> handler.pc = "idle"
  /\ handler.pc # "idle" => handler.app \in Peers
  /\ handler.pc \in {"membership", "policy", "pending"} => actionLock = "handler"
  /\ claimer.pc \in {"claim", "store"} => actionLock = "claimer"

\* The claims start when the last peer is found, and there is something to claim.
ClaimTask ==
  /\ (\E p \in Peers : apps[p] = "unknown") => claimer.pc = "idle" /\ \A p \in Peers : apps[p] \in Early
  /\ claimer.pc = "snapshot" => \A p \in Peers : apps[p] = "discovered"
  /\ claimer.pc = "mark" => claimer.todo # {}
  /\ claimer.pc \in {"lock", "claim", "store"} => claimer.app \in Peers

PeerInv(p) == Stages(p) /\ ClaimOf(p) /\ Storage(p) /\ Updated(p) /\ News(p)
Peered == \A p \in Peers : PeerInv(p)

Core == Locks /\ ClaimTask /\ Peered

\* A thread that is at work has an application to work on.
Workers ==
  /\ handler.pc # "idle" => handler.app \in Peers
  /\ claimer.pc \in {"lock", "claim", "store"} => claimer.app \in Peers

\* The manager's memory means something until it fails, and is right until one of its calls does.
Alive == proc[Manager] \in {"none", "running"}

Inv ==
  /\ Typed /\ Workers
  /\ CallsSucceed
  /\ SuccessIsComplete
  /\ Alive /\ callFailed => errorFound
  /\ Alive /\ ~callFailed => Core /\ Counted

------------------------------------------------------------------------------
(* Types *)

LEMMA TellTyped ==
  ASSUME Typed, NEW a \in Peers, NEW s \in Told, Tell(a, s)
  PROVE  view' \in [Peers -> {None} \cup Seen] /\ events' \in Seq(Events)
<1>1. CASE view[a] = None \/ view[a].sync = s
  BY <1>1 DEF Tell, Typed, AgentTyped
<1>2. CASE ~(view[a] = None \/ view[a].sync = s)
  <2>1. view[a] \in Seen
    BY <1>2 DEF Typed, AgentTyped
  <2>2. [view[a] EXCEPT !.sync = s] \in Seen /\ [app |-> a, state |-> view[a].state, sync |-> s] \in Events
    BY <2>1 DEF Seen, Events
  <2>3. PICK v \in Seen, e \in Events : view' = [view EXCEPT ![a] = v] /\ events' = Append(events, e)
    BY <1>2, <2>2 DEF Tell
  <2> QED
    BY <2>3 DEF Typed, AgentTyped
<1> QED
  BY <1>1, <1>2

LEMMA PendingTyped ==
  ASSUME Typed, NEW a \in Peers, NEW s \in Told, Pending(a, s)
  PROVE  AgentTyped'
<1>1. view' \in [Peers -> {None} \cup Seen] /\ events' \in Seq(Events)
  BY TellTyped DEF Pending
<1>2. jobs' \in Seq(Jobs)
  <2>1. CASE view[a] = None
    BY <2>1 DEF Pending, Typed, AgentTyped
  <2>2. CASE view[a] # None
    <3>1. [app |-> a, state |-> view[a].state] \in Jobs
      BY <2>2 DEF Typed, AgentTyped, Seen, Jobs
    <3> QED
      BY <2>2, <3>1 DEF Pending, Typed, AgentTyped
  <2> QED
    BY <2>1, <2>2
<1>3. updater' \in {NoJob} \cup Updates
  <2>1. CASE updater = NoJob
    BY <2>1, MultiPeerAssumption DEF Pending, NoJob
  <2>2. CASE updater \in Updates
    BY <2>2 DEF Pending, Updates
  <2> QED
    BY <2>1, <2>2 DEF Typed, AgentTyped
<1> QED
  BY <1>1, <1>2, <1>3 DEF AgentTyped

LEMMA SendTyped ==
  ASSUME Typed, NEW a \in Peers, Send(a)
  PROVE  dev' \in [Peers -> Devs] /\ signals' \subseteq Peers /\ updater' \in Updates
<1>1. dev[a] \in Devs /\ row[a] \in Stored
  BY DEF Typed, OutsideTyped
<1>2. [dev[a] EXCEPT !.mem = row[a].mem, !.pol = row[a].pol] \in Devs
  BY <1>1 DEF Devs, Stored
<1>3. [state |-> "claimable", mem |-> FALSE, pol |-> FALSE] \in Devs
  BY DEF Devs, States
<1>4. dev' \in [Peers -> Devs]
  BY <1>2, <1>3 DEF Send, Typed, OutsideTyped
<1>5. updater' \in Updates
  BY DEF Send, Updates
<1> QED
  BY <1>4, <1>5 DEF Send, Typed, OutsideTyped

LEMMA HearStateTyped ==
  ASSUME Typed, NEW a \in Peers, HearState(a)
  PROVE  Typed'
<1> DEFINE sync == IF view[a] # None THEN view[a].sync
                   ELSE IF row[a].sync = "none" THEN "unmanaged" ELSE row[a].sync
           v == [state |-> dev[a].state, sync |-> sync]
<1>1. sync \in Told
  BY DEF Typed, OutsideTyped, AgentTyped, Told, Seen, Stored, Syncs
<1>2. dev[a].state \in States
  BY DEF Typed, OutsideTyped, Devs
<1>3. v \in Seen /\ [app |-> a, state |-> v.state, sync |-> v.sync] \in Events
  BY <1>1, <1>2 DEF Seen, Events
<1>4. [app |-> a, state |-> v.state] \in Jobs
  BY <1>2 DEF Jobs
<1>5. /\ view' = [view EXCEPT ![a] = v] /\ events' = Append(events, [app |-> a, state |-> v.state, sync |-> v.sync])
      /\ jobs' = Append(jobs, [app |-> a, state |-> v.state]) \/ jobs' = jobs
  BY DEF HearState
<1>6. AgentTyped'
  <2>1. view' \in [Peers -> {None} \cup Seen] /\ events' \in Seq(Events)
    BY <1>3, <1>5 DEF Typed, AgentTyped
  <2>2. jobs' \in Seq(Jobs)
    <3>1. \A j \in Jobs : Append(jobs, j) \in Seq(Jobs) /\ jobs \in Seq(Jobs)
      BY DEF Typed, AgentTyped
    <3> QED
      BY <1>4, <1>5, <3>1
  <2>3. updater' = updater
    BY DEF HearState
  <2> QED
    BY <2>1, <2>2, <2>3 DEF Typed, AgentTyped
<1> QED
  BY <1>6 DEF HearState, Typed, OutsideTyped, ManagerTyped, FaultsTyped, test, faults, counts, locks, tasks

LEMMA FaultsKept ==
  ASSUME Typed, Fault \/ UNCHANGED failed, callFailed' = TRUE \/ UNCHANGED callFailed
  PROVE  FaultsTyped'
<1>1. failed' \in 0 .. MaxFaults
  BY MultiPeerAssumption DEF Fault, Typed, FaultsTyped
<1>2. callFailed' \in BOOLEAN
  BY Zenon DEF Typed, FaultsTyped
<1> QED
  BY <1>1, <1>2 DEF FaultsTyped

LEMMA UnclaimedTyped == Unclaimed \in LocalBuses
<1>1. <<>> \in Seq({"pending", "ok"})
  OBVIOUS
<1> QED
  BY <1>1 DEF Unclaimed, LocalBuses

LEMMA StartUpdatesTyped ==
  ASSUME Typed, StartUpdates
  PROVE  Typed'
<1> DEFINE a == Head(jobs).app
           early == row[a].sync \in {"ok", "pending"} /\ Head(jobs).state = "claimable"
<1>1. a \in Peers /\ jobs' \in Seq(Jobs)
  <2>1. jobs \in Seq(Jobs) /\ jobs # <<>> /\ jobs' = Tail(jobs)
    BY DEF StartUpdates, Typed, AgentTyped
  <2>2. Head(jobs) \in Jobs /\ Tail(jobs) \in Seq(Jobs)
    BY <2>1
  <2> QED
    BY <2>1, <2>2 DEF Jobs
<1>2. dev' \in [Peers -> Devs] /\ signals' \subseteq Peers /\ updater' \in {NoJob} \cup Updates
  <2>1. CASE Send(a)
    BY <1>1, <2>1, SendTyped
  <2>2. CASE UNCHANGED <<updater, dev, signals>>
    BY <2>2 DEF Typed, OutsideTyped, AgentTyped
  <2> QED
    BY <2>1, <2>2 DEF StartUpdates
<1>3. errorFound' \in BOOLEAN /\ FaultsTyped'
  <2>1. errorFound' \in BOOLEAN
    BY DEF StartUpdates, Typed, ManagerTyped
  <2>2. FaultsTyped'
    BY FaultsKept DEF StartUpdates
  <2> QED
    BY <2>1, <2>2
<1>4. OutsideTyped' /\ AgentTyped'
  BY <1>1, <1>2 DEF StartUpdates, Typed, OutsideTyped, AgentTyped
<1> QED
  BY <1>3, <1>4 DEF StartUpdates, Typed, ManagerTyped, FaultsTyped, counts, locks, tasks

LEMMA UpdatesCompletedTyped ==
  ASSUME Typed, UpdatesCompleted
  PROVE  Typed'
<1> DEFINE a == updater.app
<1>1. a \in Peers
  BY DEF UpdatesCompleted, Typed, AgentTyped, Updates
<1>2. CASE /\ row' = [row EXCEPT ![a] = [sync |-> "none", mem |-> FALSE, pol |-> FALSE]]
           /\ Tell(a, "unmanaged") /\ updater' = NoJob /\ UNCHANGED <<dev, signals>>
  <2>1. view' \in [Peers -> {None} \cup Seen] /\ events' \in Seq(Events)
    BY <1>1, <1>2, TellTyped DEF Told
  <2>2. row' \in [Peers -> Stored]
    BY <1>1, <1>2 DEF Typed, OutsideTyped, Stored, Syncs
  <2> QED
    BY <1>2, <2>1, <2>2 DEF UpdatesCompleted, Typed, OutsideTyped, AgentTyped
  , ManagerTyped, FaultsTyped, test, faults, counts, locks, tasks
<1>3. CASE Send(a) /\ UNCHANGED <<row, view, events>>
  <2>1. dev' \in [Peers -> Devs] /\ signals' \subseteq Peers /\ updater' \in Updates
    BY <1>1, <1>3, SendTyped
  <2> QED
    BY <1>3, <2>1 DEF UpdatesCompleted, Typed, OutsideTyped, AgentTyped
  , ManagerTyped, FaultsTyped, test, faults, counts, locks, tasks
<1>4. CASE /\ row' = [row EXCEPT ![a].sync = "ok"]
           /\ Tell(a, "ok") /\ updater' = NoJob /\ UNCHANGED <<dev, signals>>
  <2>1. view' \in [Peers -> {None} \cup Seen] /\ events' \in Seq(Events)
    BY <1>1, <1>4, TellTyped DEF Told
  <2>2. row' \in [Peers -> Stored]
    BY <1>1, <1>4 DEF Typed, OutsideTyped, Stored, Syncs
  <2> QED
    BY <1>4, <2>1, <2>2 DEF UpdatesCompleted, Typed, OutsideTyped, AgentTyped
  , ManagerTyped, FaultsTyped, test, faults, counts, locks, tasks
<1> QED
  BY <1>2, <1>3, <1>4 DEF UpdatesCompleted

LEMMA PeerTyped ==
  ASSUME Typed, NEW p \in Peers, PeerSeesClaim(p)
  PROVE  Typed'
<1>1. dev' \in [Peers -> Devs] /\ signals' \subseteq Peers
  BY DEF PeerSeesClaim, Typed, OutsideTyped, Devs, States
<1> QED
  BY <1>1 DEF PeerSeesClaim, Typed, OutsideTyped, AgentTyped, ManagerTyped, FaultsTyped,
              agent, test, faults, counts, locks, tasks

\* What the callback does to the state of the manager.
LEMMA CallbackTyped ==
  ASSUME Typed, OnApplicationStateChange
  PROVE  Typed'
<1> DEFINE e == Head(events)
<1>1. events \in Seq(Events) /\ events # <<>> /\ events' = Tail(events)
  BY DEF OnApplicationStateChange, Typed, AgentTyped
<1>2. e \in Events /\ events' \in Seq(Events)
  BY <1>1
<1>3. e.app \in Peers
  BY <1>2 DEF Events
<1>4. ManagerTyped'
  <2>1. CASE Claimable(e)
    <3>1. apps' \in [Peers -> AppStates] /\ poll' \in [moved : BOOLEAN, same : Nat]
      BY <1>3, <2>1 DEF Claimable, Move, Typed, ManagerTyped, AppStates
    <3>2. claimer' \in Claimers
      BY <2>1 DEF Claimable, Typed, ManagerTyped, Claimers
    <3>3. UNCHANGED <<localbus, appslock, actionLock, handler, checker, errorFound>>
      BY <2>1 DEF Claimable, OnApplicationStateChange
    <3>4. /\ localbus' \in LocalBuses /\ appslock' \in {Nobody, "handler"}
          /\ actionLock' \in {Nobody, "handler", "claimer"}
      BY <3>3 DEF Typed, ManagerTyped
    <3>5. handler' \in Handlers /\ checker' \in [Peers -> {"idle", "wait", "reset"}] /\ errorFound' \in BOOLEAN
      BY <3>3 DEF Typed, ManagerTyped
    <3>6. peersFound' \in Nat /\ peersReady' \in Nat
      BY <2>1 DEF Claimable, Typed, ManagerTyped, counts
    <3> QED
      BY <3>1, <3>2, <3>4, <3>5, <3>6 DEF ManagerTyped
  <2>2. CASE Claimed(e)
    BY <1>3, <2>2 DEF Claimed, Move, OnApplicationStateChange, Typed, ManagerTyped, AppStates, counts
  <2>3. CASE NeedUpdate(e)
    <3>1. apps' \in [Peers -> AppStates] /\ poll' \in [moved : BOOLEAN, same : Nat]
      BY <1>3, <2>3 DEF NeedUpdate, Move, Typed, ManagerTyped, AppStates
    <3>2. handler' \in Handlers /\ appslock' \in {Nobody, "handler"}
      BY <1>3, <2>3 DEF NeedUpdate, Typed, ManagerTyped, Handlers
    <3>3. checker' \in [Peers -> {"idle", "wait", "reset"}]
      BY <1>3, <2>3 DEF NeedUpdate, Typed, ManagerTyped
    <3>4. UNCHANGED <<localbus, actionLock, claimer, errorFound, peersFound, peersReady>>
      BY <2>3 DEF NeedUpdate, OnApplicationStateChange, counts
    <3> QED
      BY <3>1, <3>2, <3>3, <3>4 DEF Typed, ManagerTyped
  <2> QED
    BY <2>1, <2>2, <2>3 DEF OnApplicationStateChange
<1> QED
  BY <1>2, <1>4 DEF OnApplicationStateChange, Typed, OutsideTyped, AgentTyped, FaultsTyped, world, faults

LEMMA LockActionTyped == ASSUME Typed, LockAction PROVE Typed'
BY DEF LockAction, Typed, OutsideTyped, AgentTyped, ManagerTyped, FaultsTyped, Handlers, world, agent, counts, faults

LEMMA InstallMembershipTyped ==
  ASSUME Typed, InstallMembership, handler.app \in Peers
  PROVE  Typed'
<1>1. AgentTyped' /\ row' \in [Peers -> Stored]
  <2>1. CASE UNCHANGED agent
    BY <2>1 DEF Typed, OutsideTyped, AgentTyped, agent
  <2>2. CASE StoreMembership(handler.app)
    BY <2>2, PendingTyped DEF StoreMembership, Told, Typed, OutsideTyped, Stored, Syncs
  <2> QED
    BY <2>1, <2>2 DEF InstallMembership
<1>2. ManagerTyped'
  BY DEF InstallMembership, CallFails, Typed, ManagerTyped, Handlers, locks, counts
<1>3. FaultsTyped'
  BY FaultsKept DEF InstallMembership, CallFails, faults
<1> QED
  BY <1>1, <1>2, <1>3 DEF InstallMembership, Typed, OutsideTyped, world

LEMMA InstallPolicyTyped ==
  ASSUME Typed, InstallPolicy, handler.app \in Peers
  PROVE  Typed'
<1>1. AgentTyped' /\ row' \in [Peers -> Stored]
  <2>1. CASE UNCHANGED agent
    BY <2>1 DEF Typed, OutsideTyped, AgentTyped, agent
  <2>2. CASE UpdatePolicy(handler.app)
    BY <2>2, PendingTyped DEF UpdatePolicy, Told, Typed, OutsideTyped, Stored, Syncs
  <2> QED
    BY <2>1, <2>2 DEF InstallPolicy
<1>2. ManagerTyped'
  BY DEF InstallPolicy, CallFails, Typed, ManagerTyped, Handlers, locks, counts
<1>3. FaultsTyped'
  BY FaultsKept DEF InstallPolicy, CallFails, faults
<1> QED
  BY <1>1, <1>2, <1>3 DEF InstallPolicy, Typed, OutsideTyped, world

LEMMA UpdatePendingTyped == ASSUME Typed, UpdatePending PROVE Typed'
BY DEF UpdatePending, Move, Typed, OutsideTyped, AgentTyped, ManagerTyped, FaultsTyped, Handlers,
       AppStates, world, agent, counts, faults

LEMMA SnapshotTyped == ASSUME Typed, Snapshot PROVE Typed'
BY DEF Snapshot, Typed, OutsideTyped, AgentTyped, ManagerTyped, FaultsTyped, Claimers, world, agent, counts, locks, faults

LEMMA MarkTyped == ASSUME Typed, NEW p \in Peers, Mark(p) PROVE Typed'
BY DEF Mark, Move, Typed, OutsideTyped, AgentTyped, ManagerTyped, FaultsTyped, Claimers, AppStates,
       world, agent, counts, locks, faults

LEMMA LockClaimTyped == ASSUME Typed, LockClaim PROVE Typed'
BY DEF LockClaim, Typed, OutsideTyped, AgentTyped, ManagerTyped, FaultsTyped, Claimers, world, agent, counts, faults

LEMMA ClaimTyped ==
  ASSUME Typed, Claim, claimer.app \in Peers
  PROVE  Typed'
<1>1. ManagerTyped'
  BY DEF Claim, CallFails, Typed, ManagerTyped, Claimers, counts
<1>2. OutsideTyped'
  BY DEF Claim, RemoteClaim, Typed, OutsideTyped, Devs, States, agent
<1>3. FaultsTyped'
  BY FaultsKept DEF Claim, CallFails, faults
<1> QED
  BY <1>1, <1>2, <1>3 DEF Claim, Typed, AgentTyped, agent

LEMMA ApplicationClaimedTyped ==
  ASSUME Typed, ApplicationClaimed, claimer.app \in Peers
  PROVE  Typed'
<1>1. AgentTyped' /\ row' \in [Peers -> Stored]
  BY TellTyped DEF ApplicationClaimed, StoreClaim, Told, Typed, OutsideTyped, AgentTyped, Stored, Syncs
<1>2. ManagerTyped'
  BY DEF ApplicationClaimed, Typed, ManagerTyped, Claimers, counts
<1> QED
  BY <1>1, <1>2 DEF ApplicationClaimed, Typed, OutsideTyped, FaultsTyped, world, faults

LEMMA LocalBusTyped == ASSUME Typed, LocalBus PROVE Typed'
<1>1. localbus' \in LocalBuses
  <2>1. localbus \in LocalBuses
    BY DEF Typed, ManagerTyped
  <2>2. localbus.events \in Seq({"pending", "ok"}) /\ localbus.jobs \subseteq BOOLEAN
    BY <2>1 DEF LocalBuses
  <2>3. CASE LocalFound
    BY <2>1, <2>3 DEF LocalFound, LocalBuses
  <2>4. CASE LocalEvent
    <3>1. Tail(localbus.events) \in Seq({"pending", "ok"})
      BY <2>2, <2>4 DEF LocalEvent
    <3> QED
      BY <2>1, <2>4, <3>1 DEF LocalEvent, LocalBuses
  <2>5. CASE ClaimLocalBus
    <3>1. Append(localbus.events, "pending") \in Seq({"pending", "ok"})
      BY <2>2
    <3>2. \A heard \in BOOLEAN : localbus.jobs \cup {heard} \subseteq BOOLEAN
      BY <2>2
    <3> QED
      BY <2>1, <2>2, <2>5, <3>1, <3>2 DEF ClaimLocalBus, LocalBuses
  <2>6. CASE UpdateLocalBus
    <3>1. Append(localbus.events, "ok") \in Seq({"pending", "ok"})
      BY <2>2
    <3>2. \A heard \in BOOLEAN : localbus.jobs \ {heard} \subseteq BOOLEAN
      BY <2>2
    <3>3. PICK heard \in localbus.jobs :
            \/ localbus' = [localbus EXCEPT !.jobs = @ \ {heard}]
            \/ localbus' = [[localbus EXCEPT !.jobs = @ \ {heard}] EXCEPT !.sync = "ok", !.events = Append(@, "ok")]
      BY <2>6 DEF UpdateLocalBus
    <3> QED
      BY <2>1, <2>2, <3>1, <3>2, <3>3 DEF LocalBuses
  <2> QED
    BY <2>3, <2>4, <2>5, <2>6 DEF LocalBus
<1>2. LocalStep
  BY DEF LocalBus, LocalFound, LocalEvent, ClaimLocalBus, UpdateLocalBus
<1>3. errorFound' \in BOOLEAN /\ FaultsTyped'
  <2>1. errorFound' \in BOOLEAN
    BY DEF LocalBus, LocalFound, LocalEvent, ClaimLocalBus, UpdateLocalBus, CallFails, Typed, ManagerTyped
  <2>2. FaultsTyped'
    BY FaultsKept DEF LocalBus, LocalFound, LocalEvent, ClaimLocalBus, UpdateLocalBus, CallFails, faults
  <2> QED
    BY <2>1, <2>2
<1> QED
  BY <1>1, <1>2, <1>3 DEF LocalStep, Typed, OutsideTyped, AgentTyped, ManagerTyped, world, agent, counts, locks, tasks

LEMMA CheckTyped ==
  ASSUME Typed, NEW p \in Peers, Check(p)
  PROVE  Typed'
<1>1. ManagerTyped'
  BY DEF Check, CallFails, Typed, ManagerTyped, locks, counts
<1>2. FaultsTyped'
  BY FaultsKept DEF Check, CallFails, faults
<1> QED
  BY <1>1, <1>2 DEF Check, Typed, OutsideTyped, AgentTyped, world, agent

LEMMA ResetTyped ==
  ASSUME Typed, NEW p \in Peers, Reset(p)
  PROVE  Typed'
<1>1. AgentTyped' /\ row' \in [Peers -> Stored]
  <2>1. CASE UNCHANGED agent
    BY <2>1 DEF Typed, OutsideTyped, AgentTyped, agent
  <2>2. CASE row' = [row EXCEPT ![p].sync = "will_reset"] /\ Pending(p, "will_reset")
    BY <2>2, PendingTyped DEF Told, Typed, OutsideTyped, Stored, Syncs
  <2> QED
    BY <2>1, <2>2 DEF Reset
<1>2. ManagerTyped'
  BY DEF Reset, CallFails, Move, Typed, ManagerTyped, AppStates, locks, counts
<1>3. FaultsTyped'
  BY FaultsKept DEF Reset, CallFails, faults
<1> QED
  BY <1>1, <1>2, <1>3 DEF Reset, Typed, OutsideTyped, world

LEMMA PollTyped == ASSUME Typed, Poll PROVE Typed'
BY DEF Poll, Typed, OutsideTyped, AgentTyped, ManagerTyped, FaultsTyped, world, agent, counts, locks, tasks, faults

LEMMA EndsTyped == ASSUME Typed, Succeed \/ Fail PROVE Typed'
<1>1. CASE Succeed
  BY <1>1, MultiPeerAssumption DEF Succeed, Typed, OutsideTyped, AgentTyped, ManagerTyped, FaultsTyped, world, agent,
       test, counts, locks, tasks, faults
<1>2. CASE Fail
  <2>1. ManagerTyped'
    BY <1>2, UnclaimedTyped DEF Fail, Typed, ManagerTyped, AppStates, Handlers, Claimers
  <2>2. AgentTyped'
    BY <1>2 DEF Fail, Typed, AgentTyped
  <2>3. OutsideTyped' /\ FaultsTyped'
    BY <1>2, MultiPeerAssumption DEF Fail, Typed, OutsideTyped, FaultsTyped, world, faults
  <2> QED
    BY <2>1, <2>2, <2>3 DEF Typed
<1> QED
  BY <1>1, <1>2

LEMMA MainTyped == ASSUME Typed, Main PROVE Typed'
<1>1. FaultsTyped'
  BY MultiPeerAssumption DEF Main, ForkManager, ForkPeers, WaitPid, Fault, Typed, FaultsTyped, faults
<1>2. OutsideTyped'
  <2>1. CASE ForkManager \/ WaitPid
    BY <2>1 DEF ForkManager, WaitPid, Typed, OutsideTyped, agent, world
  <2>2. CASE ForkPeers
    <3>1. PICK up \in SUBSET Peers, others \in {"none", "failed"} :
            /\ signals' = up
            /\ proc' = [x \in DOMAIN proc |-> CASE x = Manager -> proc[x] [] x \in up -> "running"
                                                [] OTHER -> others]
      BY <2>2 DEF ForkPeers
    <3>2. DOMAIN proc = Peers \cup {Manager}
      BY DEF Typed, OutsideTyped
    <3>3. \A x \in Peers \cup {Manager} : proc'[x] \in {"none", "running", "ok", "failed", "killed"}
      BY <3>1, <3>2 DEF Typed, OutsideTyped
    <3>4. proc' \in [Peers \cup {Manager} -> {"none", "running", "ok", "failed", "killed"}]
      BY <3>1, <3>2, <3>3
    <3>5. main' \in {"wait", "left"}
      BY <2>2 DEF ForkPeers
    <3> QED
      BY <2>2, <3>1, <3>4, <3>5 DEF ForkPeers, Typed, OutsideTyped, agent
  <2> QED
    BY <2>1, <2>2 DEF Main
<1> QED
  BY <1>1, <1>2 DEF Main, ForkManager, ForkPeers, WaitPid, Typed, AgentTyped, ManagerTyped, agent, test, locks, tasks,
     counts

LEMMA InitTyped == Init => Typed
<1> SUFFICES ASSUME Init PROVE Typed
  OBVIOUS
<1>1. OutsideTyped
  BY DEF Init, OutsideTyped, Devs, States, Stored, Syncs
<1>2. AgentTyped
  BY DEF Init, AgentTyped
<1>3. ManagerTyped
  BY UnclaimedTyped DEF Init, ManagerTyped, AppStates, Handlers, Claimers
<1>4. FaultsTyped
  <2>1. failed = 0
    BY DEF Init
  <2>2. failed \in 0 .. MaxFaults
    BY <2>1, MultiPeerAssumption
  <2>3. callFailed \in BOOLEAN
    BY DEF Init
  <2> QED
    BY <2>2, <2>3 DEF FaultsTyped
<1> QED
  BY <1>1, <1>2, <1>3, <1>4 DEF Typed

------------------------------------------------------------------------------
(* What a step leaves to a peer *)

\* The events of a peer after a step: none is new, and their order is the same.
Carries(p) ==
  \E k \in {0, 1} : \A i \in 1 .. Len(events') :
    events'[i].app = p => i + k \in 1 .. Len(events) /\ events[i + k] = events'[i]

SameData(p) ==
  /\ dev'[p] = dev[p] /\ row'[p] = row[p] /\ view'[p] = view[p] /\ apps'[p] = apps[p]
  /\ checker'[p] = checker[p]

SameTasks(p) ==
  /\ updater' = updater \/ (updater.app # p /\ updater'.app # p)
  /\ Works(p)' => Works(p)
  /\ Sends(p)' => Sends(p)
  /\ Listed(p)' => Listed(p) \/ apps[p] = "discovered"
  /\ Locking(p)' => Locking(p)
  /\ Storing(p)' <=> Storing(p)

LEMMA CarriesAll == ASSUME Typed, events' = events, NEW p \in Peers PROVE Carries(p)
<1>1. \A i \in 1 .. Len(events') : i + 0 \in 1 .. Len(events) /\ events[i + 0] = events'[i]
  BY DEF Typed, AgentTyped
<1> QED
  BY <1>1 DEF Carries

LEMMA CarriesTail ==
  ASSUME Typed, events # <<>>, events' = Tail(events), NEW p \in Peers
  PROVE  Carries(p)
<1>1. \A i \in 1 .. Len(events') : i + 1 \in 1 .. Len(events) /\ events[i + 1] = events'[i]
  BY DEF Typed, AgentTyped
<1> QED
  BY <1>1 DEF Carries

LEMMA CarriesOthers ==
  ASSUME Typed, NEW e, events' = Append(events, e), NEW p \in Peers, e.app # p
  PROVE  Carries(p)
<1>1. \A i \in 1 .. Len(events') : (i \in 1 .. Len(events) /\ events'[i] = events[i]) \/ events'[i] = e
  BY DEF Typed, AgentTyped
<1>2. \A i \in 1 .. Len(events') :
        events'[i].app = p => i + 0 \in 1 .. Len(events) /\ events[i + 0] = events'[i]
  BY <1>1
<1> QED
  BY <1>2 DEF Carries

LEMMA FreshKept ==
  ASSUME NEW p \in Peers, Fresh(p), Carries(p), dev'[p] = dev[p], row'[p] = row[p], view'[p] = view[p]
  PROVE  Fresh(p)'
BY DEF Fresh, Carries

LEMMA AskedKept ==
  ASSUME NEW p \in Peers, Asked(p), Carries(p), dev'[p].state = dev[p].state, view'[p] # None,
         view'[p].state = view[p].state
  PROVE  Asked(p)'
BY DEF Asked, Carries

LEMMA InOrderKept ==
  ASSUME Typed, Typed', NEW p \in Peers, InOrder(p), Carries(p), dev'[p].state = dev[p].state,
         view'[p] = view[p]
  PROVE  InOrder(p)'
<1>1. PICK k \in {0, 1} : \A i \in 1 .. Len(events') :
        events'[i].app = p => i + k \in 1 .. Len(events) /\ events[i + k] = events'[i]
  BY DEF Carries
<1>2. Len(events) \in Nat /\ Len(events') \in Nat
  BY DEF Typed, AgentTyped
<1>3. ASSUME NEW i \in 1 .. Len(events'), events'[i].app = p, events'[i].state = "need_update"
      PROVE  /\ view'[p].state = "need_update"
             /\ \A j \in i .. Len(events') : events'[j].app = p => events'[j].state = "need_update"
  <2>1. i + k \in 1 .. Len(events) /\ events[i + k] = events'[i]
    BY <1>1, <1>3
  <2>2. \A j \in i + k .. Len(events) : events[j].app = p => events[j].state = "need_update"
    BY <1>3, <2>1 DEF InOrder
  <2>3. ASSUME NEW j \in i .. Len(events'), events'[j].app = p
        PROVE  events'[j].state = "need_update"
    <3>1. j \in 1 .. Len(events')
      BY <1>2
    <3>2. j + k \in 1 .. Len(events) /\ events[j + k] = events'[j]
      BY <1>1, <2>3, <3>1
    <3>3. j + k \in i + k .. Len(events)
      BY <1>2, <3>2
    <3> QED
      BY <2>2, <2>3, <3>2, <3>3
  <2> QED
    BY <1>3, <2>1, <2>3 DEF InOrder
<1> QED
  BY <1>3 DEF InOrder

LEMMA EventsNews ==
  ASSUME Typed, Typed', NEW p \in Peers, News(p), apps[p] \notin Over, Carries(p), view'[p] = view[p],
         row[p].mem => row'[p].mem, dev[p].mem => dev'[p].mem
  PROVE  /\ view'[p] # None /\ view'[p].sync = "pending" => row'[p].mem
         /\ apps[p] = "updating" /\ view'[p].sync = "ok" => dev'[p].mem
         /\ \A i \in 1 .. Len(events') : events'[i].app = p =>
              /\ events'[i].sync = "pending" => row'[p].mem /\ (view'[p].sync = "ok" => dev'[p].mem)
              /\ events'[i].sync = "ok" =>
                   /\ apps[p] = "updating" => dev'[p].mem
                   /\ \A j \in 1 .. i : events'[j].app = p /\ events'[j].sync = "pending" => dev'[p].mem
<1>1. PICK k \in {0, 1} : \A i \in 1 .. Len(events') :
        events'[i].app = p => i + k \in 1 .. Len(events) /\ events[i + k] = events'[i]
  BY DEF Carries
<1>2. Len(events) \in Nat /\ Len(events') \in Nat
  BY DEF Typed, AgentTyped
<1>3. ASSUME NEW i \in 1 .. Len(events'), events'[i].app = p
      PROVE  /\ events'[i].sync = "pending" => row'[p].mem /\ (view'[p].sync = "ok" => dev'[p].mem)
             /\ events'[i].sync = "ok" =>
                  /\ apps[p] = "updating" => dev'[p].mem
                  /\ \A j \in 1 .. i : events'[j].app = p /\ events'[j].sync = "pending" => dev'[p].mem
  <2>1. i + k \in 1 .. Len(events) /\ events[i + k] = events'[i]
    BY <1>1, <1>3
  <2>2. /\ events'[i].sync = "pending" => row[p].mem /\ (view[p].sync = "ok" => dev[p].mem)
        /\ events'[i].sync = "ok" =>
             /\ apps[p] = "updating" => dev[p].mem
             /\ \A j \in 1 .. i + k : events[j].app = p /\ events[j].sync = "pending" => dev[p].mem
    BY <1>3, <2>1 DEF News
  <2>3. ASSUME NEW j \in 1 .. i, events'[j].app = p, events'[j].sync = "pending", events'[i].sync = "ok"
        PROVE  dev'[p].mem
    <3>1. j \in 1 .. Len(events')
      BY <1>2
    <3>2. j + k \in 1 .. Len(events) /\ events[j + k] = events'[j]
      BY <1>1, <2>3, <3>1
    <3>3. j + k \in 1 .. i + k
      BY <1>2, <3>2
    <3> QED
      BY <2>2, <2>3, <3>2, <3>3
  <2> QED
    BY <2>2, <2>3
<1> QED
  BY <1>3 DEF News

\* The news stay true when the manager takes the peer one stage further.
LEMMA NewsMoved ==
  ASSUME Typed, Typed', NEW p \in Peers, News(p), apps[p] \notin Over, Carries(p), view'[p] = view[p],
         row[p].mem => row'[p].mem, dev[p].mem => dev'[p].mem,
         apps'[p] \in Changing \/ Sends(p)' => row'[p].mem,
         apps'[p] = "check_update" => dev'[p].mem,
         apps'[p] = "updating" /\ apps[p] # "updating" =>
           /\ view[p].sync = "ok" => dev[p].mem
           /\ \A i \in 1 .. Len(events') : events'[i].app = p /\ events'[i].sync = "ok" => dev[p].mem
  PROVE  News(p)'
<1>1. /\ view'[p] # None /\ view'[p].sync = "pending" => row'[p].mem
      /\ apps[p] = "updating" /\ view'[p].sync = "ok" => dev'[p].mem
      /\ \A i \in 1 .. Len(events') : events'[i].app = p =>
           /\ events'[i].sync = "pending" => row'[p].mem /\ (view'[p].sync = "ok" => dev'[p].mem)
           /\ events'[i].sync = "ok" =>
                /\ apps[p] = "updating" => dev'[p].mem
                /\ \A j \in 1 .. i : events'[j].app = p /\ events'[j].sync = "pending" => dev'[p].mem
  BY EventsNews
<1>2. apps'[p] = "updating" /\ view'[p].sync = "ok" => dev'[p].mem
  BY <1>1
<1>3. \A i \in 1 .. Len(events') :
        events'[i].app = p /\ events'[i].sync = "ok" /\ apps'[p] = "updating" => dev'[p].mem
  BY <1>1
<1> QED
  BY <1>1, <1>2, <1>3 DEF News

LEMMA NewsKept ==
  ASSUME Typed, Typed', NEW p \in Peers, News(p), Carries(p), apps'[p] = apps[p], view'[p] = view[p],
         row[p].mem => row'[p].mem, dev[p].mem => dev'[p].mem, apps[p] \notin Over /\ Sends(p)' => row'[p].mem
  PROVE  News(p)'
<1>1. CASE apps[p] \in Over
  BY <1>1 DEF News
<1>2. CASE apps[p] \notin Over
  <2>1. apps'[p] \in Changing \/ Sends(p)' => row'[p].mem
    BY <1>2 DEF News
  <2>2. apps'[p] = "check_update" => dev'[p].mem
    BY <1>2 DEF News
  <2> QED
    BY <1>2, <2>1, <2>2, NewsMoved
<1> QED
  BY <1>1, <1>2

\* What a step does not touch stays as it is.
LEMMA PeerKept ==
  ASSUME Typed, Typed', NEW p \in Peers, PeerInv(p), Carries(p), SameData(p), SameTasks(p)
  PROVE  PeerInv(p)'
<1>1. Fresh(p) => Fresh(p)'
  BY FreshKept DEF SameData
<1>2. Asked(p) => Asked(p)'
  BY AskedKept DEF SameData, Asked
<1>3. InOrder(p) => InOrder(p)'
  BY InOrderKept DEF SameData
<1>4. News(p)'
  <2>1. apps[p] \notin Over /\ Sends(p)' => row'[p].mem
    BY DEF SameData, SameTasks, PeerInv, News, Sends
  <2> QED
    BY <2>1, NewsKept DEF SameData, PeerInv
<1>5. \A i \in 1 .. Len(events') : events'[i].app = p => view'[p] # None
  BY DEF PeerInv, Stages, SameData, Carries
<1>6. Stages(p)'
  BY <1>1, <1>2, <1>3, <1>5 DEF PeerInv, Stages, SameData, SameTasks
<1>9. ClaimOf(p)'
  BY <1>1 DEF PeerInv, ClaimOf, SameData, SameTasks
<1>7. Storage(p)'
  BY DEF PeerInv, Storage, SameData, SameTasks
<1>8. Updated(p)'
  BY DEF PeerInv, Updated, SameData, SameTasks
<1> QED
  BY <1>4, <1>6, <1>7, <1>8, <1>9 DEF PeerInv

------------------------------------------------------------------------------
(* A peer that is heard of *)

\* Its state in the map is v, and the listeners are told so.
Event(p, v) == [app |-> p, state |-> v.state, sync |-> v.sync]
Hears(p, v) == v \in Seen /\ view' = [view EXCEPT ![p] = v] /\ events' = Append(events, Event(p, v))

LEMMA SeenIsSome == \A v \in Seen : v # None
BY DEF Seen, None, States

LEMMA Added ==
  ASSUME Typed, NEW p \in Peers, NEW v \in Seen, Hears(p, v)
  PROVE  /\ Len(events) \in Nat /\ Len(events') = Len(events) + 1 /\ view'[p] = v /\ view'[p] # None
         /\ \A i \in 1 .. Len(events') :
              \/ i \in 1 .. Len(events) /\ events'[i] = events[i]
              \/ i = Len(events) + 1 /\ events'[i] = Event(p, v)
BY SeenIsSome DEF Hears, Typed, AgentTyped

LEMMA HearsFresh ==
  ASSUME Typed, NEW p \in Peers, NEW v \in Seen, Hears(p, v), Fresh(p), v.state = "claimable",
         dev'[p].state = dev[p].state, row'[p].sync = row[p].sync
  PROVE  Fresh(p)'
<1>1. \A i \in 1 .. Len(events') :
        (i \in 1 .. Len(events) /\ events'[i] = events[i]) \/ events'[i] = Event(p, v)
  BY Added
<1>2. view'[p] = v /\ v # None
  BY Added
<1> QED
  BY <1>1, <1>2 DEF Fresh, Event

LEMMA HearsAsked ==
  ASSUME Typed, NEW p \in Peers, NEW v \in Seen, Hears(p, v), Asked(p), v.state = "need_update",
         dev'[p].state = dev[p].state
  PROVE  Asked(p)'
<1>1. \A i \in 1 .. Len(events') :
        (i \in 1 .. Len(events) /\ events'[i] = events[i]) \/ events'[i] = Event(p, v)
  BY Added
<1>2. view'[p] = v /\ v # None
  BY Added
<1> QED
  BY <1>1, <1>2 DEF Asked, Event

LEMMA HearsInOrder ==
  ASSUME Typed, NEW p \in Peers, NEW v \in Seen, Hears(p, v), InOrder(p),
         dev'[p].state = dev[p].state, v.state = "need_update" => dev[p].state = "need_update",
         view[p] # None /\ view[p].state = "need_update" => v.state = "need_update",
         \A i \in 1 .. Len(events) : events[i].app = p => view[p] # None
  PROVE  InOrder(p)'
<1>1. /\ Len(events) \in Nat /\ Len(events') = Len(events) + 1 /\ view'[p] = v /\ view'[p] # None
      /\ \A i \in 1 .. Len(events') :
           (i \in 1 .. Len(events) /\ events'[i] = events[i]) \/ (i = Len(events) + 1 /\ events'[i] = Event(p, v))
  BY Added
<1>2. ASSUME NEW i \in 1 .. Len(events'), events'[i].app = p, events'[i].state = "need_update"
      PROVE  /\ v.state = "need_update"
             /\ \A j \in i .. Len(events') : events'[j].app = p => events'[j].state = "need_update"
  <2>1. CASE i \in 1 .. Len(events) /\ events'[i] = events[i]
    <3>1. /\ view[p].state = "need_update" /\ view[p] # None
          /\ \A j \in i .. Len(events) : events[j].app = p => events[j].state = "need_update"
      BY <1>2, <2>1 DEF InOrder
    <3>2. v.state = "need_update"
      BY <3>1
    <3>3. ASSUME NEW j \in i .. Len(events'), events'[j].app = p PROVE events'[j].state = "need_update"
      <4>1. j \in 1 .. Len(events') /\ (j \in 1 .. Len(events) => j \in i .. Len(events))
        BY <1>1, <2>1
      <4> QED
        BY <1>1, <3>1, <3>2, <3>3, <4>1 DEF Event
    <3> QED
      BY <3>2, <3>3
  <2>2. CASE i = Len(events) + 1 /\ events'[i] = Event(p, v)
    <3>1. \A j \in i .. Len(events') : j = i
      BY <1>1, <2>2
    <3> QED
      BY <1>2, <2>2, <3>1 DEF Event
  <2> QED
    BY <1>1, <2>1, <2>2
<1> QED
  BY <1>1, <1>2 DEF InOrder

LEMMA HearsNews ==
  ASSUME Typed, NEW p \in Peers, NEW v \in Seen, Hears(p, v), News(p), apps'[p] = apps[p],
         row[p].mem => row'[p].mem, dev[p].mem => dev'[p].mem, apps[p] \notin Over /\ Sends(p)' => row'[p].mem,
         \A i \in 1 .. Len(events) : events[i].app = p => view[p] # None,
         v.sync = "pending" => row'[p].mem,
         v.sync = "ok" => (row'[p].mem => dev'[p].mem) \/ (view[p] # None /\ view[p].sync = "ok")
  PROVE  News(p)'
<1> SUFFICES ASSUME apps[p] \notin Over PROVE News(p)'
  BY DEF News
<1>1. /\ Len(events) \in Nat /\ Len(events') = Len(events) + 1 /\ view'[p] = v /\ view'[p] # None
      /\ \A i \in 1 .. Len(events') :
           (i \in 1 .. Len(events) /\ events'[i] = events[i]) \/ (i = Len(events) + 1 /\ events'[i] = Event(p, v))
  BY Added
<1>2. ASSUME NEW i \in 1 .. Len(events), events[i].app = p
      PROVE  events[i].sync = "pending" => row'[p].mem /\ (v.sync = "ok" => dev'[p].mem)
  BY <1>2 DEF News
<1>3. apps[p] = "updating" => (v.sync = "ok" => dev'[p].mem)
  BY DEF News, Changing
<1>4. ASSUME NEW i \in 1 .. Len(events'), events'[i].app = p
      PROVE  /\ events'[i].sync = "pending" => row'[p].mem /\ (v.sync = "ok" => dev'[p].mem)
             /\ events'[i].sync = "ok" =>
                  /\ apps'[p] = "updating" => dev'[p].mem
                  /\ \A j \in 1 .. i : events'[j].app = p /\ events'[j].sync = "pending" => dev'[p].mem
  <2>1. CASE i \in 1 .. Len(events) /\ events'[i] = events[i]
    <3>1. \A j \in 1 .. i : j \in 1 .. Len(events') /\ j # Len(events) + 1
      BY <1>1, <2>1
    <3>2. \A j \in 1 .. i : events'[j] = events[j]
      BY <1>1, <3>1
    <3> QED
      BY <1>2, <1>4, <2>1, <3>2 DEF News
  <2>2. CASE i = Len(events) + 1 /\ events'[i] = Event(p, v)
    <3>1. \A j \in 1 .. i : j \in 1 .. Len(events')
      BY <1>1, <2>2
    <3>2. \A j \in 1 .. i : events'[j].app = p /\ events'[j].sync = "pending" /\ v.sync = "ok" => dev'[p].mem
      BY <1>1, <1>2, <3>1 DEF Event
    <3>3. events'[i].sync = v.sync
      BY <2>2 DEF Event
    <3>4. v.sync = "pending" => v.sync # "ok"
      OBVIOUS
    <3> QED
      BY <1>3, <3>2, <3>3, <3>4
  <2> QED
    BY <1>1, <2>1, <2>2
<1>5. view'[p].sync = "pending" => row'[p].mem
  BY <1>1
<1>6. apps'[p] \in Changing \/ Sends(p)' => row'[p].mem
  BY DEF News
<1>7. (apps'[p] = "updating" /\ view'[p].sync = "ok" => dev'[p].mem) /\ (apps'[p] = "check_update" => dev'[p].mem)
  BY <1>1, <1>3 DEF News
<1>8. \A i \in 1 .. Len(events') : events'[i].app = p /\ events'[i].sync = "pending" =>
        row'[p].mem /\ (view'[p].sync = "ok" => dev'[p].mem)
  BY <1>1, <1>4
<1>9. \A i \in 1 .. Len(events') : events'[i].app = p /\ events'[i].sync = "ok" =>
           /\ apps'[p] = "updating" => dev'[p].mem
           /\ \A j \in 1 .. i : events'[j].app = p /\ events'[j].sync = "pending" => dev'[p].mem
  BY <1>4
<1> QED
  BY <1>5, <1>6, <1>7, <1>8, <1>9 DEF News, Sends

LEMMA HearsOthers ==
  ASSUME Typed, NEW a \in Peers, NEW v \in Seen, Hears(a, v), NEW p \in Peers, p # a
  PROVE  Carries(p) /\ view'[p] = view[p]
BY CarriesOthers DEF Hears, Event, Typed, AgentTyped

LEMMA TellHears ==
  ASSUME Typed, NEW a \in Peers, NEW s \in Told, Tell(a, s)
  PROVE  \/ view' = view /\ events' = events /\ (view[a] = None \/ view[a].sync = s)
         \/ /\ view[a] # None
            /\ \E v \in Seen : v = [state |-> view[a].state, sync |-> s] /\ Hears(a, v)
<1>1. CASE view[a] = None \/ view[a].sync = s
  BY <1>1 DEF Tell
<1>2. CASE ~(view[a] = None \/ view[a].sync = s)
  <2>1. view[a] \in Seen
    BY <1>2 DEF Typed, AgentTyped
  <2>2. PICK v \in Seen : v = [state |-> view[a].state, sync |-> s]
    BY <2>1 DEF Seen
  <2>3. [view[a] EXCEPT !.sync = s] = v
    BY <2>1, <2>2 DEF Seen
  <2>4. Hears(a, v)
    BY <1>2, <2>2, <2>3 DEF Tell, Hears, Event
  <2> QED
    BY <1>2, <2>2, <2>4
<1> QED
  BY <1>1, <1>2

LEMMA TellOthers ==
  ASSUME Typed, NEW a \in Peers, NEW s \in Told, Tell(a, s), NEW p \in Peers, p # a
  PROVE  Carries(p) /\ view'[p] = view[p]
BY TellHears, HearsOthers, CarriesAll

\* The state of an application does not change when its sync state does.
LEMMA TellStages ==
  ASSUME Typed, NEW a \in Peers, NEW s \in Told, Tell(a, s), dev'[a].state = dev[a].state,
         \A i \in 1 .. Len(events) : events[i].app = a => view[a] # None
  PROVE  /\ Asked(a) => Asked(a)'
         /\ InOrder(a) => InOrder(a)'
         /\ Fresh(a) /\ row'[a].sync = row[a].sync => Fresh(a)'
         /\ view[a] # None => view'[a] # None
         /\ \A i \in 1 .. Len(events') : events'[i].app = a => view'[a] # None
<1>1. CASE view' = view /\ events' = events
  BY <1>1 DEF Asked, InOrder, Fresh
<1>2. CASE view[a] # None /\ \E v \in Seen : v = [state |-> view[a].state, sync |-> s] /\ Hears(a, v)
  <2>1. PICK v \in Seen : v = [state |-> view[a].state, sync |-> s] /\ Hears(a, v)
    BY <1>2
  <2>2. v.state = view[a].state
    BY <2>1
  <2>3. view'[a] # None
    BY <2>1, Added
  <2>4. Asked(a) => Asked(a)'
    BY <2>1, <2>2, HearsAsked DEF Asked
  <2>5. InOrder(a) => InOrder(a)'
    BY <1>2, <2>1, <2>2, HearsInOrder DEF InOrder
  <2>6. Fresh(a) /\ row'[a].sync = row[a].sync => Fresh(a)'
    BY <1>2, <2>1, <2>2, HearsFresh DEF Fresh
  <2> QED
    BY <2>3, <2>4, <2>5, <2>6
<1> QED
  BY <1>1, <1>2, TellHears

LEMMA TellNews ==
  ASSUME Typed, Typed', NEW a \in Peers, NEW s \in Told, Tell(a, s), News(a), apps'[a] = apps[a],
         \A i \in 1 .. Len(events) : events[i].app = a => view[a] # None,
         row[a].mem => row'[a].mem, dev[a].mem => dev'[a].mem, Sends(a)' => row'[a].mem,
         s = "pending" => row'[a].mem, s = "ok" => (row'[a].mem => dev'[a].mem)
  PROVE  News(a)'
<1>1. CASE view' = view /\ events' = events
  BY <1>1, NewsKept, CarriesAll
<1>2. CASE view[a] # None /\ \E v \in Seen : v = [state |-> view[a].state, sync |-> s] /\ Hears(a, v)
  <2>1. PICK v \in Seen : v = [state |-> view[a].state, sync |-> s] /\ Hears(a, v)
    BY <1>2
  <2>2. v.sync = s
    BY <2>1
  <2> QED
    BY <2>1, <2>2, HearsNews
<1> QED
  BY <1>1, <1>2, TellHears

------------------------------------------------------------------------------
(* The steps, below the manager *)

LEMMA NotHere == NoJob.app \notin Peers
BY MultiPeerAssumption DEF NoJob

LEMMA SameThreads ==
  ASSUME NEW p \in Peers, handler' = handler, claimer' = claimer
  PROVE  /\ Locking(p)' <=> Locking(p)
         /\ Storing(p)' <=> Storing(p)
         /\ Works(p)' <=> Works(p)
         /\ Sends(p)' <=> Sends(p)
         /\ Listed(p)' <=> Listed(p)
BY DEF Works, Sends, Listed, Locking, Storing

LEMMA HearStatePeers ==
  ASSUME Typed, Typed', Peered, NEW a \in Peers, HearState(a)
  PROVE  Peered'
<1> DEFINE sync == IF view[a] # None THEN view[a].sync
                   ELSE IF row[a].sync = "none" THEN "unmanaged" ELSE row[a].sync
<1>1. PICK v : v = [state |-> dev[a].state, sync |-> sync]
  OBVIOUS
<1>2. v \in Seen
  BY <1>1 DEF Typed, OutsideTyped, AgentTyped, Told, Seen, Stored, Syncs, Devs
<1>3. Hears(a, v)
  BY <1>1, <1>2 DEF HearState, Hears, Event
<1>4. /\ dev' = dev /\ row' = row /\ updater' = updater /\ apps' = apps /\ checker' = checker
      /\ handler' = handler /\ claimer' = claimer
  BY DEF HearState, test, tasks
<1>5. v.state = dev[a].state /\ v.sync = sync
  BY <1>1
<1>6. view'[a] = v /\ view'[a] # None
  BY <1>2, <1>3, Added
<1>7. PeerInv(a)
  BY DEF Peered
<1>8. Stages(a)'
  <2>1. Fresh(a) => Fresh(a)'
    BY <1>2, <1>3, <1>4, <1>5, HearsFresh DEF Fresh
  <2>2. Asked(a) => Asked(a)'
    BY <1>2, <1>3, <1>4, <1>5, HearsAsked DEF Asked
  <2>3. InOrder(a) => InOrder(a)'
    BY <1>2, <1>3, <1>4, <1>5, <1>7, HearsInOrder DEF InOrder, PeerInv, Stages
  <2> QED
    BY <1>4, <1>6, <1>7, <2>1, <2>2, <2>3, SameThreads DEF PeerInv, Stages
<1>9. ClaimOf(a)'
  <2>1. Fresh(a) => Fresh(a)'
    BY <1>2, <1>3, <1>4, <1>5, HearsFresh DEF Fresh
  <2> QED
    BY <1>4, <1>7, <2>1, SameThreads DEF PeerInv, ClaimOf
<1>10. Storage(a)' /\ Updated(a)'
  BY <1>4, <1>7, SameThreads DEF PeerInv, Storage, Updated
<1>11. News(a)'
  <2>1. CASE apps[a] \in Over
    BY <1>4, <2>1 DEF News
  <2>2. CASE apps[a] \notin Over
    <3>1. Sends(a)' => row'[a].mem
      BY <1>4, <1>7, <2>2, SameThreads DEF PeerInv, News
    <3>2. view[a] = None => v.sync = "unmanaged"
      BY <1>5, <1>7 DEF PeerInv, Stages, Fresh, Early
    <3>3. v.sync = "pending" => row'[a].mem
      BY <1>4, <1>5, <1>7, <2>2, <3>2 DEF PeerInv, News
    <3>4. v.sync = "ok" => view[a] # None /\ view[a].sync = "ok"
      BY <1>5, <3>2
    <3>5. \A i \in 1 .. Len(events) : events[i].app = a => view[a] # None
      BY <1>7 DEF PeerInv, Stages
    <3>6. News(a)
      BY <1>7 DEF PeerInv
    <3> QED
      BY <1>2, <1>3, <1>4, <3>1, <3>3, <3>4, <3>5, <3>6, HearsNews
  <2> QED
    BY <2>1, <2>2
<1>12. ASSUME NEW p \in Peers, p # a PROVE PeerInv(p)'
  <2>1. Carries(p) /\ view'[p] = view[p]
    BY <1>2, <1>3, <1>12, HearsOthers
  <2>2. SameData(p) /\ SameTasks(p)
    BY <1>4, <2>1, SameThreads DEF SameData, SameTasks
  <2> QED
    BY <2>1, <2>2, PeerKept DEF Peered
<1> QED
  BY <1>8, <1>9, <1>10, <1>11, <1>12 DEF Peered, PeerInv

\* An application gets what is stored, or is reset.
LEMMA SendPeers ==
  ASSUME Typed, Typed', Peered, NEW a \in Peers, Send(a), row[a].sync # "none",
         updater = NoJob \/ updater.app = a,
         row' = row, view' = view, events' = events, apps' = apps, checker' = checker,
         handler' = handler, claimer' = claimer
  PROVE  Peered'
<1>1. PeerInv(a)
  BY DEF Peered
<1>2. Carries(a)
  BY CarriesAll
<1>3. updater'.app = a /\ updater'.reset = (row[a].sync = "will_reset") /\ ~updater'.dirty
  BY DEF Send
<1>4. ASSUME row[a].sync = "will_reset" PROVE PeerInv(a)'
  <2>1. apps[a] \in Over
    BY <1>1, <1>4 DEF PeerInv, Stages
  <2>2. dev'[a].state = "claimable" /\ ~dev'[a].mem
    BY <1>4 DEF Send, Typed, OutsideTyped
  <2>3. Stages(a)'
    BY <1>1, <1>4, <2>1, <2>2, SameThreads DEF PeerInv, Stages, Over, Early, Changing, Claims
  <2>4. ClaimOf(a)'
    BY <1>1, <2>1, SameThreads DEF PeerInv, ClaimOf, Over, Claims
  <2>5. Storage(a)'
    BY <1>1, <1>4, <2>2 DEF PeerInv, Storage
  <2>6. Updated(a)'
    BY <1>3, <1>4, <2>2 DEF Updated
  <2>7. News(a)'
    BY <2>1 DEF News
  <2> QED
    BY <2>3, <2>4, <2>5, <2>6, <2>7 DEF PeerInv
<1>5. ASSUME row[a].sync # "will_reset" PROVE PeerInv(a)'
  <2>1. apps[a] \notin Over /\ apps[a] \notin Early
    BY <1>1, <1>5 DEF PeerInv, Stages, Fresh
  <2>2. dev'[a].state = dev[a].state /\ dev'[a].mem = row[a].mem
    BY <1>5 DEF Send, Typed, OutsideTyped, Devs
  <2>3. Stages(a)'
    <3>1. InOrder(a)'
      BY <1>1, <1>2, <2>1, <2>2, InOrderKept DEF PeerInv, Stages
    <3>2. Asked(a) => Asked(a)'
      BY <1>2, <2>2, AskedKept DEF Asked
    <3> QED
      BY <1>1, <2>1, <3>1, <3>2, SameThreads DEF PeerInv, Stages, Over
  <2>4. ClaimOf(a)'
    BY <1>1, <2>1, SameThreads DEF PeerInv, ClaimOf, Early, Fresh
  <2>5. Storage(a)'
    BY <1>1, <2>2, SameThreads DEF PeerInv, Storage
  <2>6. Updated(a)'
    BY <1>3, <1>5, <2>2 DEF Updated
  <2>7. News(a)'
    <3>1. dev[a].mem => dev'[a].mem
      BY <1>1, <2>2 DEF PeerInv, Storage
    <3>2. Sends(a)' => row'[a].mem
      BY <1>1, <2>1, SameThreads DEF PeerInv, News
    <3> QED
      BY <1>1, <1>2, <3>1, <3>2, NewsKept DEF PeerInv
  <2> QED
    BY <2>3, <2>4, <2>5, <2>6, <2>7 DEF PeerInv
<1>6. ASSUME NEW p \in Peers, p # a PROVE PeerInv(p)'
  <2>1. Carries(p)
    BY CarriesAll
  <2>2. dev'[p] = dev[p]
    BY <1>6 DEF Send, Typed, OutsideTyped
  <2>3. updater.app # p /\ updater'.app # p
    BY <1>3, <1>6, NotHere
  <2>4. SameData(p) /\ SameTasks(p)
    BY <2>2, <2>3, SameThreads DEF SameData, SameTasks
  <2> QED
    BY <2>1, <2>4, PeerKept DEF Peered
<1> QED
  BY <1>4, <1>5, <1>6 DEF Peered

\* Most steps touch nothing of what the invariant says of a peer.
LEMMA Untouched ==
  ASSUME Typed, Typed', Peered, dev' = dev, row' = row, view' = view, events' = events, apps' = apps,
         checker' = checker, updater' = updater,
         \A p \in Peers : SameTasks(p)
  PROVE  Peered'
<1>1. ASSUME NEW p \in Peers PROVE PeerInv(p)'
  <2>1. Carries(p)
    BY CarriesAll
  <2>2. SameData(p)
    BY DEF SameData
  <2> QED
    BY <2>1, <2>2, PeerKept DEF Peered
<1> QED
  BY <1>1 DEF Peered

LEMMA StartUpdatesPeers ==
  ASSUME Typed, Typed', Peered, StartUpdates
  PROVE  Peered'
<1> DEFINE a == Head(jobs).app
<1>1. a \in Peers
  <2>1. jobs \in Seq(Jobs) /\ jobs # <<>>
    BY DEF StartUpdates, Typed, AgentTyped
  <2>2. Head(jobs) \in Jobs
    BY <2>1
  <2> QED
    BY <2>2 DEF Jobs
<1>2. /\ updater = NoJob /\ row' = row /\ view' = view /\ events' = events /\ apps' = apps
      /\ checker' = checker /\ handler' = handler /\ claimer' = claimer
  BY DEF StartUpdates, tasks
<1>3. CASE row[a].sync # "none" /\ Send(a)
  BY <1>1, <1>2, <1>3, SendPeers
<1>4. CASE UNCHANGED <<updater, dev, signals>>
  <2>1. \A p \in Peers : SameTasks(p)
    BY <1>2, <1>4, SameThreads DEF SameTasks
  <2> QED
    BY <1>2, <1>4, <2>1, Untouched
<1> QED
  BY <1>3, <1>4 DEF StartUpdates

LEMMA UpdatesCompletedPeers ==
  ASSUME Typed, Typed', Peered, UpdatesCompleted
  PROVE  Peered'
<1>1. PICK a \in Peers : a = updater.app
  BY DEF UpdatesCompleted, Typed, AgentTyped, Updates
<1>2. /\ apps' = apps /\ checker' = checker /\ handler' = handler /\ claimer' = claimer
  BY DEF UpdatesCompleted, test, tasks
<1>3. PeerInv(a) /\ row[a].sync # "none" /\ \A i \in 1 .. Len(events) : events[i].app = a => view[a] # None
  BY <1>1 DEF Peered, PeerInv, Updated, Stages
<1>4. ASSUME NEW s \in {"unmanaged", "ok"}, Tell(a, s), updater' = NoJob, dev' = dev,
             NEW r, row' = [row EXCEPT ![a] = r], NEW p \in Peers, p # a
      PROVE  PeerInv(p)'
  <2>1. Carries(p) /\ view'[p] = view[p]
    BY <1>1, <1>4, TellOthers DEF Told
  <2>2. row'[p] = row[p]
    BY <1>4 DEF Typed, OutsideTyped
  <2>3. updater.app # p /\ updater'.app # p
    BY <1>1, <1>4, NotHere
  <2>4. SameData(p) /\ SameTasks(p)
    BY <1>2, <1>4, <2>1, <2>2, <2>3, SameThreads DEF SameData, SameTasks
  <2> QED
    BY <2>1, <2>4, PeerKept DEF Peered
<1>5. CASE /\ updater.reset /\ row' = [row EXCEPT ![a] = [sync |-> "none", mem |-> FALSE, pol |-> FALSE]]
           /\ Tell(a, "unmanaged") /\ updater' = NoJob /\ UNCHANGED <<dev, signals>>
  <2>1. row[a].sync = "will_reset" /\ dev[a].state = "claimable" /\ ~dev[a].mem
    BY <1>1, <1>3, <1>5 DEF PeerInv, Updated
  <2>2. apps[a] \in Over
    BY <1>3, <2>1 DEF PeerInv, Stages
  <2>3. row'[a].sync = "none" /\ ~row'[a].mem
    BY <1>1, <1>5 DEF Typed, OutsideTyped
  <2>4. /\ view[a] # None => view'[a] # None
        /\ \A i \in 1 .. Len(events') : events'[i].app = a => view'[a] # None
    BY <1>1, <1>3, <1>5, TellStages DEF Told
  <2>5. Stages(a)'
    BY <1>2, <1>3, <1>5, <2>1, <2>2, <2>3, <2>4, SameThreads DEF PeerInv, Stages, Over, Early, Changing, Claims
  <2>6. ClaimOf(a)'
    BY <1>2, <1>3, <2>2, SameThreads DEF PeerInv, ClaimOf, Over, Claims
  <2>7. Storage(a)' /\ News(a)'
    BY <1>2, <1>5, <2>1, <2>2, <2>3 DEF Storage, News
  <2>8. Updated(a)'
    BY <1>1, <1>5, NotHere DEF Updated
  <2>9. PeerInv(a)'
    BY <2>5, <2>6, <2>7, <2>8 DEF PeerInv
  <2> QED
    BY <1>4, <1>5, <2>9 DEF Peered
<1>6. CASE /\ ~updater.reset /\ ~updater.dirty /\ row' = [row EXCEPT ![a].sync = "ok"]
           /\ Tell(a, "ok") /\ updater' = NoJob /\ UNCHANGED <<dev, signals>>
  <2>1. row[a].sync # "will_reset" /\ (row[a].mem => dev[a].mem)
    BY <1>1, <1>3, <1>6 DEF PeerInv, Updated
  <2>2. apps[a] \notin Over /\ apps[a] \notin Early
    BY <1>3, <2>1 DEF PeerInv, Stages, Fresh
  <2>3. row'[a].sync = "ok" /\ row'[a].mem = row[a].mem
    BY <1>1, <1>6 DEF Typed, OutsideTyped, Stored
  <2>4. /\ Asked(a) => Asked(a)'
        /\ InOrder(a) => InOrder(a)'
        /\ view[a] # None => view'[a] # None
        /\ \A i \in 1 .. Len(events') : events'[i].app = a => view'[a] # None
    <3>1. dev'[a].state = dev[a].state /\ Tell(a, "ok") /\ "ok" \in Told
      BY <1>6 DEF Told
    <3>2. Asked(a) => Asked(a)'
      BY <1>1, <1>3, <3>1, TellStages
    <3>3. InOrder(a) => InOrder(a)'
      BY <1>1, <1>3, <3>1, TellStages
    <3>4. /\ view[a] # None => view'[a] # None
          /\ \A i \in 1 .. Len(events') : events'[i].app = a => view'[a] # None
      BY <1>1, <1>3, <3>1, TellStages
    <3> QED
      BY <3>2, <3>3, <3>4
  <2>5. Stages(a)'
    <3>1. InOrder(a)'
      BY <1>3, <2>2, <2>4 DEF PeerInv, Stages
    <3>3. row'[a].sync # "will_reset"
      BY <2>3
    <3>2. apps'[a] \in Changing \/ Works(a)' => Asked(a)'
      BY <1>2, <1>3, <2>4, SameThreads DEF PeerInv, Stages
    <3> QED
      BY <1>2, <1>3, <2>2, <2>4, <3>1, <3>2, <3>3, SameThreads DEF PeerInv, Stages, Over
  <2>6. ClaimOf(a)'
    BY <1>2, <1>3, <2>2, SameThreads DEF PeerInv, ClaimOf, Early, Fresh
  <2>7. Storage(a)'
    BY <1>3, <1>6, <2>3 DEF PeerInv, Storage
  <2>8. Updated(a)'
    BY <1>1, <1>6, NotHere DEF Updated
  <2>9. News(a)'
    <3>1. Sends(a)' => row'[a].mem
      BY <1>2, <1>3, <2>2, <2>3, SameThreads DEF PeerInv, News
    <3>2. Tell(a, "ok") /\ "ok" \in Told /\ News(a) /\ dev'[a].mem = dev[a].mem
      BY <1>3, <1>6 DEF Told, PeerInv
    <3> QED
      BY <1>1, <1>2, <1>3, <2>1, <2>3, <3>1, <3>2, TellNews
  <2>10. PeerInv(a)'
    BY <2>5, <2>6, <2>7, <2>8, <2>9 DEF PeerInv
  <2>11. row' = [row EXCEPT ![a] = [row[a] EXCEPT !.sync = "ok"]]
    BY <1>6
  <2> QED
    BY <1>4, <1>6, <2>10, <2>11 DEF Peered
<1>7. CASE Send(a) /\ UNCHANGED <<row, view, events>>
  BY <1>1, <1>2, <1>3, <1>7, SendPeers
<1> QED
  BY <1>1, <1>5, <1>6, <1>7 DEF UpdatesCompleted

LEMMA PeerSeesClaimPeers ==
  ASSUME Typed, Typed', Peered, NEW a \in Peers, PeerSeesClaim(a)
  PROVE  Peered'
<1>1. /\ row' = row /\ view' = view /\ events' = events /\ updater' = updater /\ apps' = apps
      /\ checker' = checker /\ handler' = handler /\ claimer' = claimer
  BY DEF PeerSeesClaim, agent, test, tasks
<1>2. PeerInv(a)
  BY DEF Peered
<1>3. dev[a].state = "claimed" /\ dev'[a].state = "need_update" /\ dev'[a].mem = dev[a].mem
  BY DEF PeerSeesClaim, Typed, OutsideTyped, Devs
<1>4. ~Fresh(a) /\ ~Asked(a)
  BY <1>3 DEF Fresh, Asked
<1>5. apps[a] \in Claims /\ ~Works(a)
  BY <1>2, <1>3, <1>4 DEF PeerInv, Stages, Typed, ManagerTyped, AppStates, Claims, Over, Early, Changing
<1>6. InOrder(a)'
  BY <1>1, <1>2, <1>3, <1>5 DEF PeerInv, Stages, InOrder, Claims, Over
<1>7. Stages(a)'
  BY <1>1, <1>2, <1>5, <1>6, SameThreads DEF PeerInv, Stages, Claims, Early, Over, Changing
<1>8. ClaimOf(a)'
  BY <1>1, <1>2, <1>4, SameThreads DEF PeerInv, ClaimOf
<1>9. Storage(a)'
  BY <1>1, <1>2, <1>3, SameThreads DEF PeerInv, Storage
<1>10. Updated(a)'
  BY <1>1, <1>2, <1>3 DEF PeerInv, Updated
<1>11. News(a)'
  <2>1. Sends(a)' => row'[a].mem
    BY <1>1, <1>2, <1>5, SameThreads DEF PeerInv, News, Claims, Over
  <2> QED
    BY <1>1, <1>2, <1>3, <2>1, NewsKept, CarriesAll DEF PeerInv
<1>12. ASSUME NEW p \in Peers, p # a PROVE PeerInv(p)'
  <2>1. Carries(p)
    BY <1>1, CarriesAll
  <2>2. dev'[p] = dev[p]
    BY <1>12 DEF PeerSeesClaim, Typed, OutsideTyped
  <2>3. SameData(p) /\ SameTasks(p)
    BY <1>1, <2>2, SameThreads DEF SameData, SameTasks
  <2> QED
    BY <2>1, <2>3, PeerKept DEF Peered
<1> QED
  BY <1>7, <1>8, <1>9, <1>10, <1>11, <1>12 DEF Peered, PeerInv

------------------------------------------------------------------------------
(* The steps of the manager *)

LEMMA HeadIsThere ==
  ASSUME Typed, OnApplicationStateChange
  PROVE  /\ Head(events) \in Events /\ Head(events) = events[1] /\ 1 \in 1 .. Len(events)
         /\ events' = Tail(events) /\ Len(events) \in Nat
         /\ \A i \in 1 .. Len(events') : i + 1 \in 1 .. Len(events) /\ events'[i] = events[i + 1]
<1>1. events \in Seq(Events) /\ events # <<>> /\ events' = Tail(events)
  BY DEF OnApplicationStateChange, Typed, AgentTyped
<1> QED
  BY <1>1

\* A step of the manager that takes one peer one stage further.
LEMMA MovedPeers ==
  ASSUME Typed, Typed', Peered, NEW a \in Peers, PeerInv(a)',
         dev' = dev, row' = row, view' = view, updater' = updater,
         \A p \in Peers \ {a} : Carries(p) /\ apps'[p] = apps[p] /\ checker'[p] = checker[p] /\ SameTasks(p)
  PROVE  Peered'
<1>1. ASSUME NEW p \in Peers, p # a PROVE PeerInv(p)'
  <2>1. SameData(p)
    BY <1>1 DEF SameData
  <2> QED
    BY <1>1, <2>1, PeerKept DEF Peered
<1> QED
  BY <1>1 DEF Peered

\* What a stage says of the rest of the system, after a step of the manager.
LEMMA StagesMoved ==
  ASSUME Typed, Typed', NEW p \in Peers, PeerInv(p), Carries(p), dev' = dev, row' = row, view' = view
  PROVE  /\ Fresh(p) => Fresh(p)'
         /\ Asked(p) => Asked(p)'
         /\ InOrder(p) => InOrder(p)'
         /\ view[p] # None => view'[p] # None
         /\ \A i \in 1 .. Len(events') : events'[i].app = p => view'[p] # None
<1>1. Fresh(p) => Fresh(p)'
  BY FreshKept
<1>2. Asked(p) => Asked(p)'
  BY AskedKept DEF Asked
<1>3. InOrder(p) => InOrder(p)'
  BY InOrderKept
<1>4. \A i \in 1 .. Len(events') : events'[i].app = p => view'[p] # None
  BY DEF PeerInv, Stages, Carries
<1> QED
  BY <1>1, <1>2, <1>3, <1>4

LEMMA CallbackPeers ==
  ASSUME Typed, Typed', Core, OnApplicationStateChange
  PROVE  Peered'
<1>1. PICK e : e = Head(events)
  OBVIOUS
<1>2. PICK a : a = e.app
  OBVIOUS
<1>3. /\ e \in Events /\ e = events[1] /\ 1 \in 1 .. Len(events) /\ Len(events) \in Nat
      /\ events' = Tail(events) /\ events # <<>>
      /\ \A i \in 1 .. Len(events') : i + 1 \in 1 .. Len(events) /\ events'[i] = events[i + 1]
  BY <1>1, HeadIsThere DEF OnApplicationStateChange
<1>4. a \in Peers /\ e.state \in States
  BY <1>2, <1>3 DEF Events
<1>5. /\ dev' = dev /\ row' = row /\ view' = view /\ updater' = updater /\ handler.pc = "idle"
      /\ Claimable(e) \/ Claimed(e) \/ NeedUpdate(e)
  BY <1>1 DEF OnApplicationStateChange, world
<1>6. \A p \in Peers : Carries(p)
  BY <1>3, CarriesTail
<1>7. /\ PeerInv(a) /\ events[1].app = a /\ view[a] # None
      /\ apps \in [Peers -> AppStates] /\ checker \in [Peers -> {"idle", "wait", "reset"}]
  BY <1>2, <1>3, <1>4 DEF Core, Peered, PeerInv, Stages, Typed, ManagerTyped
<1>8. /\ Fresh(a) => Fresh(a)'
      /\ Asked(a) => Asked(a)'
      /\ InOrder(a) => InOrder(a)'
      /\ view'[a] # None
      /\ \A i \in 1 .. Len(events') : events'[i].app = a => view'[a] # None
  BY <1>4, <1>5, <1>6, <1>7, StagesMoved
<1>9. \A p \in Peers : ~Works(p) /\ ~Sends(p)
  BY <1>5 DEF Works, Sends
<1>11. ASSUME NEW p \in Peers
       PROVE  /\ Listed(p)' <=> Listed(p)
              /\ Locking(p)' <=> Locking(p)
              /\ Storing(p)' <=> Storing(p)
  <2>1. CASE claimer' = claimer
    BY <2>1 DEF Listed, Locking, Storing
  <2>2. CASE apps[a] = "unknown" /\ claimer' = [claimer EXCEPT !.pc = "snapshot"]
    <3>1. claimer.pc = "idle" /\ claimer'.pc = "snapshot"
      BY <1>4, <2>2 DEF Core, ClaimTask, Typed, ManagerTyped, Claimers
    <3> QED
      BY <3>1 DEF Listed, Locking, Storing
  <2> QED
    BY <1>2, <1>5, <2>1, <2>2 DEF Claimable, Claimed, NeedUpdate
<1>10. CASE handler' = handler
  <2>1. \A p \in Peers : SameTasks(p) /\ ~Works(p)' /\ ~Sends(p)'
    BY <1>5, <1>10, <1>11 DEF SameTasks, Works, Sends
  <2>2. ASSUME NEW s \in AppStates, apps' = [apps EXCEPT ![a] = s], NEW c \in {"idle", "wait"},
               checker' = checker \/ checker' = [checker EXCEPT ![a] = c], PeerInv(a)'
        PROVE  Peered'
    <3>1. \A p \in Peers \ {a} : apps'[p] = apps[p] /\ checker'[p] = checker[p]
      BY <1>7, <2>2
    <3> QED
      BY <1>4, <1>5, <1>6, <2>1, <2>2, <3>1, MovedPeers DEF Core
  <2>3. ASSUME NEW s \in AppStates, apps' = [apps EXCEPT ![a] = s], Stages(a)', ClaimOf(a)', News(a)'
        PROVE  PeerInv(a)'
    <3>1. Storage(a)'
      BY <1>4, <1>5, <1>7, <1>11 DEF PeerInv, Storage
    <3>2. Updated(a)'
      BY <1>5, <1>7 DEF PeerInv, Updated
    <3> QED
      BY <2>3, <3>1, <3>2 DEF PeerInv
  <2>4. /\ ~Works(a)' /\ ~Sends(a)' /\ (Listed(a)' => Listed(a)) /\ (Locking(a)' => Locking(a))
        /\ Storing(a)' => Storing(a)
    BY <1>4, <1>11, <2>1
  <2>5. CASE apps[a] = "unknown" /\ apps' = [apps EXCEPT ![a] = "discovered"] /\ checker' = checker
    <3>1. apps'[a] = "discovered" /\ checker'[a] = checker[a]
      BY <1>4, <1>7, <2>5
    <3>2. Stages(a)'
      BY <1>5, <1>7, <1>8, <2>4, <2>5, <3>1 DEF PeerInv, Stages, Early, Over, Changing
    <3>3. ClaimOf(a)'
      BY <1>7, <2>4, <2>5, <3>1 DEF PeerInv, ClaimOf, Claims
    <3>4. News(a)'
      BY <1>4, <1>5, <1>6, <1>7, <2>4, <2>5, <3>1, NewsMoved DEF PeerInv, Over, Changing
    <3> QED
      BY <2>2, <2>3, <2>5, <3>2, <3>3, <3>4 DEF AppStates
  <2>6. CASE /\ apps[a] = "resetting" /\ e.state = "claimable"
             /\ apps' = [apps EXCEPT ![a] = "done"] /\ checker' = checker
    <3>1. apps'[a] = "done" /\ checker'[a] = checker[a]
      BY <1>4, <1>7, <2>6
    <3>2. ~Asked(a)
      BY <1>3, <1>7, <2>6 DEF Asked
    <3>3. Stages(a)'
      BY <1>5, <1>7, <1>8, <2>4, <2>6, <3>1, <3>2 DEF PeerInv, Stages, Early, Over, Changing
    <3>4. ClaimOf(a)'
      BY <1>7, <2>4, <2>6, <3>1 DEF PeerInv, ClaimOf, Claims
    <3>5. News(a)'
      BY <3>1 DEF News, Over
    <3> QED
      BY <2>2, <2>3, <2>6, <3>3, <3>4, <3>5 DEF AppStates
  <2>7. CASE /\ apps[a] = "claiming" /\ e.state = "claimed"
             /\ apps' = [apps EXCEPT ![a] = "claimed"] /\ checker' = checker
    <3>1. apps'[a] = "claimed" /\ checker'[a] = checker[a]
      BY <1>4, <1>7, <2>7
    <3>2. ~Fresh(a)
      BY <1>3, <1>7, <2>7 DEF Fresh
    <3>3. Stages(a)'
      BY <1>5, <1>7, <1>8, <2>4, <2>7, <3>1 DEF PeerInv, Stages, Early, Over, Changing
    <3>4. ClaimOf(a)'
      BY <1>5, <1>7, <2>4, <2>7, <3>1, <3>2 DEF PeerInv, ClaimOf, Claims
    <3>5. News(a)'
      BY <1>4, <1>5, <1>6, <1>7, <2>4, <2>7, <3>1, NewsMoved DEF PeerInv, Over, Changing
    <3> QED
      BY <2>2, <2>3, <2>7, <3>3, <3>4, <3>5 DEF AppStates
  <2>8. CASE /\ apps[a] = "update_pending" /\ e.sync = "pending"
             /\ apps' = [apps EXCEPT ![a] = "updating"] /\ checker' = checker
    <3>1. apps'[a] = "updating" /\ checker'[a] = checker[a]
      BY <1>4, <1>7, <2>8
    <3>2. Stages(a)'
      BY <1>5, <1>7, <1>8, <2>4, <2>8, <3>1 DEF PeerInv, Stages, Early, Over, Changing
    <3>3. ClaimOf(a)'
      BY <1>7, <2>4, <2>8, <3>1 DEF PeerInv, ClaimOf, Claims
    <3>4. News(a) /\ row[a].mem /\ (view[a].sync = "ok" => dev[a].mem)
      BY <1>3, <1>7, <2>8 DEF PeerInv, News, Over
    <3>5. \A i \in 1 .. Len(events') : events'[i].app = a /\ events'[i].sync = "ok" => dev[a].mem
      <4>1. \A i \in 1 .. Len(events') : 1 \in 1 .. i + 1
        OBVIOUS
      <4> QED
        BY <1>3, <1>7, <2>8, <4>1 DEF PeerInv, News, Over
    <3>6. News(a)'
      BY <1>4, <1>5, <1>6, <2>4, <2>8, <3>1, <3>4, <3>5, NewsMoved DEF Over
    <3> QED
      BY <2>2, <2>3, <2>8, <3>2, <3>3, <3>6 DEF AppStates
  <2>9. CASE /\ apps[a] = "updating" /\ e.sync = "ok"
             /\ apps' = [apps EXCEPT ![a] = "check_update"] /\ checker' = [checker EXCEPT ![a] = "wait"]
    <3>1. apps'[a] = "check_update" /\ checker'[a] = "wait"
      BY <1>4, <1>7, <2>9
    <3>2. Stages(a)'
      BY <1>5, <1>7, <1>8, <2>4, <2>9, <3>1 DEF PeerInv, Stages, Early, Over, Changing
    <3>3. ClaimOf(a)'
      BY <1>7, <2>4, <2>9, <3>1 DEF PeerInv, ClaimOf, Claims
    <3>4. News(a) /\ row[a].mem /\ dev[a].mem
      BY <1>3, <1>7, <2>9 DEF PeerInv, News, Over, Changing
    <3>5. News(a)'
      BY <1>4, <1>5, <1>6, <2>4, <2>9, <3>1, <3>4, NewsMoved DEF Over
    <3> QED
      BY <2>2, <2>3, <2>9, <3>2, <3>3, <3>5 DEF AppStates
  <2>10. CASE apps' = apps /\ checker' = checker
    <3>1. \A p \in Peers : SameData(p)
      BY <1>5, <2>10 DEF SameData
    <3> QED
      BY <1>6, <2>1, <3>1, PeerKept DEF Core, Peered
  <2> QED
    BY <1>2, <1>5, <1>9, <1>10, <2>5, <2>6, <2>7, <2>8, <2>9, <2>10
    DEF Claimable, Claimed, NeedUpdate, Move, AppStates
<1>12. CASE /\ e.state = "need_update" /\ apps[a] \in Claims /\ handler' = [pc |-> "action", app |-> a]
            /\ apps' = apps /\ checker' = checker
  <2>1. Asked(a)
    BY <1>3, <1>7, <1>12 DEF PeerInv, Stages, InOrder, Asked, Claims, Over
  <2>2. Stages(a)'
    BY <1>5, <1>7, <1>8, <1>12, <2>1 DEF PeerInv, Stages, Early, Over, Changing, Claims
  <2>3. ClaimOf(a)'
    BY <1>4, <1>5, <1>7, <1>8, <1>11, <1>12 DEF PeerInv, ClaimOf
  <2>4. Storage(a)' /\ Updated(a)'
    BY <1>4, <1>5, <1>7, <1>11 DEF PeerInv, Storage, Updated
  <2>5. \A p \in Peers : ~Sends(p)'
    BY <1>12 DEF Sends
  <2>6. News(a)'
    BY <1>4, <1>5, <1>6, <1>7, <1>12, <2>5, NewsKept DEF PeerInv
  <2>7. \A p \in Peers \ {a} : ~Works(p)'
    BY <1>12 DEF Works
  <2>8. \A p \in Peers \ {a} : SameTasks(p)
    BY <1>5, <1>11, <2>5, <2>7 DEF SameTasks
  <2>9. PeerInv(a)'
    BY <2>2, <2>3, <2>4, <2>6 DEF PeerInv
  <2> QED
    BY <1>4, <1>5, <1>6, <1>12, <2>8, <2>9, MovedPeers DEF Core
<1> QED
  BY <1>2, <1>5, <1>10, <1>12 DEF Claimable, Claimed, NeedUpdate, Claims

LEMMA LockActionPeers ==
  ASSUME Typed, Typed', Core, LockAction
  PROVE  Peered'
<1>1. /\ dev' = dev /\ row' = row /\ view' = view /\ events' = events /\ updater' = updater
      /\ apps' = apps /\ checker' = checker /\ claimer' = claimer
  BY DEF LockAction, world, agent
<1>2. handler'.pc = "membership" /\ handler'.app = handler.app /\ handler.pc = "action"
  BY DEF LockAction, Typed, ManagerTyped, Handlers
<1>3. \A p \in Peers : SameTasks(p)
  BY <1>1, <1>2 DEF SameTasks, Works, Sends, Listed, Locking, Storing
<1> QED
  BY <1>1, <1>3, Untouched DEF Core

LEMMA PendingUpdater ==
  ASSUME Typed, NEW a \in Peers, NEW s, Pending(a, s), NEW p \in Peers
  PROVE  /\ p # a => updater' = updater \/ (updater.app # p /\ updater'.app # p)
         /\ updater'.app = a => updater.app = a /\ updater'.reset = updater.reset /\ updater'.dirty
<1>1. CASE updater = NoJob
  BY <1>1, NotHere DEF Pending, NoJob
<1>2. CASE updater \in Updates
  <2>1. updater' = [updater EXCEPT !.dirty = updater.dirty \/ updater.app = a]
    BY DEF Pending
  <2>2. /\ updater.dirty \in BOOLEAN /\ updater'.app = updater.app /\ updater'.reset = updater.reset
        /\ updater'.dirty = (updater.dirty \/ updater.app = a)
    BY <1>2, <2>1 DEF Updates
  <2>3. updater'.app = a => updater.app = a /\ updater'.reset = updater.reset /\ updater'.dirty
    BY <2>2
  <2>5. updater.app # a => updater' = updater
    <3>1. updater.app # a => (updater.dirty \/ updater.app = a) = updater.dirty
      BY <2>2
    <3>2. [updater EXCEPT !.dirty = updater.dirty] = updater
      BY <1>2 DEF Updates
    <3> QED
      BY <2>1, <3>1, <3>2
  <2>4. p # a => updater' = updater \/ (updater.app # p /\ updater'.app # p)
    BY <2>2, <2>5
  <2> QED
    BY <2>3, <2>4
<1> QED
  BY <1>1, <1>2 DEF Typed, AgentTyped

\* A change is stored while the handler holds the lock.
LEMMA StorePeers ==
  ASSUME Typed, Typed', Core, NEW a \in Peers, Works(a), handler.pc \in {"membership", "policy"},
         NEW r \in Stored, row' = [row EXCEPT ![a] = r], r.sync = "pending", r.mem, Pending(a, "pending"),
         dev' = dev, apps' = apps, checker' = checker, claimer' = claimer,
         handler'.pc \in {"policy", "pending"}, handler'.app = a
  PROVE  Peered'
<1>1. /\ PeerInv(a) /\ row'[a] = r
      /\ \A i \in 1 .. Len(events) : events[i].app = a => view[a] # None
  BY DEF Core, Peered, PeerInv, Stages, Typed, OutsideTyped
<1>2. apps[a] \in Claims /\ Asked(a) /\ InOrder(a) /\ row[a].sync # "will_reset" /\ checker[a] = "idle"
  BY <1>1 DEF PeerInv, Stages, Claims, Over, Typed, ManagerTyped
<1>3. Tell(a, "pending") /\ "pending" \in Told
  BY DEF Pending, Told
<1>4. Asked(a)'
  BY <1>1, <1>2, <1>3, TellStages
<1>5. InOrder(a)'
  BY <1>1, <1>2, <1>3, TellStages
<1>6. /\ view'[a] # None
      /\ \A i \in 1 .. Len(events') : events'[i].app = a => view'[a] # None
  BY <1>1, <1>2, <1>3, TellStages DEF Asked
<1>7. Stages(a)'
  BY <1>1, <1>2, <1>4, <1>5, <1>6 DEF PeerInv, Stages, Claims, Over, Early, Changing, Works
<1>8. ClaimOf(a)'
  <2>1. ~Locking(a)' /\ ~Storing(a)' /\ (Listed(a)' => Listed(a))
    <3>1. ~Locking(a)
      BY <1>1, <1>2 DEF PeerInv, ClaimOf, Fresh, Asked
    <3>2. ~Storing(a)
      BY DEF Core, Locks, Storing
    <3> QED
      BY <3>1, <3>2, SameThreads DEF Locking, Storing, Listed
  <2> QED
    BY <1>1, <2>1 DEF PeerInv, ClaimOf
<1>9. Storage(a)'
  BY <1>1 DEF Storage
<1>10. Updated(a)'
  <2>1. updater'.app = a => updater.app = a /\ updater'.reset = updater.reset /\ updater'.dirty
    BY PendingUpdater
  <2> QED
    BY <1>1, <1>2, <2>1 DEF PeerInv, Updated
<1>11. News(a)'
  BY <1>1, <1>3, TellNews DEF PeerInv
<1>12. ASSUME NEW p \in Peers, p # a PROVE PeerInv(p)'
  <2>1. Carries(p) /\ view'[p] = view[p]
    BY <1>3, <1>12, TellOthers
  <2>2. row'[p] = row[p]
    BY <1>12 DEF Typed, OutsideTyped
  <2>3. updater' = updater \/ (updater.app # p /\ updater'.app # p)
    BY <1>12, PendingUpdater
  <2>4. SameData(p) /\ SameTasks(p)
    BY <1>12, <2>1, <2>2, <2>3 DEF SameData, SameTasks, Works, Sends, Listed, Locking, Storing
  <2> QED
    BY <2>1, <2>4, PeerKept DEF Core, Peered
<1> QED
  BY <1>7, <1>8, <1>9, <1>10, <1>11, <1>12 DEF Peered, PeerInv

\* An application that asks for an update is stored: the handler has waited for the claim.
LEMMA WorksIsStored ==
  ASSUME Typed, Core, handler.pc \in {"membership", "policy", "pending"}
  PROVE  handler.app \in Peers /\ Works(handler.app) /\ row[handler.app].sync # "none"
<1>1. handler.app \in Peers /\ Works(handler.app)
  BY DEF Core, Locks, Works
<1>2. PeerInv(handler.app)
  BY <1>1 DEF Core, Peered
<1>3. dev[handler.app].state # "claimable"
  BY <1>1, <1>2 DEF PeerInv, Stages, Asked
<1>4. ~Storing(handler.app)
  BY DEF Core, Locks, Storing
<1> QED
  BY <1>1, <1>2, <1>3, <1>4 DEF PeerInv, Storage

LEMMA InstallMembershipPeers ==
  ASSUME Typed, Typed', Core, InstallMembership, ~callFailed'
  PROVE  Peered'
<1>1. PICK a : a = handler.app
  OBVIOUS
<1>2. handler.pc = "membership" /\ a \in Peers /\ Works(a) /\ row[a].sync # "none"
  BY <1>1, WorksIsStored DEF InstallMembership
<1>3. PICK r : r = [row[a] EXCEPT !.mem = TRUE, !.sync = "pending"]
  OBVIOUS
<1>4. r \in Stored /\ r.sync = "pending" /\ r.mem
  BY <1>2, <1>3 DEF Typed, OutsideTyped, Stored, Syncs
<1>5. StoreMembership(a) /\ handler' = [handler EXCEPT !.pc = "policy"]
  BY <1>1 DEF InstallMembership, CallFails
<1>6. row' = [row EXCEPT ![a] = r] /\ Pending(a, "pending")
  BY <1>3, <1>5 DEF StoreMembership
<1>7. handler'.pc = "policy" /\ handler'.app = a
  BY <1>1, <1>5 DEF Typed, ManagerTyped, Handlers
<1>8. dev' = dev /\ apps' = apps /\ checker' = checker /\ claimer' = claimer
  BY DEF InstallMembership, world
<1> QED
  BY <1>2, <1>4, <1>6, <1>7, <1>8, StorePeers

LEMMA InstallPolicyPeers ==
  ASSUME Typed, Typed', Core, InstallPolicy, ~callFailed'
  PROVE  Peered'
<1>1. PICK a : a = handler.app
  OBVIOUS
<1>2. handler.pc = "policy" /\ a \in Peers /\ Works(a) /\ row[a].sync # "none"
  BY <1>1, WorksIsStored DEF InstallPolicy
<1>3. PICK r : r = [row[a] EXCEPT !.pol = TRUE, !.sync = "pending"]
  OBVIOUS
<1>4. row[a].mem
  <2>1. PeerInv(a) /\ Sends(a) /\ apps[a] \in Claims
    BY <1>1, <1>2 DEF Core, Peered, PeerInv, Stages, Sends
  <2> QED
    BY <2>1 DEF PeerInv, News, Claims, Over
<1>5. r \in Stored /\ r.sync = "pending" /\ r.mem
  BY <1>2, <1>3, <1>4 DEF Typed, OutsideTyped, Stored, Syncs
<1>6. UpdatePolicy(a) /\ handler' = [handler EXCEPT !.pc = "pending"]
  BY <1>1 DEF InstallPolicy, CallFails
<1>7. row' = [row EXCEPT ![a] = r] /\ Pending(a, "pending")
  BY <1>3, <1>6 DEF UpdatePolicy
<1>8. handler'.pc = "pending" /\ handler'.app = a
  BY <1>1, <1>6 DEF Typed, ManagerTyped, Handlers
<1>9. dev' = dev /\ apps' = apps /\ checker' = checker /\ claimer' = claimer
  BY DEF InstallPolicy, world
<1> QED
  BY <1>2, <1>5, <1>7, <1>8, <1>9, StorePeers

LEMMA UpdatePendingPeers ==
  ASSUME Typed, Typed', Core, UpdatePending
  PROVE  Peered'
<1>1. PICK a : a = handler.app
  OBVIOUS
<1>2. a \in Peers /\ Works(a) /\ Sends(a)
  BY <1>1, WorksIsStored DEF UpdatePending, Sends
<1>3. /\ dev' = dev /\ row' = row /\ view' = view /\ updater' = updater /\ events' = events
      /\ apps' = [apps EXCEPT ![a] = "update_pending"] /\ checker' = checker /\ claimer' = claimer
      /\ handler' = [pc |-> "idle", app |-> Nobody]
  BY <1>1 DEF UpdatePending, Move, world, agent
<1>4. /\ PeerInv(a) /\ apps'[a] = "update_pending" /\ Carries(a)
      /\ \A p \in Peers \ {a} : Carries(p) /\ apps'[p] = apps[p]
  BY <1>2, <1>3, CarriesAll DEF Core, Peered, Typed, ManagerTyped
<1>5. \A p \in Peers : ~Works(p)' /\ ~Sends(p)'
  BY <1>3 DEF Works, Sends
<1>6. ASSUME NEW p \in Peers
      PROVE  /\ Listed(p)' <=> Listed(p)
             /\ Locking(p)' <=> Locking(p)
             /\ Storing(p)' <=> Storing(p)
  BY <1>3 DEF Listed, Locking, Storing
<1>7. apps[a] \in Claims /\ Asked(a) /\ row[a].mem /\ InOrder(a) /\ row[a].sync # "will_reset" /\ checker[a] = "idle"
  BY <1>2, <1>4 DEF PeerInv, Stages, News, Claims, Over, Typed, ManagerTyped
<1>8. /\ Asked(a)' /\ InOrder(a)' /\ view'[a] # None
      /\ \A i \in 1 .. Len(events') : events'[i].app = a => view'[a] # None
  BY <1>2, <1>3, <1>4, <1>7, StagesMoved DEF Asked
<1>9. Stages(a)'
  BY <1>2, <1>3, <1>4, <1>5, <1>7, <1>8 DEF Stages, Over, Early, Changing, Claims
<1>10. ClaimOf(a)'
  <2>1. ~Locking(a) /\ ~Storing(a) /\ ~Listed(a)
    <3>1. ~Locking(a)
      BY <1>4, <1>7 DEF PeerInv, ClaimOf, Fresh, Asked
    <3>2. ~Storing(a)
      BY DEF Core, Locks, Storing, UpdatePending
    <3>3. ~Listed(a)
      BY <1>4, <1>7 DEF PeerInv, ClaimOf, Claims
    <3> QED
      BY <3>1, <3>2, <3>3
  <2> QED
    BY <1>2, <1>6, <2>1 DEF ClaimOf
<1>11. Storage(a)' /\ Updated(a)'
  BY <1>2, <1>3, <1>4, <1>6 DEF PeerInv, Storage, Updated
<1>12. News(a)'
  BY <1>2, <1>3, <1>4, <1>7, NewsMoved DEF PeerInv, Claims, Over
<1>13. \A p \in Peers \ {a} : SameTasks(p)
  BY <1>3, <1>5, <1>6 DEF SameTasks
<1>14. PeerInv(a)'
  BY <1>9, <1>10, <1>11, <1>12 DEF PeerInv
<1> QED
  BY <1>2, <1>3, <1>4, <1>13, <1>14, MovedPeers DEF Core

LEMMA SnapshotPeers ==
  ASSUME Typed, Typed', Core, Snapshot
  PROVE  Peered'
<1>1. /\ dev' = dev /\ row' = row /\ view' = view /\ events' = events /\ updater' = updater
      /\ apps' = apps /\ checker' = checker /\ handler' = handler
  BY DEF Snapshot, world, agent
<1>2. claimer.pc = "snapshot" /\ claimer'.pc = "mark" /\ \A p \in Peers : apps[p] = "discovered"
  BY DEF Snapshot, Core, ClaimTask
<1>3. \A p \in Peers : SameTasks(p)
  BY <1>1, <1>2 DEF SameTasks, Works, Sends, Listed, Locking, Storing
<1> QED
  BY <1>1, <1>3, Untouched DEF Core

LEMMA MarkPeers ==
  ASSUME Typed, Typed', Core, NEW a \in Peers, Mark(a)
  PROVE  Peered'
<1>1. /\ dev' = dev /\ row' = row /\ view' = view /\ updater' = updater /\ events' = events
      /\ apps' = [apps EXCEPT ![a] = "claiming"] /\ checker' = checker /\ handler' = handler
  BY DEF Mark, Move, world, agent
<1>2. claimer.pc = "mark" /\ a \in claimer.todo /\ claimer' = [pc |-> "lock", app |-> a, todo |-> claimer.todo \ {a}]
  BY DEF Mark
<1>3. /\ PeerInv(a) /\ apps'[a] = "claiming" /\ Carries(a)
      /\ \A p \in Peers \ {a} : Carries(p) /\ apps'[p] = apps[p]
  BY <1>1, CarriesAll DEF Core, Peered, Typed, ManagerTyped
<1>4. apps[a] = "discovered"
  BY <1>2, <1>3 DEF PeerInv, ClaimOf, Listed
<1>5. ~Works(a) /\ Fresh(a) /\ InOrder(a) /\ row[a].sync # "will_reset" /\ checker[a] = "idle" /\ view[a] # None
  BY <1>3, <1>4 DEF PeerInv, Stages, Early, Over, Claims, Typed, ManagerTyped
<1>6. ~Works(a)' /\ ~Sends(a)'
  BY <1>1, <1>5 DEF Works, Sends
<1>7. Fresh(a)'
  BY <1>1, <1>3, <1>5, StagesMoved
<1>8. /\ InOrder(a)' /\ view'[a] # None
      /\ \A i \in 1 .. Len(events') : events'[i].app = a => view'[a] # None
  BY <1>1, <1>3, <1>5, StagesMoved
<1>9. Stages(a)'
  BY <1>1, <1>3, <1>5, <1>6, <1>8 DEF Stages, Over, Early, Changing
<1>10. ClaimOf(a)'
  BY <1>2, <1>3, <1>7 DEF ClaimOf, Listed, Storing
<1>11. Storage(a)' /\ Updated(a)'
  BY <1>1, <1>3, <1>5 DEF PeerInv, Storage, Updated, Fresh
<1>12. News(a)'
  BY <1>1, <1>3, <1>4, <1>6, NewsMoved DEF PeerInv, Changing, Over
<1>13. \A p \in Peers \ {a} : SameTasks(p)
  BY <1>1, <1>2 DEF SameTasks, Works, Sends, Listed, Locking, Storing
<1>14. PeerInv(a)'
  BY <1>9, <1>10, <1>11, <1>12 DEF PeerInv
<1> QED
  BY <1>1, <1>3, <1>13, <1>14, MovedPeers DEF Core

LEMMA LockClaimPeers ==
  ASSUME Typed, Typed', Core, LockClaim
  PROVE  Peered'
<1>1. /\ dev' = dev /\ row' = row /\ view' = view /\ events' = events /\ updater' = updater
      /\ apps' = apps /\ checker' = checker /\ handler' = handler
  BY DEF LockClaim, world, agent
<1>2. /\ claimer.pc = "lock" /\ claimer'.pc = "claim" /\ claimer'.app = claimer.app
      /\ claimer'.todo = claimer.todo
  BY DEF LockClaim, Typed, ManagerTyped, Claimers
<1>3. \A p \in Peers : SameTasks(p)
  BY <1>1, <1>2 DEF SameTasks, Works, Sends, Listed, Locking, Storing
<1> QED
  BY <1>1, <1>3, Untouched DEF Core

\* The application that is about to be claimed.
LEMMA ClaimIsFresh ==
  ASSUME Core, claimer.pc \in {"lock", "claim"}
  PROVE  /\ claimer.app \in Peers /\ Locking(claimer.app) /\ apps[claimer.app] = "claiming"
         /\ Fresh(claimer.app) /\ ~Listed(claimer.app)
<1>1. claimer.app \in Peers /\ Locking(claimer.app)
  BY DEF Core, ClaimTask, Locking
<1> QED
  BY <1>1 DEF Core, Peered, PeerInv, ClaimOf

LEMMA ClaimPeers ==
  ASSUME Typed, Typed', Core, Claim
  PROVE  Peered'
<1>1. PICK a : a = claimer.app
  OBVIOUS
<1>2. a \in Peers /\ Locking(a) /\ apps[a] = "claiming" /\ Fresh(a) /\ ~Listed(a) /\ claimer.pc = "claim"
  BY <1>1, ClaimIsFresh DEF Claim
<1>3. /\ row' = row /\ view' = view /\ events' = events /\ updater' = updater
      /\ apps' = apps /\ checker' = checker /\ handler' = handler
  BY DEF Claim, agent
<1>4. CASE claimer' = [claimer EXCEPT !.pc = "idle"] /\ dev' = dev
  <2>1. claimer'.pc = "idle"
    BY <1>4 DEF Typed, ManagerTyped, Claimers
  <2>2. \A p \in Peers : SameTasks(p)
    BY <1>2, <1>3, <2>1 DEF SameTasks, Works, Sends, Listed, Locking, Storing
  <2> QED
    BY <1>3, <1>4, <2>2, Untouched DEF Core
<1>5. CASE RemoteClaim(a) /\ claimer' = [claimer EXCEPT !.pc = "store"]
  <2>1. claimer'.pc = "store" /\ claimer'.app = a /\ claimer'.todo = claimer.todo
    BY <1>1, <1>5 DEF Typed, ManagerTyped, Claimers
  <2>2. PeerInv(a)
    BY <1>2 DEF Core, Peered
  <2>3. /\ dev'[a].state = "claimed" /\ dev'[a].mem = dev[a].mem
        /\ \A p \in Peers \ {a} : dev'[p] = dev[p]
    BY <1>2, <1>5 DEF RemoteClaim, Typed, OutsideTyped, Devs
  <2>4. ~Works(a)' /\ ~Sends(a)' /\ ~Asked(a)
    BY <1>2, <1>3, <2>2 DEF Works, Sends, PeerInv, Stages, Fresh, Asked
  <2>5. Stages(a)'
    <3>1. InOrder(a)'
      BY <1>2, <1>3, <2>3 DEF Fresh, InOrder
    <3> QED
      BY <1>2, <1>3, <2>2, <2>4, <3>1 DEF PeerInv, Stages, Over, Early, Changing
  <2>6. ClaimOf(a)'
    BY <1>2, <1>3, <2>1 DEF ClaimOf, Listed, Locking, Storing, Claims, Fresh
  <2>7. Storage(a)'
    BY <1>3, <2>1, <2>2, <2>3 DEF PeerInv, Storage, Storing
  <2>8. Updated(a)'
    BY <1>2, <1>3, <2>2 DEF PeerInv, Updated, Fresh
  <2>9. News(a)'
    BY <1>2, <1>3, <2>2, <2>3, <2>4, NewsKept, CarriesAll DEF PeerInv
  <2>10. ASSUME NEW p \in Peers, p # a PROVE PeerInv(p)'
    <3>1. Carries(p) /\ SameData(p)
      BY <1>3, <2>3, <2>10, CarriesAll DEF SameData
    <3>2. SameTasks(p)
      BY <1>2, <1>3, <2>1, <2>10 DEF SameTasks, Works, Sends, Listed, Locking, Storing
    <3> QED
      BY <3>1, <3>2, PeerKept DEF Core, Peered
  <2> QED
    BY <2>5, <2>6, <2>7, <2>8, <2>9, <2>10 DEF Peered, PeerInv
<1> QED
  BY <1>1, <1>4, <1>5 DEF Claim

LEMMA ApplicationClaimedPeers ==
  ASSUME Typed, Typed', Core, ApplicationClaimed
  PROVE  Peered'
<1>1. PICK a : a = claimer.app
  OBVIOUS
<1>2. a \in Peers /\ Storing(a) /\ claimer.pc = "store"
  BY <1>1 DEF ApplicationClaimed, Core, ClaimTask, Storing
<1>3. PeerInv(a) /\ apps[a] \in Claims /\ row[a].sync = "none" /\ InOrder(a) /\ checker[a] = "idle"
  BY <1>2 DEF Core, Peered, PeerInv, ClaimOf, Stages, Claims, Over, Typed, ManagerTyped
<1>4. /\ dev' = dev /\ updater' = updater /\ apps' = apps /\ checker' = checker /\ handler' = handler
      /\ Tell(a, "ok") /\ row' = [row EXCEPT ![a].sync = "ok"]
  BY <1>1 DEF ApplicationClaimed, StoreClaim, world
<1>5. claimer'.pc \in {"idle", "mark"} /\ claimer'.todo = claimer.todo
  BY DEF ApplicationClaimed, Typed, ManagerTyped, Claimers, counts
<1>6. /\ row'[a].sync = "ok" /\ row'[a].mem = row[a].mem
      /\ \A p \in Peers \ {a} : row'[p] = row[p]
  BY <1>2, <1>4 DEF Typed, OutsideTyped, Stored
<1>7. "ok" \in Told /\ \A i \in 1 .. Len(events) : events[i].app = a => view[a] # None
  BY <1>3 DEF Told, PeerInv, Stages
<1>8. Asked(a) => Asked(a)'
  BY <1>2, <1>4, <1>7, TellStages
<1>9. InOrder(a)'
  BY <1>2, <1>3, <1>4, <1>7, TellStages
<1>10. /\ view[a] # None => view'[a] # None
       /\ \A i \in 1 .. Len(events') : events'[i].app = a => view'[a] # None
  BY <1>2, <1>4, <1>7, TellStages
<1>11. Stages(a)'
  BY <1>3, <1>4, <1>6, <1>8, <1>9, <1>10 DEF PeerInv, Stages, Claims, Over, Early, Changing, Works
<1>12. ClaimOf(a)'
  BY <1>2, <1>3, <1>5 DEF PeerInv, ClaimOf, Listed, Locking, Storing, Claims
<1>13. Storage(a)'
  BY <1>3, <1>4, <1>6 DEF PeerInv, Storage
<1>14. Updated(a)'
  BY <1>3, <1>4 DEF PeerInv, Updated
<1>15. News(a)'
  <2>1. ~row'[a].mem
    BY <1>3, <1>6 DEF PeerInv, Storage
  <2>2. ~Sends(a)'
    BY <1>3, <1>4, <1>6, <2>1 DEF PeerInv, News, Sends, Claims, Over
  <2> QED
    BY <1>2, <1>3, <1>4, <1>6, <1>7, <2>1, <2>2, TellNews DEF PeerInv
<1>16. ASSUME NEW p \in Peers, p # a PROVE PeerInv(p)'
  <2>1. Carries(p) /\ view'[p] = view[p]
    BY <1>2, <1>4, <1>7, <1>16, TellOthers
  <2>2. SameData(p)
    BY <1>4, <1>6, <1>16, <2>1 DEF SameData
  <2>3. SameTasks(p)
    BY <1>1, <1>2, <1>4, <1>5, <1>16 DEF SameTasks, Works, Sends, Listed, Locking, Storing
  <2> QED
    BY <2>1, <2>2, <2>3, PeerKept DEF Core, Peered
<1> QED
  BY <1>11, <1>12, <1>13, <1>14, <1>15, <1>16 DEF Peered, PeerInv

LEMMA CheckPeers ==
  ASSUME Typed, Typed', Core, NEW a \in Peers, Check(a)
  PROVE  Peered'
<1>1. /\ dev' = dev /\ row' = row /\ view' = view /\ events' = events /\ updater' = updater
      /\ apps' = apps /\ handler' = handler /\ claimer' = claimer
  BY DEF Check, world, agent
<1>2. checker[a] = "wait" /\ \A p \in Peers \ {a} : checker'[p] = checker[p]
  BY DEF Check, Typed, ManagerTyped
<1>3. PeerInv(a) /\ apps[a] = "check_update"
  BY <1>2 DEF Core, Peered, PeerInv, Stages
<1>4. \A p \in Peers : SameTasks(p) /\ Carries(p)
  BY <1>1, SameThreads, CarriesAll DEF SameTasks
<1>5. Stages(a)'
  <2>1. /\ Asked(a) => Asked(a)'
        /\ InOrder(a) => InOrder(a)'
        /\ view[a] # None => view'[a] # None
        /\ \A i \in 1 .. Len(events') : events'[i].app = a => view'[a] # None
    BY <1>1, <1>3, <1>4, StagesMoved
  <2> QED
    BY <1>1, <1>3, <2>1, SameThreads DEF PeerInv, Stages, Early, Over
<1>6. ClaimOf(a)'
  BY <1>1, <1>3, SameThreads DEF PeerInv, ClaimOf, Claims
<1>7. Storage(a)' /\ Updated(a)'
  BY <1>1, <1>3, SameThreads DEF PeerInv, Storage, Updated
<1>8. News(a)'
  <2>1. Sends(a)' => row'[a].mem
    BY <1>1, <1>3, SameThreads DEF PeerInv, News, Over
  <2> QED
    BY <1>1, <1>3, <1>4, <2>1, NewsKept DEF PeerInv
<1>9. PeerInv(a)'
  BY <1>5, <1>6, <1>7, <1>8 DEF PeerInv
<1> QED
  BY <1>1, <1>2, <1>4, <1>9, MovedPeers DEF Core

LEMMA ResetPeers ==
  ASSUME Typed, Typed', Core, NEW a \in Peers, Reset(a), ~callFailed'
  PROVE  Peered'
<1>1. /\ dev' = dev /\ handler' = handler /\ claimer' = claimer
      /\ apps' = [apps EXCEPT ![a] = "resetting"] /\ checker' = [checker EXCEPT ![a] = "idle"]
      /\ row' = [row EXCEPT ![a].sync = "will_reset"] /\ Pending(a, "will_reset")
  BY DEF Reset, CallFails, Move, world
<1>2. checker[a] = "reset" /\ PeerInv(a)
  BY DEF Reset, Core, Peered
<1>3. apps[a] = "check_update"
  BY <1>2 DEF PeerInv, Stages
<1>4. Asked(a) /\ ~Works(a) /\ row[a].sync # "will_reset"
  BY <1>2, <1>3 DEF PeerInv, Stages, Changing, Claims, Over
<1>5. /\ apps'[a] = "resetting" /\ checker'[a] = "idle"
      /\ row'[a].sync = "will_reset" /\ row'[a].mem = row[a].mem
      /\ \A p \in Peers \ {a} : apps'[p] = apps[p] /\ checker'[p] = checker[p] /\ row'[p] = row[p]
  BY <1>1 DEF Typed, OutsideTyped, ManagerTyped, Stored
<1>6. Tell(a, "will_reset") /\ "will_reset" \in Told
  BY <1>1 DEF Pending, Told
<1>7. \A i \in 1 .. Len(events) : events[i].app = a => view[a] # None
  BY <1>2 DEF PeerInv, Stages
<1>8. Asked(a)'
  BY <1>1, <1>4, <1>6, <1>7, TellStages
<1>9. view'[a] # None /\ \A i \in 1 .. Len(events') : events'[i].app = a => view'[a] # None
  BY <1>8 DEF Asked
<1>10. ~Works(a)' /\ ~Sends(a)'
  BY <1>1, <1>4 DEF Works, Sends
<1>11. Stages(a)'
  BY <1>5, <1>8, <1>9, <1>10 DEF Stages, Early, Over, Changing
<1>12. ClaimOf(a)'
  BY <1>1, <1>2, <1>3, SameThreads DEF PeerInv, ClaimOf, Claims
<1>13. Storage(a)'
  BY <1>1, <1>2, <1>5 DEF PeerInv, Storage
<1>14. Updated(a)'
  <2>1. updater'.app = a => updater.app = a /\ updater'.reset = updater.reset /\ updater'.dirty
    BY <1>1, PendingUpdater
  <2> QED
    BY <1>2, <1>4, <1>5, <2>1 DEF PeerInv, Updated
<1>15. News(a)'
  BY <1>5 DEF News, Over
<1>16. ASSUME NEW p \in Peers, p # a PROVE PeerInv(p)'
  <2>1. Carries(p) /\ view'[p] = view[p]
    BY <1>6, <1>16, TellOthers
  <2>2. updater' = updater \/ (updater.app # p /\ updater'.app # p)
    BY <1>1, <1>16, PendingUpdater
  <2>3. SameData(p) /\ SameTasks(p)
    BY <1>1, <1>5, <1>16, <2>1, <2>2, SameThreads DEF SameData, SameTasks
  <2> QED
    BY <2>1, <2>3, PeerKept DEF Core, Peered
<1> QED
  BY <1>11, <1>12, <1>13, <1>14, <1>15, <1>16 DEF Peered, PeerInv

------------------------------------------------------------------------------
(* The numbers of peers that were found and that are done *)

Found == {p \in Peers : apps[p] # "unknown"}
Done == {p \in Peers : apps[p] = "done"}

LEMMA AllOfThem ==
  ASSUME NEW S, S \subseteq Peers, Cardinality(S) >= Cardinality(Peers)
  PROVE  S = Peers
<1>1. IsFiniteSet(Peers) /\ IsFiniteSet(S)
  BY MultiPeerAssumption, FS_Subset
<1>2. Cardinality(S) \in Nat /\ Cardinality(Peers) \in Nat
  BY <1>1, FS_CardinalityType
<1>3. Cardinality(S) <= Cardinality(Peers) /\ (Cardinality(S) = Cardinality(Peers) => S = Peers)
  BY <1>1, FS_Subset
<1> QED
  BY <1>2, <1>3

LEMMA OneMore ==
  ASSUME NEW S, S \subseteq Peers, NEW a \in Peers, a \notin S
  PROVE  Cardinality(S \cup {a}) = Cardinality(S) + 1
<1>1. IsFiniteSet(S)
  BY MultiPeerAssumption, FS_Subset
<1> QED
  BY <1>1, FS_AddElement

LEMMA CountedKept ==
  ASSUME Typed, Typed', Counted, NEW a \in Peers, NEW s \in AppStates,
         apps' = [apps EXCEPT ![a] = s], UNCHANGED counts,
         apps[a] \notin {"unknown", "done"}, s \notin {"unknown", "done"}
  PROVE  Counted'
<1>1. \A p \in Peers : apps'[p] = IF p = a THEN s ELSE apps[p]
  BY DEF Typed, ManagerTyped
<1>2. Found' = Found
  BY <1>1 DEF Found
<1>3. Done' = Done
  BY <1>1 DEF Done
<1> QED
  BY <1>2, <1>3 DEF Counted, Found, Done, counts

LEMMA CallbackCounted ==
  ASSUME Typed, Typed', Counted, OnApplicationStateChange
  PROVE  Counted'
<1>1. PICK e : e = Head(events)
  OBVIOUS
<1>2. e.app \in Peers
  BY <1>1, HeadIsThere DEF Events
<1>3. PICK a \in Peers : a = e.app
  BY <1>2
<1>4. apps \in [Peers -> AppStates]
  BY DEF Typed, ManagerTyped
<1>5. CASE apps[a] = "unknown" /\ apps' = [apps EXCEPT ![a] = "discovered"]
           /\ peersFound' = peersFound + 1 /\ UNCHANGED peersReady
  <2>1. Found' = Found \cup {a} /\ a \notin Found /\ Done' = Done
    BY <1>4, <1>5 DEF Found, Done
  <2>2. Cardinality(Found \cup {a}) = Cardinality(Found) + 1
    BY <2>1, OneMore DEF Found
  <2> QED
    BY <1>5, <2>1, <2>2 DEF Counted, Found, Done
<1>6. CASE apps[a] = "resetting" /\ apps' = [apps EXCEPT ![a] = "done"]
           /\ peersReady' = peersReady + 1 /\ UNCHANGED peersFound
  <2>1. Done' = Done \cup {a} /\ a \notin Done /\ Found' = Found
    BY <1>4, <1>6 DEF Found, Done
  <2>2. Cardinality(Done \cup {a}) = Cardinality(Done) + 1
    BY <2>1, OneMore DEF Done
  <2> QED
    BY <1>6, <2>1, <2>2 DEF Counted, Found, Done
<1>7. CASE \E s \in AppStates \ {"unknown", "done"} :
             apps[a] \notin {"unknown", "done"} /\ apps' = [apps EXCEPT ![a] = s] /\ UNCHANGED counts
  BY <1>7, CountedKept
<1>8. CASE apps' = apps /\ UNCHANGED counts
  BY <1>8 DEF Counted, counts
<1>9. Claimable(e) \/ Claimed(e) \/ NeedUpdate(e)
  BY <1>1 DEF OnApplicationStateChange
<1> QED
  BY <1>3, <1>5, <1>6, <1>7, <1>8, <1>9 DEF Claimable, Claimed, NeedUpdate, Move, counts, AppStates

------------------------------------------------------------------------------
(* The claims start once *)

LEMMA ClaimTaskKept ==
  ASSUME Core, apps' = apps, claimer' = claimer
  PROVE  ClaimTask'
BY DEF Core, ClaimTask

LEMMA CallbackClaimTask ==
  ASSUME Typed, Typed', Counted, Core, OnApplicationStateChange
  PROVE  ClaimTask'
<1>1. PICK e : e = Head(events)
  OBVIOUS
<1>2. e.app \in Peers
  BY <1>1, HeadIsThere DEF Events
<1>3. PICK a \in Peers : a = e.app
  BY <1>2
<1>4. apps \in [Peers -> AppStates] /\ ClaimTask
  BY DEF Typed, ManagerTyped, Core
<1>5. CASE apps[a] = "unknown" /\ apps' = [apps EXCEPT ![a] = "discovered"] /\ claimer' = claimer
  BY <1>4, <1>5 DEF ClaimTask, Early
<1>6. CASE apps[a] = "unknown" /\ apps' = [apps EXCEPT ![a] = "discovered"]
           /\ peersFound' >= Cardinality(Peers) /\ claimer' = [claimer EXCEPT !.pc = "snapshot"]
  <2>1. Found' = Peers
    <3>1. peersFound' = Cardinality(Found')
      BY CallbackCounted DEF Counted, Found
    <3>2. Found' \subseteq Peers
      BY DEF Found
    <3> QED
      BY <1>6, <3>1, <3>2, AllOfThem
  <2>2. \A p \in Peers : apps'[p] # "unknown"
    BY <2>1 DEF Found
  <2>3. \A p \in Peers : apps'[p] = "discovered"
    BY <1>4, <1>6, <2>2 DEF ClaimTask, Early
  <2>4. claimer'.pc = "snapshot"
    BY <1>6 DEF Typed, ManagerTyped, Claimers
  <2> QED
    BY <2>3, <2>4 DEF ClaimTask
<1>7. CASE claimer' = claimer /\ \E s \in AppStates \ {"unknown"} :
             apps[a] \notin Early /\ apps' = [apps EXCEPT ![a] = s]
  <2>1. ~\E p \in Peers : apps'[p] = "unknown"
    BY <1>4, <1>7 DEF ClaimTask
  <2>2. claimer.pc # "snapshot"
    BY <1>4, <1>7 DEF ClaimTask, Early
  <2> QED
    BY <1>4, <1>7, <2>1, <2>2 DEF ClaimTask
<1>8. CASE apps' = apps /\ claimer' = claimer
  BY <1>8, ClaimTaskKept
<1>9. Claimable(e) \/ Claimed(e) \/ NeedUpdate(e)
  BY <1>1 DEF OnApplicationStateChange
<1>10. CASE Claimable(e)
  BY <1>3, <1>5, <1>6, <1>7, <1>8, <1>10 DEF Claimable, Move, AppStates, Early
<1>11. CASE Claimed(e) \/ NeedUpdate(e)
  BY <1>3, <1>7, <1>8, <1>11 DEF Claimed, NeedUpdate, Move, AppStates, Early
<1> QED
  BY <1>9, <1>10, <1>11

\* A manager that is up takes one of its steps.
MngrStep ==
  \/ \E p \in Peers : HearState(p) \/ Check(p) \/ Reset(p) \/ Mark(p)
  \/ StartUpdates \/ UpdatesCompleted
  \/ OnApplicationStateChange \/ LockAction \/ InstallMembership \/ InstallPolicy \/ UpdatePending
  \/ Snapshot \/ LockClaim \/ Claim \/ ApplicationClaimed
  \/ LocalBus \/ Poll

LEMMA MngrSteps == Mngr <=> MngrStep \/ Succeed \/ Fail
BY DEF Mngr, MngrStep, Updater, Handler, Claimer

\* A stage that the claims have passed is never passed again.
LEMMA MovedClaimTask ==
  ASSUME Typed, Core, NEW a \in Peers, NEW s \in AppStates \ {"unknown"}, apps' = [apps EXCEPT ![a] = s],
         apps[a] \notin Early, claimer' = claimer
  PROVE  ClaimTask'
<1>1. apps \in [Peers -> AppStates] /\ ClaimTask
  BY DEF Typed, ManagerTyped, Core
<1>2. ~\E p \in Peers : apps'[p] = "unknown"
  BY <1>1 DEF ClaimTask
<1>3. claimer.pc # "snapshot"
  BY <1>1 DEF ClaimTask, Early
<1> QED
  BY <1>1, <1>2, <1>3 DEF ClaimTask

LEMMA StepTyped ==
  ASSUME Typed, Workers, MngrStep
  PROVE  Typed'
<1>1. ASSUME NEW p \in Peers, HearState(p) \/ Check(p) \/ Reset(p) \/ Mark(p) PROVE Typed'
  BY <1>1, HearStateTyped, CheckTyped, ResetTyped, MarkTyped
<1>2. InstallMembership \/ InstallPolicy => handler.app \in Peers
  BY DEF InstallMembership, InstallPolicy, Workers
<1>3. Claim \/ ApplicationClaimed => claimer.app \in Peers
  BY DEF Claim, ApplicationClaimed, Workers
<1> QED
  BY <1>1, <1>2, <1>3, StartUpdatesTyped, UpdatesCompletedTyped, CallbackTyped, LockActionTyped,
     InstallMembershipTyped, InstallPolicyTyped, UpdatePendingTyped, SnapshotTyped, LockClaimTyped, ClaimTyped,
     ApplicationClaimedTyped, LocalBusTyped, PollTyped
  DEF MngrStep

LEMMA StepWorkers ==
  ASSUME Typed, Workers, MngrStep
  PROVE  Workers'
<1> USE DEF Workers
<1>1. CASE \E p \in Peers : HearState(p) \/ Check(p) \/ Reset(p)
  BY <1>1 DEF HearState, Check, Reset, test, tasks
<1>2. CASE StartUpdates \/ UpdatesCompleted \/ Poll
  BY <1>2 DEF StartUpdates, UpdatesCompleted, Poll, test, tasks
<1>3. CASE LocalBus
  BY <1>3 DEF LocalBus, LocalFound, LocalEvent, ClaimLocalBus, UpdateLocalBus, LocalStep, tasks
<1>4. CASE OnApplicationStateChange
  <2>1. Head(events).app \in Peers
    BY <1>4, HeadIsThere DEF Events
  <2>2. claimer' = claimer \/ claimer' = [claimer EXCEPT !.pc = "snapshot"]
    BY <1>4 DEF OnApplicationStateChange, Claimable, Claimed, NeedUpdate
  <2>3. handler' = handler \/ handler' = [pc |-> "action", app |-> Head(events).app]
    BY <1>4 DEF OnApplicationStateChange, Claimable, Claimed, NeedUpdate
  <2> QED
    BY <2>1, <2>2, <2>3 DEF Typed, ManagerTyped, Claimers
<1>5. CASE LockAction \/ InstallMembership \/ InstallPolicy \/ UpdatePending
  BY <1>5 DEF LockAction, InstallMembership, InstallPolicy, UpdatePending, Typed, ManagerTyped, Handlers
<1>6. CASE Snapshot \/ (\E p \in Peers : Mark(p)) \/ LockClaim \/ Claim \/ ApplicationClaimed
  BY <1>6 DEF Snapshot, Mark, LockClaim, Claim, ApplicationClaimed, Typed, ManagerTyped, Claimers
<1> QED
  BY <1>1, <1>2, <1>3, <1>4, <1>5, <1>6 DEF MngrStep

LEMMA StepPeers ==
  ASSUME Typed, Typed', Core, MngrStep, ~callFailed'
  PROVE  Peered'
<1>1. ASSUME NEW p \in Peers, HearState(p) \/ Check(p) \/ Reset(p) \/ Mark(p) PROVE Peered'
  BY <1>1, HearStatePeers, CheckPeers, ResetPeers, MarkPeers DEF Core
<1>2. ASSUME LocalBus \/ Poll PROVE Peered'
  <2>1. /\ dev' = dev /\ row' = row /\ view' = view /\ events' = events /\ updater' = updater
        /\ apps' = apps /\ checker' = checker /\ handler' = handler /\ claimer' = claimer
    BY <1>2 DEF LocalBus, LocalFound, LocalEvent, ClaimLocalBus, UpdateLocalBus, LocalStep, Poll, world, agent, tasks
  <2>2. \A p \in Peers : SameTasks(p)
    BY <2>1, SameThreads DEF SameTasks
  <2> QED
    BY <2>1, <2>2, Untouched DEF Core
<1> QED
  BY <1>1, <1>2, StartUpdatesPeers, UpdatesCompletedPeers, CallbackPeers, LockActionPeers,
     InstallMembershipPeers, InstallPolicyPeers, UpdatePendingPeers, SnapshotPeers, LockClaimPeers, ClaimPeers,
     ApplicationClaimedPeers
  DEF MngrStep, Core

LEMMA StepLocks ==
  ASSUME Typed, Core, MngrStep
  PROVE  Locks'
<1> USE MultiPeerAssumption DEF Core, Locks
<1>1. CASE \E p \in Peers : HearState(p) \/ Check(p) \/ Reset(p) \/ Mark(p)
  BY <1>1 DEF HearState, Check, Reset, Mark, test, locks, tasks
<1>2. CASE StartUpdates \/ UpdatesCompleted \/ Poll \/ LocalBus
  BY <1>2 DEF StartUpdates, UpdatesCompleted, Poll, LocalBus, LocalFound, LocalEvent, ClaimLocalBus, UpdateLocalBus, LocalStep, test, locks, tasks
<1>3. CASE OnApplicationStateChange
  <2>1. Head(events).app \in Peers
    BY <1>3, HeadIsThere DEF Events
  <2> QED
    BY <1>3, <2>1, CallbackTyped DEF OnApplicationStateChange, Claimable, Claimed, NeedUpdate, Typed, ManagerTyped,
       Claimers
<1>4. CASE LockAction \/ InstallMembership \/ InstallPolicy \/ UpdatePending
  BY <1>4 DEF LockAction, InstallMembership, InstallPolicy, UpdatePending, Typed, ManagerTyped, Handlers, locks
<1>5. CASE Snapshot \/ LockClaim \/ Claim \/ ApplicationClaimed
  BY <1>5 DEF Snapshot, LockClaim, Claim, ApplicationClaimed, Typed, ManagerTyped, Claimers, locks
<1> QED
  BY <1>1, <1>2, <1>3, <1>4, <1>5 DEF MngrStep

\* The handler works on a peer that is being claimed.
LEMMA HandlerClaims ==
  ASSUME Core, handler.pc # "idle"
  PROVE  handler.app \in Peers /\ apps[handler.app] \in Claims
<1>1. handler.app \in Peers /\ Works(handler.app)
  BY DEF Core, Locks, Works
<1> QED
  BY <1>1 DEF Core, Peered, PeerInv, Stages

LEMMA StepClaimTask ==
  ASSUME Typed, Typed', Counted, Core, MngrStep
  PROVE  ClaimTask'
<1>1. ASSUME NEW p \in Peers, HearState(p) \/ Check(p) PROVE ClaimTask'
  BY <1>1, ClaimTaskKept DEF HearState, Check, test, tasks
<1>2. ASSUME NEW p \in Peers, Reset(p) PROVE ClaimTask'
  <2>1. apps[p] = "check_update"
    BY <1>2 DEF Reset, Core, Peered, PeerInv, Stages
  <2> QED
    BY <1>2, <2>1, MovedClaimTask DEF Reset, Move, AppStates, Early
<1>3. ASSUME NEW p \in Peers, Mark(p) PROVE ClaimTask'
  <2>1. claimer.pc = "mark" /\ claimer'.pc = "lock" /\ claimer'.app = p
        /\ apps' = [apps EXCEPT ![p] = "claiming"] /\ apps \in [Peers -> AppStates]
    BY <1>3 DEF Mark, Move, Typed, ManagerTyped
  <2> QED
    BY <2>1 DEF Core, ClaimTask
<1>4. ASSUME UpdatePending PROVE ClaimTask'
  <2>1. handler.app \in Peers /\ apps[handler.app] \in Claims
    BY <1>4, HandlerClaims DEF UpdatePending
  <2> QED
    BY <1>4, <2>1, MovedClaimTask DEF UpdatePending, Move, AppStates, Early, Claims
<1>5. ASSUME Snapshot PROVE ClaimTask'
  <2>1. \A p \in Peers : apps[p] = "discovered"
    BY <1>5 DEF Snapshot, Core, ClaimTask
  <2>2. claimer'.pc = "mark" /\ claimer'.todo = Peers /\ apps' = apps
    BY <1>5, <2>1 DEF Snapshot
  <2> QED
    BY <2>1, <2>2, MultiPeerAssumption DEF ClaimTask
<1>6. ASSUME LockClaim \/ Claim \/ ApplicationClaimed PROVE ClaimTask'
  <2>1. apps' = apps /\ claimer.pc # "idle" /\ ClaimTask
    BY <1>6 DEF LockClaim, Claim, ApplicationClaimed, Core
  <2>2. /\ claimer'.app = claimer.app /\ claimer'.todo = claimer.todo
        /\ claimer'.pc \in {"idle", "claim", "store", "mark"}
        /\ claimer'.pc = "mark" => claimer'.todo # {}
        /\ claimer.pc \in {"lock", "claim", "store"}
    BY <1>6 DEF LockClaim, Claim, ApplicationClaimed, Typed, ManagerTyped, Claimers
  <2> QED
    BY <2>1, <2>2 DEF ClaimTask
<1>7. ASSUME \/ StartUpdates \/ UpdatesCompleted \/ Poll \/ LocalBus \/ LockAction
             \/ InstallMembership \/ InstallPolicy
      PROVE  ClaimTask'
  BY <1>7, ClaimTaskKept
  DEF StartUpdates, UpdatesCompleted, Poll, LocalBus, LocalFound, LocalEvent, ClaimLocalBus, UpdateLocalBus, LocalStep, LockAction,
      InstallMembership, InstallPolicy, test, tasks
<1> QED
  BY <1>1, <1>2, <1>3, <1>4, <1>5, <1>6, <1>7, CallbackClaimTask DEF MngrStep

LEMMA StepCounted ==
  ASSUME Typed, Typed', Counted, Core, MngrStep
  PROVE  Counted'
<1>1. ASSUME apps' = apps, UNCHANGED counts PROVE Counted'
  BY <1>1 DEF Counted, counts
<1>2. ASSUME NEW p \in Peers, HearState(p) \/ Check(p) PROVE Counted'
  BY <1>1, <1>2 DEF HearState, Check, test
<1>3. ASSUME NEW p \in Peers, Reset(p) PROVE Counted'
  <2>1. apps[p] = "check_update"
    BY <1>3 DEF Reset, Core, Peered, PeerInv, Stages
  <2> QED
    BY <1>3, <2>1, CountedKept DEF Reset, Move, AppStates
<1>4. ASSUME NEW p \in Peers, Mark(p) PROVE Counted'
  <2>1. apps[p] = "discovered"
    BY <1>4 DEF Mark, Core, Peered, PeerInv, ClaimOf, Listed
  <2> QED
    BY <1>4, <2>1, CountedKept DEF Mark, Move, AppStates
<1>5. ASSUME UpdatePending PROVE Counted'
  <2>1. handler.app \in Peers /\ apps[handler.app] \in Claims
    BY <1>5, HandlerClaims DEF UpdatePending
  <2> QED
    BY <1>5, <2>1, CountedKept DEF UpdatePending, Move, AppStates, Claims
<1>6. ASSUME \/ StartUpdates \/ UpdatesCompleted \/ Poll \/ LocalBus \/ LockAction
             \/ InstallMembership \/ InstallPolicy \/ Snapshot \/ LockClaim \/ Claim \/ ApplicationClaimed
      PROVE  Counted'
  BY <1>1, <1>6
  DEF StartUpdates, UpdatesCompleted, Poll, LocalBus, LocalFound, LocalEvent, ClaimLocalBus, UpdateLocalBus, LocalStep, LockAction,
      InstallMembership, InstallPolicy, Snapshot, LockClaim, Claim, ApplicationClaimed, test
<1> QED
  BY <1>2, <1>3, <1>4, <1>5, <1>6, CallbackCounted DEF MngrStep

------------------------------------------------------------------------------
(* Errors and success *)

\* As long as none has failed, a call of the manager fails only by a fault.
LEMMA StepError ==
  ASSUME Typed, ~callFailed => Core, CallsSucceed, MngrStep
  PROVE  CallsSucceed'
<1>1. failed \in Nat
  BY MultiPeerAssumption DEF Typed, FaultsTyped
<1>2. ASSUME callFailed' = callFailed, failed' = failed PROVE CallsSucceed'
  BY <1>2 DEF CallsSucceed
<1>3. ASSUME failed' = failed + 1 PROVE CallsSucceed'
  BY <1>1, <1>3 DEF CallsSucceed
<1>4. ASSUME callFailed, failed' = failed PROVE CallsSucceed'
  BY <1>1, <1>4 DEF CallsSucceed
<1>5. ASSUME NEW p \in Peers, Check(p) PROVE CallsSucceed'
  <2>1. ~callFailed => dev[p].mem
    <3>1. ~callFailed => apps[p] = "check_update"
      BY <1>5 DEF Check, Core, Peered, PeerInv, Stages
    <3> QED
      BY <3>1 DEF Core, Peered, PeerInv, News, Over
  <2>2. CASE UNCHANGED faults
    BY <1>2, <2>2 DEF faults
  <2>3. CASE Fault
    BY <1>3, <2>3 DEF Fault
  <2> QED
    BY <1>4, <1>5, <2>1, <2>2, <2>3 DEF Check
<1>6. ASSUME Claim PROVE CallsSucceed'
  <2>1. ~callFailed => dev[claimer.app].state = "claimable"
    BY <1>6, ClaimIsFresh DEF Claim, Fresh
  <2>2. CASE UNCHANGED faults
    BY <1>2, <2>2 DEF faults
  <2>3. CASE Fault
    BY <1>3, <2>3 DEF Fault
  <2> QED
    BY <1>4, <1>6, <2>1, <2>2, <2>3 DEF Claim
<1>7. ASSUME InstallMembership PROVE CallsSucceed'
  <2>1. ~callFailed => row[handler.app].sync # "none"
    BY <1>7, WorksIsStored DEF InstallMembership
  <2>2. CASE UNCHANGED faults
    BY <1>2, <2>2 DEF faults
  <2>3. CASE Fault
    BY <1>3, <2>3 DEF Fault
  <2> QED
    BY <1>4, <1>7, <2>1, <2>2, <2>3 DEF InstallMembership
<1>8. ASSUME (\E p \in Peers : Reset(p)) \/ InstallPolicy PROVE CallsSucceed'
  BY <1>2, <1>3, <1>8 DEF Reset, InstallPolicy, Fault, faults
<1>9. ASSUME StartUpdates PROVE CallsSucceed'
  BY <1>2, <1>3, <1>9 DEF StartUpdates, Fault
<1>10. ASSUME LocalBus PROVE CallsSucceed'
  <2>1. CASE LocalFound \/ LocalEvent \/ UpdateLocalBus
    BY <1>2, <1>3, <2>1 DEF LocalFound, LocalEvent, UpdateLocalBus, Fault, faults
  <2>2. CASE ClaimLocalBus
    BY <1>2, <1>3, <2>2 DEF ClaimLocalBus, Fault, faults
  <2> QED
    BY <1>10, <2>1, <2>2 DEF LocalBus
<1>11. ASSUME NEW p \in Peers, HearState(p) \/ Mark(p) PROVE CallsSucceed'
  BY <1>2, <1>11 DEF HearState, Mark, faults
<1>12. ASSUME \/ OnApplicationStateChange \/ UpdatePending \/ UpdatesCompleted \/ LockAction \/ Snapshot
              \/ LockClaim \/ ApplicationClaimed \/ Poll
       PROVE  CallsSucceed'
  BY <1>2, <1>12
  DEF OnApplicationStateChange, UpdatePending, UpdatesCompleted, LockAction, Snapshot, LockClaim, ApplicationClaimed,
      Poll, faults
<1> QED
  BY <1>5, <1>6, <1>7, <1>8, <1>9, <1>10, <1>11, <1>12 DEF MngrStep

\* A call that fails is noted as an error, and errors are not forgotten while the manager is up.
LEMMA StepNoted ==
  ASSUME Typed, MngrStep, callFailed => errorFound
  PROVE  /\ callFailed' => errorFound'
         /\ callFailed => callFailed'
<1>1. errorFound \in BOOLEAN /\ callFailed \in BOOLEAN
  BY DEF Typed, ManagerTyped, FaultsTyped
<1>2. ASSUME UNCHANGED <<errorFound, callFailed>> \/ CallFails
      PROVE  (callFailed' => errorFound') /\ (callFailed => callFailed')
  BY <1>2 DEF CallFails
<1>3. CASE \E p \in Peers : HearState(p) \/ Check(p) \/ Reset(p) \/ Mark(p)
  BY <1>2, <1>3 DEF HearState, Check, Reset, Mark, test, faults
<1>4. CASE StartUpdates \/ Poll
  <2>1. callFailed' = callFailed
    BY <1>4 DEF StartUpdates, Poll, faults
  <2>2. CASE StartUpdates
    <3>1. errorFound' = errorFound \/ errorFound' = TRUE
      BY <2>2 DEF StartUpdates
    <3> QED
      BY <2>1, <3>1
  <2>3. CASE Poll
    BY <2>1, <2>3 DEF Poll
  <2> QED
    BY <1>4, <2>2, <2>3
<1>5. CASE LocalBus
  BY <1>1, <1>2, <1>5 DEF LocalBus, LocalFound, LocalEvent, ClaimLocalBus, UpdateLocalBus, faults
<1>6. CASE UpdatesCompleted \/ OnApplicationStateChange \/ LockAction \/ InstallMembership \/ InstallPolicy
           \/ UpdatePending \/ Snapshot \/ LockClaim \/ Claim \/ ApplicationClaimed
  BY <1>2, <1>6
  DEF UpdatesCompleted, OnApplicationStateChange, LockAction, InstallMembership, InstallPolicy, UpdatePending,
      Snapshot, LockClaim, Claim, ApplicationClaimed, test, faults
<1> QED
  BY <1>3, <1>4, <1>5, <1>6 DEF MngrStep

\* When all peers are done, every thread is.
LEMMA SuccessThen ==
  ASSUME Typed, Counted, Core, peersReady >= Cardinality(Peers)
  PROVE  /\ \A p \in Peers : apps[p] = "done" /\ checker[p] = "idle" /\ ~dev[p].mem
         /\ claimer.pc = "idle" /\ handler.pc = "idle"
<1>1. Done = Peers
  BY AllOfThem DEF Counted, Done
<1>2. \A p \in Peers : apps[p] = "done"
  BY <1>1 DEF Done
<1>3. \A p \in Peers : checker[p] = "idle" /\ ~dev[p].mem
  <2>1. \A p \in Peers : Stages(p) /\ checker[p] \in {"idle", "wait", "reset"}
    BY DEF Core, Peered, PeerInv, Typed, ManagerTyped
  <2> QED
    BY <1>2, <2>1 DEF Stages, Over, Asked
<1>4. handler.pc = "idle"
  BY <1>2, HandlerClaims DEF Claims
<1>5. claimer.pc = "idle"
  <2>1. claimer.pc # "snapshot"
    BY <1>2, MultiPeerAssumption DEF Core, ClaimTask
  <2>2. claimer.pc # "mark"
    <3>1. \A p \in Peers : ~Listed(p)
      BY <1>2 DEF Core, Peered, PeerInv, ClaimOf
    <3>2. claimer.todo \subseteq Peers
      BY DEF Typed, ManagerTyped, Claimers
    <3> QED
      BY <3>1, <3>2 DEF Listed, Core, ClaimTask
  <2>3. claimer.pc \notin {"lock", "claim", "store"}
    BY <1>2 DEF Core, ClaimTask, Peered, PeerInv, ClaimOf, Locking, Storing, Claims
  <2> QED
    BY <2>1, <2>2, <2>3 DEF Typed, ManagerTyped, Claimers
<1> QED
  BY <1>2, <1>3, <1>4, <1>5

------------------------------------------------------------------------------
(* The theorems *)

LEMMA InitInv == Init => Inv
<1> SUFFICES ASSUME Init PROVE Inv
  OBVIOUS
<1>1. Typed
  BY InitTyped
<1>2. Counted
  <2>1. {p \in Peers : apps[p] # "unknown"} = {} /\ {p \in Peers : apps[p] = "done"} = {}
    BY DEF Init
  <2>2. peersFound = 0 /\ peersReady = 0
    BY DEF Init
  <2> QED
    BY <2>1, <2>2, FS_EmptySet DEF Counted
<1>3. CallsSucceed
  BY DEF Init, CallsSucceed
<1>4. SuccessIsComplete
  BY DEF Init, SuccessIsComplete
<1>5. Locks /\ ClaimTask
  BY MultiPeerAssumption DEF Init, Locks, ClaimTask, Early
<1>6. ASSUME NEW p \in Peers PROVE PeerInv(p)
  <2>1. /\ apps[p] = "unknown" /\ view[p] = None /\ events = <<>> /\ dev[p].state = "claimable" /\ ~dev[p].mem
        /\ row[p].sync = "none" /\ ~row[p].mem /\ checker[p] = "idle" /\ handler.pc = "idle" /\ claimer.pc = "idle"
        /\ updater.app # p
    BY <1>6, MultiPeerAssumption DEF Init, NoJob
  <2>2. \A i \in 1 .. Len(events) : FALSE
    BY <2>1
  <2>3. Fresh(p) /\ InOrder(p)
    BY <2>1, <2>2 DEF Fresh, InOrder
  <2> QED
    BY <2>1, <2>2, <2>3
    DEF PeerInv, Stages, ClaimOf, Storage, Updated, News, Works, Sends, Listed, Locking, Storing, Early, Over, Changing
<1>7. Workers /\ ~callFailed
  BY DEF Init, Workers
<1> QED
  BY <1>1, <1>2, <1>3, <1>4, <1>5, <1>6, <1>7 DEF Inv, Core, Peered

LEMMA NextInv == Inv /\ [Next]_vars => Inv'
<1> SUFFICES ASSUME Inv, [Next]_vars PROVE Inv'
  OBVIOUS
<1>1. CASE MngrStep
  <2>1. Up /\ proc' = proc
    BY <1>1 DEF MngrStep, HearState, Check, Reset, Mark, StartUpdates, UpdatesCompleted, OnApplicationStateChange,
       LockAction, InstallMembership, InstallPolicy, UpdatePending, Snapshot, LockClaim, Claim, ApplicationClaimed,
       LocalBus, LocalFound, LocalEvent, ClaimLocalBus, UpdateLocalBus, LocalStep, Poll
  <2>2. (callFailed => errorFound) /\ (~callFailed => Core /\ Counted)
    BY <2>1 DEF Inv, Alive, Up
  <2>3. Typed' /\ Workers'
    BY <1>1, StepTyped, StepWorkers DEF Inv
  <2>4. (callFailed' => errorFound') /\ (callFailed => callFailed')
    BY <1>1, <2>2, StepNoted DEF Inv
  <2>5. ~callFailed' => Core' /\ Counted'
    BY <1>1, <2>2, <2>3, <2>4, StepPeers, StepLocks, StepClaimTask, StepCounted DEF Core, Inv
  <2>6. CallsSucceed'
    BY <1>1, <2>2, StepError DEF Inv
  <2>7. SuccessIsComplete'
    BY <2>1 DEF SuccessIsComplete, Up
  <2> QED
    BY <2>3, <2>4, <2>5, <2>6, <2>7 DEF Inv
<1>2. CASE Succeed
  <2>1. Typed'
    BY <1>2, EndsTyped DEF Inv
  <2>2. Up /\ proc' = [proc EXCEPT ![Manager] = "ok"] /\ UNCHANGED <<main, world, agent, test, faults>>
    BY <1>2 DEF Succeed
  <2>3. proc'[Manager] = "ok"
    BY <2>2 DEF Inv, Typed, OutsideTyped
  <2>4. SuccessIsComplete'
    <3>1. Core /\ Counted /\ peersReady >= Cardinality(Peers)
      BY <1>2 DEF Succeed, Inv, Alive, Up
    <3>2. /\ \A p \in Peers : apps[p] = "done" /\ checker[p] = "idle" /\ ~dev[p].mem
          /\ claimer.pc = "idle" /\ handler.pc = "idle"
      BY <3>1, SuccessThen DEF Inv
    <3> QED
      BY <2>2, <3>2 DEF SuccessIsComplete, world, test, tasks
  <2>5. Workers' /\ CallsSucceed'
    BY <2>2 DEF Inv, Workers, CallsSucceed, test, tasks, faults
  <2> QED
    BY <2>1, <2>3, <2>4, <2>5 DEF Inv, Alive
<1>3. CASE Fail
  <2>1. Typed'
    BY <1>3, EndsTyped DEF Inv
  <2>2. proc'[Manager] = "failed"
    BY <1>3 DEF Fail, Inv, Typed, OutsideTyped
  <2>3. Workers' /\ CallsSucceed'
    BY <1>3 DEF Fail, Workers, Inv, CallsSucceed, faults
  <2> QED
    BY <2>1, <2>2, <2>3 DEF Inv, Alive, SuccessIsComplete
<1>4. CASE Peer
  <2>1. PICK p \in Peers : PeerSeesClaim(p)
    BY <1>4 DEF Peer
  <2>2. Typed'
    BY <2>1, PeerTyped DEF Inv
  <2>3. UNCHANGED <<proc, main, agent, test, faults>>
    BY <2>1 DEF PeerSeesClaim
  <2>4. Workers' /\ CallsSucceed'
    BY <2>3 DEF Inv, Workers, CallsSucceed, test, tasks, faults
  <2>5. Counted' <=> Counted
    BY <2>3 DEF Counted, test, counts
  <2>6. Locks' <=> Locks
    BY <2>3 DEF Locks, test, locks, tasks
  <2>7. ClaimTask' <=> ClaimTask
    BY <2>3 DEF ClaimTask, test, tasks
  <2>8. Alive' <=> Alive
    BY <2>3 DEF Alive
  <2>9. callFailed' = callFailed /\ errorFound' = errorFound
    BY <2>3 DEF faults, test
  <2>10. Alive /\ ~callFailed => Core'
    BY <2>1, <2>2, <2>6, <2>7, PeerSeesClaimPeers DEF Inv, Core
  <2>11. SuccessIsComplete'
    <3>1. \A q \in Peers : dev'[q].mem = dev[q].mem
      BY <2>1 DEF PeerSeesClaim, Inv, Typed, OutsideTyped, Devs
    <3> QED
      BY <2>3, <3>1 DEF Inv, SuccessIsComplete, test, tasks
  <2> QED
    BY <2>2, <2>4, <2>5, <2>8, <2>9, <2>10, <2>11 DEF Inv
<1>5. CASE Main
  <2>1. Typed'
    BY <1>5, MainTyped DEF Inv
  <2>2. UNCHANGED <<dev, prog, agent, test>> /\ callFailed' = callFailed
    BY <1>5 DEF Main, ForkManager, ForkPeers, WaitPid, world, faults
  <2>3. failed \in Nat /\ failed' >= failed
    <3>1. failed \in Nat
      BY MultiPeerAssumption DEF Inv, Typed, FaultsTyped
    <3>2. failed' = failed \/ failed' = failed + 1
      BY <1>5 DEF Main, ForkManager, ForkPeers, WaitPid, Fault, faults
    <3> QED
      BY <3>1, <3>2
  <2>4. proc'[Manager] = "ok" => proc[Manager] = "ok"
    <3>1. Manager \in DOMAIN proc
      BY DEF Inv, Typed, OutsideTyped
    <3>2. CASE ForkManager \/ WaitPid
      BY <3>1, <3>2 DEF ForkManager, WaitPid
    <3>3. CASE ForkPeers
      <4>1. PICK up \in SUBSET Peers, others \in {"none", "failed"} :
              proc' = [x \in DOMAIN proc |-> CASE x = Manager -> proc[x] [] x \in up -> "running"
                                               [] OTHER -> others]
        BY <3>3 DEF ForkPeers
      <4> QED
        BY <3>1, <4>1
    <3> QED
      BY <1>5, <3>2, <3>3 DEF Main
  <2>5. Alive' => Alive
    <3>1. CASE ForkManager
      BY <3>1 DEF ForkManager, Alive
    <3>2. CASE ForkPeers \/ WaitPid
      <4>1. Manager \in DOMAIN proc
        BY DEF Inv, Typed, OutsideTyped
      <4>2. CASE ForkPeers
        <5>1. PICK up \in SUBSET Peers, others \in {"none", "failed"} :
                proc' = [x \in DOMAIN proc |-> CASE x = Manager -> proc[x] [] x \in up -> "running"
                                                 [] OTHER -> others]
          BY <4>2 DEF ForkPeers
        <5>2. proc'[Manager] = (CASE Manager = Manager -> proc[Manager] [] Manager \in up -> "running"
                                  [] OTHER -> others)
          BY <4>1, <5>1
        <5>3. (CASE Manager = Manager -> proc[Manager] [] Manager \in up -> "running"
                 [] OTHER -> others) = proc[Manager]
          BY MultiPeerAssumption
        <5> QED
          BY <5>2, <5>3 DEF Alive
      <4>3. CASE WaitPid
        BY <4>1, <4>3 DEF WaitPid, Alive
      <4> QED
        BY <3>2, <4>2, <4>3
    <3> QED
      BY <1>5, <3>1, <3>2 DEF Main
  <2>6. Workers' /\ (Counted' <=> Counted) /\ errorFound' = errorFound
    BY <2>2 DEF Inv, Workers, Counted, test, tasks, counts
  <2>7. CallsSucceed'
    <3>1. callFailed => failed > 0
      BY DEF Inv, CallsSucceed
    <3>2. failed' \in Nat
      BY <2>1, MultiPeerAssumption DEF Typed, FaultsTyped
    <3>3. failed > 0 => failed' > 0
      BY <2>3, <3>2
    <3> QED
      BY <2>2, <3>1, <3>3 DEF CallsSucceed
  <2>8. SuccessIsComplete'
    BY <2>2, <2>4 DEF Inv, SuccessIsComplete, test, tasks
  <2>9. Alive' /\ ~callFailed => Core'
    <3>1. /\ dev' = dev /\ row' = row /\ view' = view /\ events' = events /\ updater' = updater
          /\ apps' = apps /\ checker' = checker /\ handler' = handler /\ claimer' = claimer
      BY <2>2 DEF agent, test, tasks
    <3>2. \A p \in Peers : SameTasks(p)
      BY <3>1, SameThreads DEF SameTasks
    <3>3. Alive /\ ~callFailed => Peered'
      BY <2>1, <3>1, <3>2, Untouched DEF Inv, Core
    <3>4. Locks' <=> Locks
      BY <2>2 DEF Locks, test, locks, tasks
    <3>5. ClaimTask' <=> ClaimTask
      BY <2>2 DEF ClaimTask, test, tasks
    <3> QED
      BY <2>5, <3>3, <3>4, <3>5 DEF Inv, Core
  <2> QED
    BY <2>1, <2>2, <2>5, <2>6, <2>7, <2>8, <2>9 DEF Inv
<1>6. CASE UNCHANGED vars
  <2>1. UNCHANGED <<proc, main, dev, signals, row, view, jobs, updater, events, apps, localbus>>
    BY <1>6 DEF vars, world, agent, test
  <2>2. UNCHANGED <<counts, errorFound, locks, tasks, poll, faults>>
    BY <1>6 DEF vars, test
  <2>3. Typed' <=> Typed
    BY <2>1, <2>2 DEF Typed, OutsideTyped, AgentTyped, ManagerTyped, FaultsTyped, counts, locks, tasks, faults
  <2>4. Workers' /\ CallsSucceed' /\ SuccessIsComplete' /\ (Counted' <=> Counted)
    BY <2>1, <2>2 DEF Inv, Workers, Counted, CallsSucceed, SuccessIsComplete, counts, tasks, faults
  <2>5. Alive /\ ~callFailed => Peered'
    <3>1. \A p \in Peers : SameTasks(p)
      BY <2>1, <2>2, SameThreads DEF SameTasks, tasks
    <3> QED
      BY <2>1, <2>2, <2>3, <3>1, Untouched DEF Inv, Core, tasks
  <2>6. Locks' <=> Locks
    BY <2>1, <2>2 DEF Locks, locks, tasks
  <2>7. ClaimTask' <=> ClaimTask
    BY <2>1, <2>2 DEF ClaimTask, tasks
  <2>8. (Alive' <=> Alive) /\ callFailed' = callFailed /\ errorFound' = errorFound
    BY <2>1, <2>2 DEF Alive, faults
  <2> QED
    BY <2>3, <2>4, <2>5, <2>6, <2>7, <2>8 DEF Inv, Core
<1> QED
  BY <1>1, <1>2, <1>3, <1>4, <1>5, <1>6, MngrSteps DEF Next, Ended

LEMMA InvIsTypeOK == Inv => TypeOK
BY DEF Inv, Typed, OutsideTyped, AgentTyped, ManagerTyped, FaultsTyped, TypeOK, Devs, Stored, Syncs, Seen, Told

(***************************************************************************)
(* Every variable of the program has its type, for any number of peers and *)
(* of failures.                                                            *)
(***************************************************************************)
THEOREM TypeCorrect == FairSpec => []TypeOK
BY InitInv, NextInv, InvIsTypeOK, PTL DEF FairSpec

(***************************************************************************)
(* For any number of peers, however the callbacks and the tasks of the     *)
(* manager overtake each other and the news from the agent: none of their  *)
(* calls fails before the storage, an application or the start of a process*)
(* has failed.                                                             *)
(***************************************************************************)
THEOREM OwnCallsSucceed == FairSpec => []CallsSucceed
<1>1. Inv => CallsSucceed
  BY DEF Inv
<1> QED
  BY <1>1, InitInv, NextInv, PTL DEF FairSpec

(***************************************************************************)
(* For any number of peers: a manager that reports success has taken every *)
(* peer through all stages and reset it, and none of its threads still     *)
(* works on one.                                                           *)
(***************************************************************************)
THEOREM SuccessMeansDone == FairSpec => []SuccessIsComplete
<1>1. Inv => SuccessIsComplete
  BY DEF Inv
<1> QED
  BY <1>1, InitInv, NextInv, PTL DEF FairSpec
================================================================================
