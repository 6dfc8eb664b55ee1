------------------------------- MODULE AgentView -------------------------------
(***************************************************************************)
(* What a security agent believes about the applications, and how it gets  *)
(* to know it: from State signals that ApplicationMonitor passes on, from  *)
(* a lookup in the storage when an application is seen for the first time, *)
(* and from notifications of the storage.  (The events for listeners of    *)
(* the agent, which its task queue delivers, change nothing here.)         *)
(*                                                                         *)
(* The storage is reduced to the state of synchronisation of each          *)
(* application and the counter of changes; AppSync has the rest of it, and *)
(* what an update does to an application.  A step is a critical section,   *)
(* a callback, or an update of an application.                             *)
(***************************************************************************)
EXTENDS Naturals, Sequences, SequencesExt

CONSTANTS
  Apps,        \* applications, by their public keys
  Users,       \* threads that call UIStorage and SecurityAgent
  Updater,     \* the thread of ApplicationUpdater's queue
  Nobody,      \* a lock is free
  Calls,       \* the operations that the Users call in this instance
  Alone,       \* those that are called only while no other call, nor an update, is
               \* under way, and (claim) for what the agent reports: claimable and unmanaged
  EarlyUse,    \* whether they call them before SecurityAgentImpl::Init is done, and
               \* for an application of which it is not yet heard that it is claimed
  MayStayDown, \* whether an application may stop for good
  MaxCalls,    \* bound: calls of the Users
  MaxStarts,   \* bound: starts of an application
  MaxEvents    \* bound: stops of applications and new manifests

ASSUME AgentViewAssumption ==
  /\ IsFiniteSet(Apps)
  /\ Updater \notin Users
  /\ Nobody \notin Users \cup {Updater} \cup Apps
  /\ Calls \subseteq {"change", "reset", "remove", "wipe", "claim", "sync"}
  /\ Alone \subseteq Calls
  /\ EarlyUse \in BOOLEAN /\ MayStayDown \in BOOLEAN
  /\ MaxCalls \in Nat /\ MaxStarts \in Nat \ {0} /\ MaxEvents \in Nat

VARIABLES
  row,       \* the state of synchronisation in the database, "none" without a row
  counter,   \* UIStorageImpl::updateCounter
  storageListeners,  \* UIStorageImpl::listeners
  listenerLock,      \* and the lock that protects them
  dev,       \* the applications
  signals,   \* applications whose last State signal has not been delivered
  heard,     \* ApplicationMonitor::applications
  monitorListeners,  \* ApplicationMonitor::listeners
  bus,       \* the thread of the bus that delivers signals
  jobs,      \* the queue of ApplicationUpdater
  view,      \* SecurityAgentImpl::applications
  th,        \* the Users and the Updater
  agent,     \* how far Init or the destructor of SecurityAgentImpl are
  spent      \* how much of the bounds is used up

storage == <<row, counter, storageListeners, listenerLock>>
monitor == <<signals, heard, monitorListeners, bus>>
vars == <<storage, dev, monitor, jobs, view, th, agent, spent>>

Threads == Users \cup {Updater}

------------------------------------------------------------------------------

SyncStates == {"unmanaged", "ok", "pending", "will_reset"}
Stored == {"none", "ok", "pending", "will_reset"}
AppStates == {"claimable", "claimed", "need_update"}
Names == 1..MaxStarts

\* An entry of the agent's map; name 0 stands for an application that is not in it.
Views == [name : Names, state : AppStates, sync : SyncStates]
         \cup {[name |-> 0, state |-> "claimable", sync |-> "unmanaged"]}
Unknown == [name |-> 0, state |-> "claimable", sync |-> "unmanaged"]

\* The phases of an agent, in their order.
Starting == <<"created", "monitored", "updater_monitored", "updater_stored">>
Leaving == <<"unstored", "unmonitored", "updater_unstored", "updater_unmonitored">>
Phases == Range(Starting) \cup {"up"} \cup Range(Leaving) \cup {"gone"}

Pcs == {"idle", "store", "start", "work", "report", "notify", "tell"}
NoWork == [pc |-> "idle", app |-> Nobody, name |-> 0, state |-> "claimable", sync |-> "none",
           tx |-> 0, event |-> "none", at |-> 0]
Work == [pc : Pcs, app : Apps \cup {Nobody}, name : {0} \cup Names, state : AppStates,
         sync : Stored \cup {"reset"}, tx : Nat, at : Nat,
         event : {"none", "pending", "completed", "added", "removed", "wiped"}]

\* A job of ApplicationUpdater: the old state is "none" for a new bus name.
Jobs == [app : Apps, name : Names, old : AppStates \cup {"none"}, new : AppStates]

TypeOK ==
  /\ row \in [Apps -> Stored]
  /\ counter \in Nat
  /\ storageListeners \in Seq({"agent", "updater"})
  /\ monitorListeners \in Seq({"agent", "updater"})
  /\ listenerLock \in Threads \cup {Nobody}
  /\ dev \in [Apps -> [up : BOOLEAN, name : Names, state : AppStates]]
  /\ signals \subseteq Apps
  /\ heard \in [Apps -> [Names -> AppStates \cup {"none"}]]
  /\ bus \in [pc : {"idle", "tell", "insert"}, at : Nat,
              app : Apps \cup {Nobody}, name : {0} \cup Names,
              old : AppStates \cup {"none"}, new : AppStates, entry : Views]
  /\ jobs \in Seq(Jobs)
  /\ view \in [Apps -> Views]
  /\ th \in [Threads -> Work]
  /\ agent \in Phases
  /\ spent \in [calls : 0..MaxCalls, events : 0..MaxEvents, alone : BOOLEAN]

NoSignal == [pc |-> "idle", at |-> 0, app |-> Nobody, name |-> 0, old |-> "none",
             new |-> "claimable", entry |-> Unknown]

\* The applications are there, claimed or not, and the agent is about to be created.
Init ==
  /\ \E claimed \in SUBSET Apps :
       /\ row = [a \in Apps |-> IF a \in claimed THEN "ok" ELSE "none"]
       /\ dev = [a \in Apps |-> [up |-> TRUE, name |-> 1,
                                 state |-> IF a \in claimed THEN "claimed" ELSE "claimable"]]
  /\ counter = 0
  /\ storageListeners = <<>> /\ monitorListeners = <<>>
  /\ listenerLock = Nobody
  /\ signals = Apps
  /\ heard = [a \in Apps |-> [n \in Names |-> "none"]]
  /\ bus = NoSignal
  /\ jobs = <<>>
  /\ view = [a \in Apps |-> Unknown]
  /\ th = [t \in Threads |-> NoWork]
  /\ agent = "created"
  /\ spent = [calls |-> 0, events |-> 0, alone |-> FALSE]

------------------------------------------------------------------------------
(* Applications (external): they start and stop, and may ask for a new manifest. *)

Happens ==
  /\ agent = "up" \/ EarlyUse
  /\ spent.events < MaxEvents
  /\ spent' = [spent EXCEPT !.events = @ + 1]

AppStops(a) ==
  /\ dev[a].up /\ Happens
  /\ MayStayDown \/ dev[a].name < MaxStarts
  /\ dev' = [dev EXCEPT ![a].up = FALSE]
  /\ signals' = signals \ {a}
  /\ UNCHANGED <<storage, heard, monitorListeners, bus, jobs, view, th, agent>>

AppStarts(a) ==
  /\ ~dev[a].up /\ dev[a].name < MaxStarts
  /\ dev' = [dev EXCEPT ![a].up = TRUE, ![a].name = @ + 1]
  /\ signals' = signals \cup {a}
  /\ UNCHANGED <<storage, heard, monitorListeners, bus, jobs, view, th, agent, spent>>

AppNeedsUpdate(a) ==
  /\ dev[a].up /\ dev[a].state = "claimed" /\ Happens
  /\ dev' = [dev EXCEPT ![a].state = "need_update"]
  /\ signals' = signals \cup {a}
  /\ UNCHANGED <<storage, heard, monitorListeners, bus, jobs, view, th, agent>>

------------------------------------------------------------------------------
(* SecurityAgentImpl's map *)

\* SetSyncState, under appsMutex, with the event that tells of the change.
SetSyncState(a, s) ==
  view' = IF view[a] = Unknown THEN view ELSE [view EXCEPT ![a].sync = s]

\* OnStorageReset: the same for every application, with appsMutex kept.
SetAllUnmanaged ==
  view' = [a \in Apps |-> IF view[a] = Unknown THEN Unknown
                          ELSE [view[a] EXCEPT !.sync = "unmanaged"]]

------------------------------------------------------------------------------
(* ApplicationMonitor::State and what its two listeners do.  A signal whose  *)
(* sender has stopped is not delivered; only the last one of a sender is.     *)

State(a) ==
  /\ bus.pc = "idle" /\ agent # "gone"
  /\ a \in signals
  /\ signals' = signals \ {a}
  /\ LET n == dev[a].name IN
       /\ heard' = [heard EXCEPT ![a][n] = dev[a].state]
       /\ bus' = IF monitorListeners = <<>> THEN NoSignal
                 ELSE [NoSignal EXCEPT !.pc = "tell", !.at = 1, !.app = a, !.name = n,
                                       !.old = heard[a][n], !.new = dev[a].state]
  /\ UNCHANGED <<storage, dev, monitorListeners, jobs, view, th, agent, spent>>

\* NotifySecurityInfoListeners calls them one after another and keeps
\* securityListenersMutex.
Calling(l) == bus.pc = "tell" /\ bus.at <= Len(monitorListeners) /\ monitorListeners[bus.at] = l
Called ==
  bus' = IF bus.at = Len(monitorListeners) THEN NoSignal ELSE [bus EXCEPT !.pc = "tell", !.at = @ + 1]

\* OnSecurityStateChange for an application in the map: AddSecurityInfo.
UpdateKnown ==
  /\ Calling("agent") /\ view[bus.app] # Unknown
  /\ view' = [view EXCEPT ![bus.app].name = bus.name, ![bus.app].state = bus.new]
  /\ Called
  /\ UNCHANGED <<storage, dev, signals, heard, monitorListeners, jobs, th, agent, spent>>

\* For a new one the storage is asked first, with no lock held.
LookUp ==
  /\ Calling("agent") /\ view[bus.app] = Unknown
  /\ bus' = [bus EXCEPT !.pc = "insert",
               !.entry = [name |-> bus.name, state |-> bus.new,
                          sync |-> IF row[bus.app] = "none" THEN "unmanaged" ELSE row[bus.app]]]
  /\ UNCHANGED <<storage, dev, signals, heard, monitorListeners, jobs, view, th, agent, spent>>

Insert ==
  /\ bus.pc = "insert"
  /\ view' = [view EXCEPT ![bus.app] = bus.entry]
  /\ Called
  /\ UNCHANGED <<storage, dev, signals, heard, monitorListeners, jobs, th, agent, spent>>

\* ApplicationUpdater::OnSecurityStateChange
AddJob ==
  /\ Calling("updater")
  /\ jobs' = Append(jobs, [app |-> bus.app, name |-> bus.name, old |-> bus.old, new |-> bus.new])
  /\ Called
  /\ UNCHANGED <<storage, dev, signals, heard, monitorListeners, view, th, agent, spent>>

Bus == UpdateKnown \/ LookUp \/ Insert \/ AddJob

------------------------------------------------------------------------------
(* UIStorageImpl.  Calls change the row of an application, then notify. *)

Begins(t, kind) ==
  /\ th[t].pc = "idle" /\ kind \in Calls
  /\ (\A u \in Threads : th[u].pc = "idle") \/ (kind \notin Alone /\ ~spent.alone)
  /\ agent = "up" \/ (EarlyUse /\ agent \in Range(Starting))
  /\ spent.calls < MaxCalls
  /\ spent' = [spent EXCEPT !.calls = @ + 1, !.alone = kind \in Alone]

HeardClaim(a) == EarlyUse \/ heard[a][dev[a].name] # "claimable"

\* What NotifyListeners is to say: an event, and the state in the record.
Notify(t, a, event, sync) ==
  th' = [th EXCEPT ![t] = [NoWork EXCEPT !.pc = "notify", !.app = a, !.event = event, !.sync = sync]]

\* ApplicationUpdated, after whatever change of an application's configuration.
ApplicationUpdated(t, a) ==
  /\ Begins(t, "change") /\ HeardClaim(a)
  /\ row[a] # "none"
  /\ counter' = counter + 1
  /\ row' = [row EXCEPT ![a] = IF @ = "ok" THEN "pending" ELSE @]
  /\ Notify(t, a, "pending", row'[a])
  /\ UNCHANGED <<storageListeners, listenerLock, dev, monitor, jobs, view, agent>>

ResetApplication(t, a) ==
  /\ Begins(t, "reset") /\ HeardClaim(a)
  /\ row[a] # "none"
  /\ counter' = counter + 1
  /\ row' = [row EXCEPT ![a] = "will_reset"]
  /\ Notify(t, a, "pending", "will_reset")
  /\ UNCHANGED <<storageListeners, listenerLock, dev, monitor, jobs, view, agent>>

\* The listeners are told even if there was nothing to remove.
RemoveApplication(t, a) ==
  /\ Begins(t, "remove")
  /\ row' = [row EXCEPT ![a] = "none"]
  /\ Notify(t, a, "removed", "none")
  /\ UNCHANGED <<counter, storageListeners, listenerLock, dev, monitor, jobs, view, agent>>

Wipe(t) ==
  /\ Begins(t, "wipe")
  /\ row' = [a \in Apps |-> "none"]
  /\ Notify(t, Nobody, "wiped", "none")
  /\ UNCHANGED <<counter, storageListeners, listenerLock, dev, monitor, jobs, view, agent>>

\* SecurityAgentImpl::Claim of an application in the map that is claimable.
Claim(t, a) ==
  /\ Begins(t, "claim") /\ agent = "up"
  /\ dev[a].up /\ dev[a].state = "claimable" /\ view[a].name = dev[a].name
  /\ "claim" \in Alone => view[a].state = "claimable" /\ view[a].sync = "unmanaged"
  /\ dev' = [dev EXCEPT ![a].state = "claimed"]
  /\ signals' = signals \cup {a}
  /\ th' = [th EXCEPT ![t] = [NoWork EXCEPT !.pc = "store", !.app = a]]
  /\ UNCHANGED <<storage, heard, monitorListeners, bus, jobs, view, agent>>

ApplicationClaimed(t) ==
  /\ th[t].pc = "store"
  /\ row' = [row EXCEPT ![th[t].app] = "ok"]
  /\ Notify(t, th[t].app, "added", "ok")
  /\ UNCHANGED <<counter, storageListeners, listenerLock, dev, monitor, jobs, view, agent, spent>>

\* NotifyListeners calls them one after another and keeps listenerLock.
LockListeners(t) ==
  /\ th[t].pc = "notify" /\ listenerLock = Nobody
  /\ IF storageListeners = <<>>
     THEN th' = [th EXCEPT ![t] = NoWork] /\ UNCHANGED listenerLock
     ELSE th' = [th EXCEPT ![t].pc = "tell", ![t].at = 1] /\ listenerLock' = t
  /\ UNCHANGED <<row, counter, storageListeners, dev, monitor, jobs, view, agent, spent>>

Telling(t, l) == th[t].pc = "tell" /\ storageListeners[th[t].at] = l

\* Mutant: listenerLock is not released.
Returned_Locked(t) ==
  /\ th' = [th EXCEPT ![t] = IF @.at < Len(storageListeners) THEN [@ EXCEPT !.at = @ + 1] ELSE NoWork]
  /\ UNCHANGED listenerLock

Returned(t) ==
  IF th[t].at < Len(storageListeners)
  THEN th' = [th EXCEPT ![t].at = @ + 1] /\ UNCHANGED listenerLock
  ELSE th' = [th EXCEPT ![t] = NoWork] /\ listenerLock' = Nobody

\* Mutant: the arguments of the event are swapped.
OnPendingChanges_Swapped(t) ==
  /\ Telling(t, "updater")
  /\ LET a == th[t].app
         v == view[a]
     IN IF th[t].event = "pending" /\ v # Unknown /\ heard[a][v.name] # "none"
        THEN jobs' = Append(jobs, [app |-> a, name |-> v.name, old |-> heard[a][v.name],
                                   new |-> "claimable"])
        ELSE UNCHANGED jobs
  /\ Returned(t)
  /\ UNCHANGED <<row, counter, storageListeners, dev, monitor, view, agent, spent>>

\* ApplicationUpdater::OnPendingChanges: a job for the bus name that the agent
\* knows, if the monitor knows it too.
OnPendingChanges(t) ==
  /\ Telling(t, "updater")
  /\ LET a == th[t].app
         v == view[a]
     IN IF th[t].event = "pending" /\ v # Unknown /\ heard[a][v.name] # "none"
        THEN jobs' = Append(jobs, [app |-> a, name |-> v.name, old |-> "none",
                                   new |-> heard[a][v.name]])
        ELSE UNCHANGED jobs
  /\ Returned(t)
  /\ UNCHANGED <<row, counter, storageListeners, dev, monitor, view, agent, spent>>

\* Mutant: changes that are completed are not passed on.
OnStorageEvent_NotCompleted(t) ==
  /\ Telling(t, "agent")
  /\ CASE th[t].event = "wiped" -> SetAllUnmanaged
       [] th[t].event = "pending" -> SetSyncState(th[t].app, th[t].sync)
       [] th[t].event = "added" -> SetSyncState(th[t].app, "ok")
       [] th[t].event = "completed" -> UNCHANGED view
       [] th[t].event = "removed" -> SetSyncState(th[t].app, "unmanaged")
  /\ Returned(t)
  /\ UNCHANGED <<row, counter, storageListeners, dev, monitor, jobs, agent, spent>>

\* The callbacks of SecurityAgentImpl.
OnStorageEvent(t) ==
  /\ Telling(t, "agent")
  /\ CASE th[t].event = "wiped" -> SetAllUnmanaged
       [] th[t].event = "pending" -> SetSyncState(th[t].app, th[t].sync)
       [] th[t].event \in {"completed", "added"} -> SetSyncState(th[t].app, "ok")
       [] th[t].event = "removed" -> SetSyncState(th[t].app, "unmanaged")
  /\ Returned(t)
  /\ UNCHANGED <<row, counter, storageListeners, dev, monitor, jobs, agent, spent>>

Notifications(t) == LockListeners(t) \/ OnPendingChanges(t) \/ OnStorageEvent(t)

------------------------------------------------------------------------------
(* ApplicationUpdater *)

\* HandleTask: a new bus name, or a change to NEED_UPDATE.
Acts(j) == j.old = "none" \/ (j.old # "need_update" /\ j.new = "need_update")

\* The update begins with StartUpdates, which ends it if there is no row.
StartsUpdates(t, a, name, state) ==
  th' = [th EXCEPT ![t] =
           IF row[a] = "none" THEN NoWork
           ELSE [NoWork EXCEPT !.pc = "work", !.app = a, !.name = name, !.state = state,
                               !.sync = row[a], !.tx = counter]]

TakeJob ==
  /\ th[Updater].pc = "idle" /\ jobs # <<>>
  /\ agent \notin {"updater_unmonitored", "gone"}
  /\ jobs' = Tail(jobs)
  /\ LET j == Head(jobs) IN
       IF Acts(j) THEN StartsUpdates(Updater, j.app, j.name, j.new) ELSE UNCHANGED th
  /\ UNCHANGED <<storage, dev, monitor, view, agent, spent>>

\* SecurityAgent::UpdateApplications for an application: the state that the
\* agent reports becomes SYNC_OK first.
UpdateApplications(t, a) ==
  /\ Begins(t, "sync") /\ agent = "up"
  /\ view[a] # Unknown /\ view[a].state = "claimed"
  /\ SetSyncState(a, "ok")
  /\ th' = [th EXCEPT ![t] = [NoWork EXCEPT !.pc = "start", !.app = a,
                                            !.name = view[a].name, !.state = view[a].state]]
  /\ UNCHANGED <<storage, dev, monitor, jobs, agent>>

StartUpdates(t) ==
  /\ th[t].pc = "start"
  /\ StartsUpdates(t, th[t].app, th[t].name, th[t].state)
  /\ UNCHANGED <<storage, dev, monitor, jobs, view, agent, spent>>

Reachable(t) == LET d == dev[th[t].app] IN d.up /\ d.name = th[t].name

\* An update that succeeds; a new manifest that was granted ends NEED_UPDATE.
Updated(t) ==
  /\ th[t].pc = "work" /\ th[t].sync # "will_reset" /\ th[t].state # "claimable"
  /\ Reachable(t)
  /\ th' = [th EXCEPT ![t].pc = "report", ![t].sync = "ok"]
  /\ \/ UNCHANGED <<dev, signals>>
     \/ /\ dev[th[t].app].state = "need_update"
        /\ dev' = [dev EXCEPT ![th[t].app].state = "claimed"]
        /\ signals' = signals \cup {th[t].app}
  /\ UNCHANGED <<storage, heard, monitorListeners, bus, jobs, view, agent, spent>>

\* An application that was not claimed needs no reset.
ResetDone(t) ==
  /\ th[t].pc = "work" /\ th[t].sync = "will_reset"
  /\ \/ th[t].state = "claimable" /\ UNCHANGED <<dev, signals>>
     \/ /\ th[t].state # "claimable" /\ Reachable(t)
        /\ dev' = [dev EXCEPT ![th[t].app].state = "claimable"]
        /\ signals' = signals \cup {th[t].app}
  /\ th' = [th EXCEPT ![t].pc = "report", ![t].sync = "reset"]
  /\ UNCHANGED <<storage, heard, monitorListeners, bus, jobs, view, agent, spent>>

\* Nobody answers, or the application is not claimed: nothing is reported.
UpdateFails(t) ==
  /\ th[t].pc = "work"
  /\ ~Reachable(t) \/ (th[t].state = "claimable" /\ th[t].sync # "will_reset")
  /\ ~(th[t].state = "claimable" /\ th[t].sync = "will_reset")
  /\ th' = [th EXCEPT ![t] = NoWork]
  /\ UNCHANGED <<storage, dev, monitor, jobs, view, agent, spent>>

\* UpdatesCompleted, under updateLock.
UpdatesCompleted(t) ==
  /\ th[t].pc = "report"
  /\ LET a == th[t].app IN
       CASE th[t].sync = "reset" ->
              /\ row' = [row EXCEPT ![a] = "none"]
              /\ Notify(t, a, "removed", "none")
         [] th[t].sync = "ok" /\ row[a] = "none" ->
              /\ th' = [th EXCEPT ![t] = NoWork]
              /\ UNCHANGED row
         [] th[t].sync = "ok" /\ row[a] # "none" /\ th[t].tx # counter ->
              /\ th' = [th EXCEPT ![t].pc = "work", ![t].sync = row[a], ![t].tx = counter]
              /\ UNCHANGED row
         [] OTHER ->
              /\ row' = [row EXCEPT ![a] = "ok"]
              /\ Notify(t, a, "completed", "ok")
  /\ UNCHANGED <<counter, storageListeners, listenerLock, dev, monitor, jobs, view, agent, spent>>

UpdateApplication(t) ==
  StartUpdates(t) \/ Updated(t) \/ ResetDone(t) \/ UpdateFails(t) \/ UpdatesCompleted(t)

------------------------------------------------------------------------------
(* SecurityAgentImpl::Init and its destructor *)

Phase(from, to) == agent = from /\ agent' = to

\* RegisterSecurityInfoListener passes on what was heard before.
RegisterAgentWithMonitor ==
  /\ Phase("created", "monitored") /\ bus.pc = "idle"
  /\ monitorListeners' = Append(monitorListeners, "agent")
  /\ view' = [a \in Apps |->
                IF heard[a][1] = "none" THEN Unknown
                ELSE [name |-> 1, state |-> heard[a][1],
                      sync |-> IF row[a] = "none" THEN "unmanaged" ELSE row[a]]]
  /\ UNCHANGED <<storage, dev, signals, heard, bus, jobs, th, spent>>

RegisterUpdaterWithMonitor ==
  /\ Phase("monitored", "updater_monitored") /\ bus.pc = "idle"
  /\ monitorListeners' = Append(monitorListeners, "updater")
  /\ LET order == SetToSeq({a \in Apps : heard[a][1] # "none"})
     IN jobs' = jobs \o [i \in DOMAIN order |->
                           [app |-> order[i], name |-> 1, old |-> "none", new |-> heard[order[i]][1]]]
  /\ UNCHANGED <<storage, dev, signals, heard, bus, view, th, spent>>

RegisterWithStorage ==
  /\ \/ Phase("updater_monitored", "updater_stored")
        /\ storageListeners' = Append(storageListeners, "updater")
     \/ Phase("updater_stored", "up")
        /\ storageListeners' = Append(storageListeners, "agent")
  /\ listenerLock = Nobody
  /\ UNCHANGED <<row, counter, listenerLock, dev, monitor, jobs, view, th, spent>>

\* Nobody may be using an agent that is destroyed; its threads still run.
Destroy ==
  /\ \A t \in Users : th[t].pc = "idle" \/ th[t].event # "none"
  /\ Phase("up", "unstored")
  /\ listenerLock = Nobody
  /\ storageListeners' = RemoveFirst(storageListeners, "agent")
  /\ UNCHANGED <<row, counter, listenerLock, dev, monitor, jobs, view, th, spent>>

\* Mutant: securityListenersMutex is not taken.
UnregisterFromMonitor_NoLock ==
  /\ \/ Phase("unstored", "unmonitored")
        /\ monitorListeners' = RemoveFirst(monitorListeners, "agent")
     \/ Phase("updater_unstored", "updater_unmonitored")
        /\ monitorListeners' = RemoveFirst(monitorListeners, "updater")
  /\ UNCHANGED <<storage, dev, signals, heard, bus, jobs, view, th, spent>>

UnregisterFromMonitor ==
  /\ \/ Phase("unstored", "unmonitored")
        /\ monitorListeners' = RemoveFirst(monitorListeners, "agent")
     \/ Phase("updater_unstored", "updater_unmonitored")
        /\ monitorListeners' = RemoveFirst(monitorListeners, "updater")
  /\ bus.pc = "idle"
  /\ UNCHANGED <<storage, dev, signals, heard, bus, jobs, view, th, spent>>

UnregisterUpdater ==
  /\ Phase("unmonitored", "updater_unstored")
  /\ listenerLock = Nobody
  /\ storageListeners' = RemoveFirst(storageListeners, "updater")
  /\ UNCHANGED <<row, counter, listenerLock, dev, monitor, jobs, view, th, spent>>

\* TaskQueue::Stop: the running task ends, others are dropped.
StopQueue ==
  /\ Phase("updater_unmonitored", "gone")
  /\ th[Updater].pc = "idle"
  /\ jobs' = <<>>
  /\ UNCHANGED <<storage, dev, monitor, view, th, spent>>

InitAgent == RegisterAgentWithMonitor \/ RegisterUpdaterWithMonitor \/ RegisterWithStorage
EndAgent == UnregisterFromMonitor \/ UnregisterUpdater \/ StopQueue

------------------------------------------------------------------------------

User(t) ==
  \/ \E a \in Apps :
       \/ ApplicationUpdated(t, a)
       \/ ResetApplication(t, a)
       \/ RemoveApplication(t, a)
       \/ Claim(t, a)
       \/ UpdateApplications(t, a)
  \/ Wipe(t)
  \/ ApplicationClaimed(t)

Next ==
  \/ \E a \in Apps : AppStops(a) \/ AppStarts(a) \/ AppNeedsUpdate(a) \/ State(a)
  \/ \E t \in Users : User(t)
  \/ \E t \in Threads : Notifications(t) \/ UpdateApplication(t)
  \/ Bus \/ TakeJob
  \/ InitAgent \/ Destroy \/ EndAgent

Spec == Init /\ [][Next]_vars

\* Threads that are inside a call, queues that have tasks, and signals go on;
\* an application that stopped comes back.  Nobody has to call or to stop.
Fairness ==
  /\ \A t \in Threads : WF_vars(Notifications(t) \/ UpdateApplication(t))
  /\ \A t \in Users : WF_vars(ApplicationClaimed(t))
  /\ \A a \in Apps : WF_vars(State(a)) /\ WF_vars(AppStarts(a))
  /\ WF_vars(Bus) /\ WF_vars(TakeJob)
  /\ WF_vars(InitAgent) /\ WF_vars(EndAgent)

FairSpec == Spec /\ Fairness

------------------------------------------------------------------------------
(* Properties *)

\* Nothing is under way, and all applications are there.
AtRest ==
  /\ agent = "up"
  /\ \A t \in Threads : th[t].pc = "idle"
  /\ \A a \in Apps : dev[a].up
  /\ jobs = <<>> /\ signals = {} /\ bus.pc = "idle"

\* Notifications are sent after updateLock is released (UIStorageImpl.cc:203) and
\* can overtake one another and the insertion of a new entry (SecurityAgentImpl.cc:554).
\* Still, when all is done, the agent knows the bus name and the state that each
\* application has signalled last, and of a managed one what the database says: what
\* came too late is followed by another update.
SettledViewIsTrue ==
  AtRest => \A a \in Apps :
              /\ view[a].name = dev[a].name
              /\ view[a].state = dev[a].state
              /\ row[a] # "none" => view[a].sync = row[a]

\* A change, or a reset, of an application that is there does not stay pending: the
\* notification finds a bus name to update, or the name is still to be heard.
SettledIsApplied ==
  AtRest => \A a \in Apps : row[a] \in {"ok", "none"}

\* Once the agent is destroyed nothing of it changes: no notification, signal
\* or update is still on its way into it.
GoneIsQuiet == [][agent = "gone" => UNCHANGED <<view, jobs>>]_vars

\* An agent that is being destroyed gets there and the calls that are under way
\* return, whatever callbacks they are in (the locks of the storage, of the
\* monitor and of the queue are each kept during callbacks).
DestroyedIsGone ==
  agent = "unstored" ~> agent = "gone" /\ \A t \in Threads : th[t].pc = "idle"

==============================================================================
