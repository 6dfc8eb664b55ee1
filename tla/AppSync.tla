------------------------------- MODULE AppSync -------------------------------
(***************************************************************************)
(* How the security configuration of claimed applications gets from the    *)
(* persistent storage of the security manager to the applications.         *)
(*                                                                         *)
(*   - UI threads change the storage (UIStorageImpl on top of SQLStorage)  *)
(*     and tell the listeners that there are pending changes;              *)
(*   - ApplicationUpdater's queue thread, and threads that call            *)
(*     SecurityAgent::UpdateApplications, read the storage, make the       *)
(*     remote application equal to it, and report to the storage;          *)
(*   - applications come and go and announce their state, which the        *)
(*     ApplicationMonitor passes on as events for the queue thread;        *)
(*   - the security manager may crash and start again.                     *)
(*                                                                         *)
(* A step is a critical section of storageMutex or updateLock, or one call *)
(* to the remote application.  Certificates are known by their serial      *)
(* number, a manifest by the serial of the identity certificate that was   *)
(* issued for it, a policy by its version and an abstract content.         *)
(***************************************************************************)
EXTENDS Naturals, Sequences, FiniteSets

CONSTANTS
  Apps,        \* applications, by their public keys
  Users,       \* threads of the UI that change the storage
  Callers,     \* threads that call UpdateApplications
  Queue,       \* the thread of ApplicationUpdater's task queue
  Groups,
  Policies,    \* contents of policies
  NoPolicy,    \* the content of an application's default policy
  NoApp,
  Nobody,      \* a lock is free
  Managed,     \* the applications that are claimed in the initial state
  Joined,      \* the groups they are members of in the initial state
  Ops,         \* the operations the UI uses
  MaxOps,      \* bound: operations the UI starts
  MaxEvents,   \* bound: restarts and manifest changes of the applications
  MaxFails,    \* bound: remote calls that fail though the application is there
  MaxCrashes   \* bound: crashes of the security manager

OpNames ==
  {"InstallMembership", "RemoveMembership", "UpdatePolicy", "RemovePolicy",
   "UpdateIdentity", "RemoveGroup", "RemoveIdentity", "ResetApplication",
   "ResetUnmanaged", "RemoveApplication", "Claim", "UpdateApplications"}

ASSUME AppSyncAssumption ==
  /\ NoApp \notin Apps
  /\ Queue \notin Users \cup Callers
  /\ Users \cap Callers = {}
  /\ Nobody \notin Users \cup Callers \cup {Queue}
  /\ Managed \subseteq Apps
  /\ Joined \subseteq Groups
  /\ NoPolicy \notin Policies
  /\ Ops \subseteq OpNames
  /\ MaxOps \in Nat /\ MaxEvents \in Nat /\ MaxFails \in Nat /\ MaxCrashes \in Nat

VARIABLES
  row,       \* per application: its rows in the database
  serial,    \* the next serial number
  leak,      \* the thread that left StoreApplication with storageMutex locked
  counter,   \* UIStorageImpl::updateCounter
  lock,      \* UIStorageImpl::updateLock
  usr,       \* where each UI thread is
  upd,       \* where each thread that updates an application is
  pom,       \* ProxyObjectManager::lock
  queue,     \* the security events of ApplicationUpdater's queue
  heard,     \* what ApplicationMonitor (and the agent) knows of an application
  dev,       \* the remote applications
  spent      \* how much of the bounds is used up

vars == <<row, serial, leak, counter, lock, usr, upd, pom, queue, heard, dev, spent>>

------------------------------------------------------------------------------
(* Data *)

Updaters == Callers \cup {Queue}
Threads  == Users \cup Updaters

SyncStates == {"OK", "PENDING", "WILL_RESET"}
AppStates  == {"CLAIMABLE", "CLAIMED", "NEED_UPDATE"}

Certs    == [grp : Groups, ser : Nat]
Versions == [ver : Nat, val : Policies \cup {NoPolicy}]

\* Version 0: the default policy of an application, no policy in the storage.
DefaultPolicy == [ver |-> 0, val |-> NoPolicy]

\* managed: is there a row in the table of claimed applications?  The other
\* fields are meaningless without it: rows of other tables are deleted with it.
\* id = 0: the identity certificate was deleted with its identity.
Rows == [managed : BOOLEAN, sync : SyncStates, id : Nat, mf : Nat,
         mem : SUBSET Certs, pol : Versions]

NoRow == [managed |-> FALSE, sync |-> "OK", id |-> 0, mf |-> 0,
          mem |-> {}, pol |-> DefaultPolicy]

\* An application as StoreApplication, StoreCertificate and StoreManifest
\* leave it when it has been claimed with identity certificate n.
NewRow(n) == [NoRow EXCEPT !.managed = TRUE, !.id = n, !.mf = n]

OldCerts == {[grp |-> g, ser |-> 1] : g \in Joined}

\* bus is the number of the application's bus name, new at every start.
Devices == [up : BOOLEAN, bus : Nat, state : AppStates, id : Nat,
            mem : SUBSET Certs, pol : Versions]

\* The security settings of an application that is not claimed.
Unclaimed(d) == [d EXCEPT !.state = "CLAIMABLE", !.id = 0, !.mem = {}, !.pol = DefaultPolicy]

Infos  == [bus : Nat, state : AppStates]      \* bus 0: never heard of
Events == [app : Apps, bus : Nat, state : AppStates, old : AppStates \cup {"none"}]

UserPcs == {"idle", "storePolicy", "storeManifest", "claimed", "unclaim",
            "updated", "markPending", "reset", "notify"}

\* A call that changes several applications does each of the todo next.
Calls == [pc : UserPcs, app : Apps \cup {NoApp}, pol : Versions, ser : Nat,
          bump : BOOLEAN, todo : SUBSET Apps, each : {"updated", "reset"}]

NoCall == [pc |-> "idle", app |-> NoApp, pol |-> DefaultPolicy, ser |-> 0,
           bump |-> FALSE, todo |-> {}, each |-> "updated"]

UpdaterPcs == {"idle", "start", "readMemberships", "readIdentity", "readManifest",
               "readPolicy", "connect", "reset", "memberships", "identity",
               "policy", "report", "persist"}

\* bus and state are the snapshot of the event, sync and tx what StartUpdates
\* returned, the others what was read from the storage.
Jobs == [pc : UpdaterPcs, app : Apps \cup {NoApp}, bus : Nat, state : AppStates,
         sync : SyncStates \cup {"RESET"}, tx : Nat, mem : SUBSET Certs,
         id : Nat, mf : Nat, pol : Versions]

NoJob == [pc |-> "idle", app |-> NoApp, bus |-> 0, state |-> "CLAIMABLE",
          sync |-> "OK", tx |-> 0, mem |-> {}, id |-> 0, mf |-> 0,
          pol |-> DefaultPolicy]

Bounds == [ops : Nat, events : Nat, fails : Nat, crashes : Nat]

TypeOK ==
  /\ row \in [Apps -> Rows]
  /\ serial \in Nat
  /\ leak \in Threads \cup {Nobody}
  /\ counter \in Nat
  /\ lock \in Threads \cup {Nobody}
  /\ usr \in [Users -> Calls]
  /\ upd \in [Updaters -> Jobs]
  /\ pom \in Updaters \cup {Nobody}
  /\ queue \in Seq(Events)
  /\ heard \in [Apps -> Infos]
  /\ dev \in [Apps -> Devices]
  /\ spent \in Bounds

\* The database holds the claimed applications of an earlier session; all of
\* them are up to date, nothing was heard of any application yet.
Init ==
  /\ row = [a \in Apps |->
       IF a \in Managed THEN [NewRow(1) EXCEPT !.mem = OldCerts] ELSE NoRow]
  /\ serial = 2
  /\ leak = Nobody
  /\ counter = 0
  /\ lock = Nobody
  /\ usr = [x \in Users |-> NoCall]
  /\ upd = [u \in Updaters |-> NoJob]
  /\ pom = Nobody
  /\ queue = <<>>
  /\ heard = [a \in Apps |-> [bus |-> 0, state |-> "CLAIMABLE"]]
  /\ dev = [a \in Apps |->
       [up |-> TRUE, bus |-> 1, id |-> IF a \in Managed THEN 1 ELSE 0,
        state |-> IF a \in Managed THEN "CLAIMED" ELSE "CLAIMABLE",
        mem |-> IF a \in Managed THEN OldCerts ELSE {}, pol |-> DefaultPolicy]]
  /\ spent = [ops |-> 0, events |-> 0, fails |-> 0, crashes |-> 0]

------------------------------------------------------------------------------
(* Locks *)

\* Operations of SQLStorage wait for storageMutex, which is recursive.
Storage(t) == leak \in {Nobody, t}

\* Operations of UIStorageImpl that start with updateLock.Lock().
Locked(t) == lock = Nobody /\ Storage(t)

------------------------------------------------------------------------------
(* The UI: operations of UIStorageImpl *)

Starts(x, op) ==
  /\ op \in Ops
  /\ usr[x].pc = "idle"
  /\ spent.ops < MaxOps
  /\ spent' = [spent EXCEPT !.ops = @ + 1]

Call(x, pc, a) == [NoCall EXCEPT !.pc = pc, !.app = a]

Goto(x, pc) == usr' = [usr EXCEPT ![x].pc = pc]
Return(x)   == usr' = [usr EXCEPT ![x] = NoCall]

\* ApplicationUpdated(app, bump) comes next.
ThenUpdated(x, a, bump) ==
  usr' = [usr EXCEPT ![x] = [Call(x, "updated", a) EXCEPT !.bump = bump]]

\* Op comes next for one of the applications, then for the others.
ForEach(x, as, op) ==
  \E a \in as :
    usr' = [usr EXCEPT ![x] = [Call(x, op, a) EXCEPT
                                 !.bump = TRUE, !.todo = as \ {a}, !.each = op]]

\* The operation succeeded for an application; the call goes on with another.
Proceed(x) ==
  LET c == usr[x] IN
  \/ c.todo = {} /\ Return(x)
  \/ \E a \in c.todo :
       usr' = [usr EXCEPT ![x] = [c EXCEPT !.pc = c.each, !.app = a, !.todo = @ \ {a}]]

\* A new certificate is stored; the group has none for this application yet.
InstallMembership(x, a, g) ==
  /\ Starts(x, "InstallMembership")
  /\ Storage(x)
  /\ row[a].managed
  /\ \A c \in row[a].mem : c.grp # g
  /\ row' = [row EXCEPT ![a].mem = @ \cup {[grp |-> g, ser |-> serial]}]
  /\ serial' = serial + 1
  /\ ThenUpdated(x, a, TRUE)
  /\ UNCHANGED <<leak, counter, lock, upd, pom, queue, heard, dev>>

RemoveMembership(x, a, g) ==
  /\ Starts(x, "RemoveMembership")
  /\ Storage(x)
  /\ row[a].managed
  /\ \E c \in row[a].mem :
       /\ c.grp = g
       /\ row' = [row EXCEPT ![a].mem = @ \ {c}]
  /\ ThenUpdated(x, a, TRUE)
  /\ UNCHANGED <<serial, leak, counter, lock, upd, pom, queue, heard, dev>>

\* The stored version is read; the new policy gets the next one.
UpdatePolicy(x, a, p) ==
  /\ Starts(x, "UpdatePolicy")
  /\ Storage(x)
  /\ row[a].managed
  /\ usr' = [usr EXCEPT ![x] = [Call(x, "storePolicy", a) EXCEPT
                                 !.pol = [ver |-> row[a].pol.ver + 1, val |-> p]]]
  /\ UNCHANGED <<row, serial, leak, counter, lock, upd, pom, queue, heard, dev>>

\* An SQL UPDATE: without a row it changes nothing, and succeeds.
StorePolicy(x) ==
  LET a == usr[x].app IN
  /\ usr[x].pc = "storePolicy"
  /\ Storage(x)
  /\ row' = IF row[a].managed THEN [row EXCEPT ![a].pol = usr[x].pol] ELSE row
  /\ ThenUpdated(x, a, FALSE)
  /\ UNCHANGED <<serial, leak, counter, lock, upd, pom, queue, heard, dev, spent>>

RemovePolicy(x, a) ==
  /\ Starts(x, "RemovePolicy")
  /\ Storage(x)
  /\ row[a].managed
  /\ row' = [row EXCEPT ![a].pol = DefaultPolicy]
  /\ ThenUpdated(x, a, FALSE)
  /\ UNCHANGED <<serial, leak, counter, lock, upd, pom, queue, heard, dev>>

\* The certificate replaces the stored one, then the manifest is stored.
UpdateIdentity(x, a) ==
  /\ Starts(x, "UpdateIdentity")
  /\ Storage(x)
  /\ row[a].managed
  /\ row' = [row EXCEPT ![a].id = serial]
  /\ serial' = serial + 1
  /\ usr' = [usr EXCEPT ![x] = [Call(x, "storeManifest", a) EXCEPT !.ser = serial]]
  /\ UNCHANGED <<leak, counter, lock, upd, pom, queue, heard, dev>>

StoreManifest(x) ==
  LET a == usr[x].app IN
  /\ usr[x].pc = "storeManifest"
  /\ Storage(x)
  /\ row' = IF row[a].managed THEN [row EXCEPT ![a].mf = usr[x].ser] ELSE row
  /\ ThenUpdated(x, a, TRUE)
  /\ UNCHANGED <<serial, leak, counter, lock, upd, pom, queue, heard, dev, spent>>

\* The certificates are deleted with their group, in one statement.  A group
\* without members is of no interest here; it may be stored again at any time.
RemoveGroup(x, g) ==
  LET members == {a \in Apps : row[a].managed /\ \E c \in row[a].mem : c.grp = g} IN
  /\ Starts(x, "RemoveGroup")
  /\ Storage(x)
  /\ row' = [a \in Apps |-> [row[a] EXCEPT !.mem = {c \in @ : c.grp # g}]]
  /\ ForEach(x, members, "updated")
  /\ UNCHANGED <<serial, leak, counter, lock, upd, pom, queue, heard, dev>>

\* The same for an identity; any applications can be the ones that hold it.
RemoveIdentity(x, holders) ==
  /\ Starts(x, "RemoveIdentity")
  /\ Storage(x)
  /\ \A a \in holders : row[a].managed /\ row[a].id # 0
  /\ row' = [a \in Apps |-> IF a \in holders THEN [row[a] EXCEPT !.id = 0] ELSE row[a]]
  /\ ForEach(x, holders, "reset")
  /\ UNCHANGED <<serial, leak, counter, lock, upd, pom, queue, heard, dev>>

\* Mutant: the counter is not bumped.
ResetHolder_NoCount(x) ==
  LET a == usr[x].app IN
  /\ usr[x].pc = "reset"
  /\ Locked(x)
  /\ row[a].managed
  /\ row' = [row EXCEPT ![a].sync = "WILL_RESET"]
  /\ Goto(x, "notify")
  /\ UNCHANGED <<serial, leak, counter, lock, upd, pom, queue, heard, dev, spent>>

\* ResetApplication for an application that held the identity; if that fails,
\* the others are not reset.
ResetHolder(x) ==
  LET a == usr[x].app IN
  /\ usr[x].pc = "reset"
  /\ Locked(x)
  /\ counter' = counter + 1
  /\ \/ /\ row[a].managed
        /\ row' = [row EXCEPT ![a].sync = "WILL_RESET"]
        /\ Goto(x, "notify")
        /\ UNCHANGED leak
     \/ /\ ~row[a].managed
        /\ leak' = x
        /\ Return(x)
        /\ UNCHANGED row
  /\ UNCHANGED <<serial, lock, upd, pom, queue, heard, dev, spent>>

\* Mutant: the counter is not bumped.
ResetApplication_NoCount(x, a) ==
  /\ Starts(x, "ResetApplication")
  /\ Locked(x)
  /\ row[a].managed
  /\ row' = [row EXCEPT ![a].sync = "WILL_RESET"]
  /\ usr' = [usr EXCEPT ![x] = Call(x, "notify", a)]
  /\ UNCHANGED <<serial, leak, counter, lock, upd, pom, queue, heard, dev>>

\* The counter is bumped so that an update in progress will not complete.
ResetApplication(x, a) ==
  /\ Starts(x, "ResetApplication")
  /\ Locked(x)
  /\ row[a].managed
  /\ row' = [row EXCEPT ![a].sync = "WILL_RESET"]
  /\ counter' = counter + 1
  /\ usr' = [usr EXCEPT ![x] = Call(x, "notify", a)]
  /\ UNCHANGED <<serial, leak, lock, upd, pom, queue, heard, dev>>

\* StoreApplication(app, true) does not find the application, and returns
\* without unlocking storageMutex.
ResetUnmanaged(x, a) ==
  /\ Starts(x, "ResetUnmanaged")
  /\ Locked(x)
  /\ ~row[a].managed
  /\ leak' = x
  /\ counter' = counter + 1
  /\ UNCHANGED <<row, serial, lock, usr, upd, pom, queue, heard, dev>>

\* Not under updateLock.
RemoveApplication(x, a) ==
  /\ Starts(x, "RemoveApplication")
  /\ Storage(x)
  /\ row' = [row EXCEPT ![a] = NoRow]
  /\ UNCHANGED <<serial, leak, counter, lock, usr, upd, pom, queue, heard, dev>>

\* SecurityAgentImpl::Claim up to the remote call, for the agent's user.
Claim(x, a) ==
  /\ Starts(x, "Claim")
  /\ Storage(x)
  /\ pom = Nobody
  /\ heard[a].bus = dev[a].bus /\ dev[a].up /\ dev[a].state = "CLAIMABLE"
  /\ dev' = [dev EXCEPT ![a].state = "CLAIMED", ![a].id = serial]
  /\ serial' = serial + 1
  /\ usr' = [usr EXCEPT ![x] = [Call(x, "claimed", a) EXCEPT !.ser = serial]]
  /\ UNCHANGED <<row, leak, counter, lock, upd, pom, queue, heard>>

\* FinishApplicationClaiming: the insertion fails if there is a row already,
\* and the application is reset again.
FinishClaiming(x) ==
  LET a == usr[x].app IN
  /\ usr[x].pc = "claimed"
  /\ Storage(x)
  /\ \/ /\ ~row[a].managed
        /\ row' = [row EXCEPT ![a] = NewRow(usr[x].ser)]
        /\ Return(x)
     \/ /\ row[a].managed
        /\ Goto(x, "unclaim")
        /\ UNCHANGED row
  /\ UNCHANGED <<serial, leak, counter, lock, upd, pom, queue, heard, dev, spent>>

Unclaim(x) ==
  LET a == usr[x].app IN
  /\ usr[x].pc = "unclaim"
  /\ pom = Nobody
  /\ dev' = IF dev[a].up THEN [dev EXCEPT ![a] = Unclaimed(@)] ELSE dev
  /\ Return(x)
  /\ UNCHANGED <<row, serial, leak, counter, lock, upd, pom, queue, heard, spent>>

\* Mutant: the counter counts changes from OK to PENDING only.
ApplicationUpdated_CountsPending(x) ==
  LET a == usr[x].app IN
  /\ usr[x].pc = "updated"
  /\ Locked(x)
  /\ \/ /\ ~row[a].managed
        /\ Return(x)
        /\ UNCHANGED <<counter, lock>>
     \/ /\ row[a].managed
        /\ \/ row[a].sync = "OK" /\ Goto(x, "markPending") /\ lock' = x /\ counter' = counter + 1
           \/ row[a].sync # "OK" /\ Goto(x, "notify") /\ UNCHANGED <<counter, lock>>
  /\ UNCHANGED <<row, serial, leak, upd, pom, queue, heard, dev, spent>>

\* ApplicationUpdated, up to the switch on the state of the application.
ApplicationUpdated(x) ==
  LET a == usr[x].app IN
  /\ usr[x].pc = "updated"
  /\ Locked(x)
  /\ \/ /\ ~row[a].managed
        /\ Return(x)
        /\ UNCHANGED <<counter, lock>>
     \/ /\ row[a].managed
        /\ counter' = counter + 1
        /\ \/ row[a].sync = "OK" /\ Goto(x, "markPending") /\ lock' = x
           \/ row[a].sync # "OK" /\ Goto(x, "notify") /\ UNCHANGED lock
  /\ UNCHANGED <<row, serial, leak, upd, pom, queue, heard, dev, spent>>

\* A policy that is stored gets a new version, so that it is sent again.
Bumped(p) == IF p.ver = 0 THEN p ELSE [p EXCEPT !.ver = @ + 1]

\* Mutant: updateLock is not unlocked.
MarkPending_KeepsLock(x) ==
  LET a == usr[x].app IN
  /\ usr[x].pc = "markPending"
  /\ Storage(x)
  /\ \/ /\ row[a].managed
        /\ row' = [row EXCEPT ![a].sync = "PENDING",
                              ![a].pol = IF usr[x].bump THEN Bumped(@) ELSE @]
        /\ UNCHANGED leak
     \/ /\ ~row[a].managed
        /\ leak' = x
        /\ UNCHANGED row
  /\ Goto(x, "notify")
  /\ UNCHANGED <<serial, counter, lock, upd, pom, queue, heard, dev, spent>>

\* StoreApplication(app, true, bump): updateLock is still locked, but
\* RemoveApplication does not take it.
MarkPending(x) ==
  LET a == usr[x].app IN
  /\ usr[x].pc = "markPending"
  /\ Storage(x)
  /\ \/ /\ row[a].managed
        /\ row' = [row EXCEPT ![a].sync = "PENDING",
                              ![a].pol = IF usr[x].bump THEN Bumped(@) ELSE @]
        /\ Goto(x, "notify")
        /\ UNCHANGED leak
     \/ /\ ~row[a].managed
        /\ leak' = x
        /\ usr' = [usr EXCEPT ![x] = Call(x, "notify", a)]
        /\ UNCHANGED row
  /\ lock' = Nobody
  /\ UNCHANGED <<serial, counter, upd, pom, queue, heard, dev, spent>>

\* NotifyListeners(PENDING_CHANGES): ApplicationUpdater::OnPendingChanges adds
\* a task with what the monitor knows of the application.
NotifyPending(x) ==
  LET a == usr[x].app
      e == [app |-> a, bus |-> heard[a].bus, state |-> heard[a].state, old |-> "none"]
  IN
  /\ usr[x].pc = "notify"
  /\ queue' = IF heard[a].bus # 0 THEN Append(queue, e) ELSE queue
  /\ Proceed(x)
  /\ UNCHANGED <<row, serial, leak, counter, lock, upd, pom, heard, dev, spent>>

User(x) ==
  \/ \E a \in Apps :
       \/ \E g \in Groups : InstallMembership(x, a, g) \/ RemoveMembership(x, a, g)
       \/ \E p \in Policies : UpdatePolicy(x, a, p)
       \/ RemovePolicy(x, a)
       \/ UpdateIdentity(x, a)
       \/ ResetApplication(x, a)
       \/ ResetUnmanaged(x, a)
       \/ RemoveApplication(x, a)
       \/ Claim(x, a)
  \/ \E g \in Groups : RemoveGroup(x, g)
  \/ \E as \in SUBSET Apps : RemoveIdentity(x, as)
  \/ ResetHolder(x)
  \/ StorePolicy(x)
  \/ StoreManifest(x)
  \/ FinishClaiming(x)
  \/ Unclaim(x)
  \/ ApplicationUpdated(x)
  \/ MarkPending(x)
  \/ NotifyPending(x)

------------------------------------------------------------------------------
(* ApplicationUpdater: UpdateApplication, run by the queue's thread and by    *)
(* callers of UpdateApplications                                              *)

Step(u, r) == upd' = [upd EXCEPT ![u] = r]

Job(a, bus, state) == [NoJob EXCEPT !.pc = "start", !.app = a, !.bus = bus, !.state = state]

\* What was read from the storage is forgotten.
Report(j, s) == [Job(j.app, j.bus, j.state) EXCEPT !.pc = "report", !.sync = s, !.tx = j.tx]

\* Mutant: only changes to NEED_UPDATE.
NeedsUpdate_OnlyNeedUpdate(e) == e.old # "NEED_UPDATE" /\ e.state = "NEED_UPDATE"

\* HandleTask looks only at new bus names and at changes to NEED_UPDATE.
NeedsUpdate(e) == e.old = "none" \/ (e.old # "NEED_UPDATE" /\ e.state = "NEED_UPDATE")

TakeEvent ==
  /\ upd[Queue].pc = "idle"
  /\ queue # <<>>
  /\ queue' = Tail(queue)
  /\ LET e == Head(queue) IN
       Step(Queue, IF NeedsUpdate(e) THEN Job(e.app, e.bus, e.state) ELSE NoJob)
  /\ UNCHANGED <<row, serial, leak, counter, lock, usr, pom, heard, dev, spent>>

\* SecurityAgent::UpdateApplications for an application that is known to be
\* claimed, with what the monitor knows of it.
DirectCall(u, a) ==
  /\ "UpdateApplications" \in Ops
  /\ upd[u].pc = "idle"
  /\ spent.ops < MaxOps
  /\ spent' = [spent EXCEPT !.ops = @ + 1]
  /\ heard[a].bus # 0 /\ heard[a].state = "CLAIMED"
  /\ Step(u, Job(a, heard[a].bus, heard[a].state))
  /\ UNCHANGED <<row, serial, leak, counter, lock, usr, pom, queue, heard, dev>>

\* The head of the loop of UpdateApplication for a job of which sync and tx
\* were just read.  An application that is known not to be claimed is reset
\* already; it cannot be updated, and the call returns without a report.
Round(j) ==
  CASE j.sync = "WILL_RESET" /\ j.state = "CLAIMABLE" -> Report(j, "RESET")
    [] j.sync = "WILL_RESET" /\ j.state # "CLAIMABLE" -> [j EXCEPT !.pc = "connect"]
    [] j.sync # "WILL_RESET" /\ j.state = "CLAIMABLE" -> NoJob
    [] j.sync # "WILL_RESET" /\ j.state # "CLAIMABLE" -> [j EXCEPT !.pc = "readMemberships"]

NewRound(j) == Round([j EXCEPT !.sync = row[j.app].sync, !.tx = counter])

\* Mutant: applications without pending changes are not looked at.
StartUpdates_OnlyPending(u) ==
  LET j == upd[u] IN
  /\ j.pc = "start"
  /\ Locked(u)
  /\ Step(u, IF row[j.app].managed /\ row[j.app].sync # "OK" THEN NewRound(j) ELSE NoJob)
  /\ UNCHANGED <<row, serial, leak, counter, lock, usr, pom, queue, heard, dev, spent>>

StartUpdates(u) ==
  LET j == upd[u] IN
  /\ j.pc = "start"
  /\ Locked(u)
  /\ Step(u, IF row[j.app].managed THEN NewRound(j) ELSE NoJob)
  /\ UNCHANGED <<row, serial, leak, counter, lock, usr, pom, queue, heard, dev, spent>>

\* The storage is read without updateLock, in four critical sections.
ReadMemberships(u) ==
  LET j == upd[u] IN
  /\ j.pc = "readMemberships"
  /\ Storage(u)
  /\ Step(u, [j EXCEPT !.pc = "readIdentity", !.mem = row[j.app].mem])
  /\ UNCHANGED <<row, serial, leak, counter, lock, usr, pom, queue, heard, dev, spent>>

ReadIdentity(u) ==
  LET j == upd[u] IN
  /\ j.pc = "readIdentity"
  /\ Storage(u)
  /\ Step(u, IF row[j.app].managed /\ row[j.app].id # 0
             THEN [j EXCEPT !.pc = "readManifest", !.id = row[j.app].id]
             ELSE NoJob)
  /\ UNCHANGED <<row, serial, leak, counter, lock, usr, pom, queue, heard, dev, spent>>

ReadManifest(u) ==
  LET j == upd[u] IN
  /\ j.pc = "readManifest"
  /\ Storage(u)
  /\ Step(u, IF row[j.app].managed
             THEN [j EXCEPT !.pc = "readPolicy", !.mf = row[j.app].mf]
             ELSE NoJob)
  /\ UNCHANGED <<row, serial, leak, counter, lock, usr, pom, queue, heard, dev, spent>>

\* An application that is gone has no policy.
ReadPolicy(u) ==
  LET j == upd[u] IN
  /\ j.pc = "readPolicy"
  /\ Storage(u)
  /\ Step(u, [j EXCEPT !.pc = "connect", !.pol = row[j.app].pol])
  /\ UNCHANGED <<row, serial, leak, counter, lock, usr, pom, queue, heard, dev, spent>>

\* GetProxyObject: the lock is held until the proxy object is destroyed.
Connect(u) ==
  LET j == upd[u] IN
  /\ j.pc = "connect"
  /\ pom = Nobody
  /\ dev[j.app].up /\ dev[j.app].bus = j.bus
  /\ pom' = u
  /\ Step(u, [j EXCEPT !.pc = IF j.sync = "WILL_RESET" THEN "reset" ELSE "memberships"])
  /\ UNCHANGED <<row, serial, leak, counter, lock, usr, queue, heard, dev, spent>>

MayFail ==
  /\ spent.fails < MaxFails
  /\ spent' = [spent EXCEPT !.fails = @ + 1]

\* Mutant: the application counts as reset even though it cannot be reached.
ConnectFails_CountsAsReset(u) ==
  LET j == upd[u] IN
  /\ j.pc = "connect"
  /\ pom = Nobody
  /\ \/ dev[j.app].up /\ dev[j.app].bus = j.bus /\ MayFail
     \/ ~(dev[j.app].up /\ dev[j.app].bus = j.bus) /\ UNCHANGED spent
  /\ Step(u, IF j.sync = "WILL_RESET" THEN Report(j, "RESET") ELSE NoJob)
  /\ UNCHANGED <<row, serial, leak, counter, lock, usr, pom, queue, heard, dev>>

\* JoinSession fails.  Only ResetApplication goes on to the report.
ConnectFails(u) ==
  LET j == upd[u] IN
  /\ j.pc = "connect"
  /\ pom = Nobody
  /\ \/ dev[j.app].up /\ dev[j.app].bus = j.bus /\ MayFail
     \/ ~(dev[j.app].up /\ dev[j.app].bus = j.bus) /\ UNCHANGED spent
  /\ Step(u, IF j.sync = "WILL_RESET" THEN Report(j, j.sync) ELSE NoJob)
  /\ UNCHANGED <<row, serial, leak, counter, lock, usr, pom, queue, heard, dev>>

------------------------------------------------------------------------------
(* Calls of the remote application.  While the proxy object exists, no other  *)
(* thread changes dev[a]: what was read of it stays true, unless it restarts. *)

\* An application that is not claimed does not know the security manager.
Reachable(j) ==
  LET d == dev[j.app] IN d.up /\ d.bus = j.bus /\ d.state # "CLAIMABLE"

\* After a failed call the state that StartUpdates returned is reported.
GiveUp(u) ==
  /\ Step(u, Report(upd[u], upd[u].sync))
  /\ pom' = Nobody

\* The call makes d of the application and takes the job to r; or it fails;
\* or only its answer is lost.
RemoteCall(u, d, r) ==
  LET j == upd[u]
      done == [dev EXCEPT ![j.app] = d]
  IN
  /\ \/ /\ Reachable(j)
        /\ dev' = done
        /\ Step(u, r)
        /\ pom' = IF r.pc = "report" THEN Nobody ELSE pom
        /\ UNCHANGED spent
     \/ /\ Reachable(j)
        /\ MayFail
        /\ dev' \in {dev, done}
        /\ GiveUp(u)
     \/ /\ ~Reachable(j)
        /\ GiveUp(u)
        /\ UNCHANGED <<dev, spent>>
  /\ UNCHANGED <<row, serial, leak, counter, lock, usr, queue, heard>>

\* The application is there and refuses what it is asked, or it is not there.
Refused(u) ==
  /\ GiveUp(u)
  /\ UNCHANGED <<row, serial, leak, counter, lock, usr, queue, heard, dev, spent>>

InstallMissingMemberships(u) ==
  LET j == upd[u]
      d == dev[j.app]
  IN
  /\ j.pc = "memberships"
  /\ \E c \in j.mem \ d.mem : RemoteCall(u, [d EXCEPT !.mem = @ \cup {c}], j)

RemoveRedundantMemberships(u) ==
  LET j == upd[u]
      d == dev[j.app]
  IN
  /\ j.pc = "memberships"
  /\ j.mem \subseteq d.mem
  /\ \E c \in d.mem \ j.mem : RemoteCall(u, [d EXCEPT !.mem = @ \ {c}], j)

MembershipsDone(u) ==
  LET j == upd[u]
      d == dev[j.app]
  IN
  /\ j.pc = "memberships"
  /\ j.mem = d.mem
  /\ RemoteCall(u, d, [j EXCEPT !.pc = "identity"])

\* The application accepts a certificate only with the manifest it was issued
\* for; its state is CLAIMED again then.
ApplyIdentity(u) ==
  LET j == upd[u]
      d == dev[j.app]
      r == [j EXCEPT !.pc = "policy"]
  IN
  /\ j.pc = "identity"
  /\ \/ d.id = j.id /\ RemoteCall(u, d, r)
     \/ /\ d.id # j.id /\ j.mf = j.id
        /\ RemoteCall(u, [d EXCEPT !.id = j.id, !.state = "CLAIMED"], r)
     \/ d.id # j.id /\ j.mf # j.id /\ Refused(u)

\* Versions are compared only.  Without a local policy the default policy is
\* restored; a policy is accepted only if it is newer.
ApplyPolicy(u) ==
  LET j == upd[u]
      d == dev[j.app]
      r == Report(j, "OK")
  IN
  /\ j.pc = "policy"
  /\ \/ j.pol.ver = d.pol.ver /\ RemoteCall(u, d, r)
     \/ /\ j.pol.ver = 0 \/ j.pol.ver > d.pol.ver
        /\ j.pol.ver # d.pol.ver
        /\ RemoteCall(u, [d EXCEPT !.pol = j.pol], r)
     \/ 0 < j.pol.ver /\ j.pol.ver < d.pol.ver /\ Refused(u)

ResetRemote(u) ==
  LET j == upd[u] IN
  /\ j.pc = "reset"
  /\ RemoteCall(u, Unclaimed(dev[j.app]), Report(j, "RESET"))

------------------------------------------------------------------------------
(* UpdatesCompleted *)

\* Mutant: the reported state is stored, the application is not removed.
CompletedReset_Stored(u) ==
  LET j == upd[u] IN
  /\ j.pc = "report" /\ j.sync = "RESET"
  /\ Locked(u)
  /\ row' = [row EXCEPT ![j.app].sync = j.sync]
  /\ Step(u, NoJob)
  /\ UNCHANGED <<serial, leak, counter, lock, usr, pom, queue, heard, dev, spent>>

\* The application was reset: it is removed.
CompletedReset(u) ==
  LET j == upd[u] IN
  /\ j.pc = "report" /\ j.sync = "RESET"
  /\ Locked(u)
  /\ row' = [row EXCEPT ![j.app] = NoRow]
  /\ Step(u, NoJob)
  /\ UNCHANGED <<serial, leak, counter, lock, usr, pom, queue, heard, dev, spent>>

\* The counter has changed since StartUpdates: the updates start again.
CompletedRestart(u) ==
  LET j == upd[u] IN
  /\ j.pc = "report" /\ j.sync = "OK"
  /\ Locked(u)
  /\ row[j.app].managed
  /\ j.tx # counter
  /\ Step(u, NewRound(j))
  /\ UNCHANGED <<row, serial, leak, counter, lock, usr, pom, queue, heard, dev, spent>>

\* Mutant: the counter is not compared.
CompletedOK_AnyCounter(u) ==
  LET j == upd[u] IN
  /\ j.pc = "report" /\ j.sync = "OK"
  /\ Locked(u)
  /\ row[j.app].managed
  /\ lock' = u
  /\ Step(u, [j EXCEPT !.pc = "persist"])
  /\ UNCHANGED <<row, serial, leak, counter, usr, pom, queue, heard, dev, spent>>

\* Nothing has changed: the state is persisted next.
CompletedOK(u) ==
  LET j == upd[u] IN
  /\ j.pc = "report" /\ j.sync = "OK"
  /\ Locked(u)
  /\ row[j.app].managed
  /\ j.tx = counter
  /\ lock' = u
  /\ Step(u, [j EXCEPT !.pc = "persist"])
  /\ UNCHANGED <<row, serial, leak, counter, usr, pom, queue, heard, dev, spent>>

\* The application is gone, or it was not updated: nothing to record.
CompletedNothing(u) ==
  LET j == upd[u] IN
  /\ j.pc = "report"
  /\ lock = Nobody
  /\ \/ j.sync = "OK" /\ Storage(u) /\ ~row[j.app].managed
     \/ j.sync \in {"PENDING", "WILL_RESET"}
  /\ Step(u, NoJob)
  /\ UNCHANGED <<row, serial, leak, counter, lock, usr, pom, queue, heard, dev, spent>>

\* StoreApplication(managedApp, true); see MarkPending.
Persist(u) ==
  LET j == upd[u]
      a == j.app
  IN
  /\ j.pc = "persist"
  /\ Storage(u)
  /\ \/ row[a].managed /\ row' = [row EXCEPT ![a].sync = "OK"] /\ UNCHANGED leak
     \/ ~row[a].managed /\ leak' = u /\ UNCHANGED row
  /\ lock' = Nobody
  /\ Step(u, NoJob)
  /\ UNCHANGED <<serial, counter, usr, pom, queue, heard, dev, spent>>

Updater(u) ==
  \/ u = Queue /\ TakeEvent
  \/ u # Queue /\ \E a \in Apps : DirectCall(u, a)
  \/ StartUpdates(u)
  \/ ReadMemberships(u)
  \/ ReadIdentity(u)
  \/ ReadManifest(u)
  \/ ReadPolicy(u)
  \/ Connect(u)
  \/ ConnectFails(u)
  \/ InstallMissingMemberships(u)
  \/ RemoveRedundantMemberships(u)
  \/ MembershipsDone(u)
  \/ ApplyIdentity(u)
  \/ ApplyPolicy(u)
  \/ ResetRemote(u)
  \/ CompletedReset(u)
  \/ CompletedRestart(u)
  \/ CompletedOK(u)
  \/ CompletedNothing(u)
  \/ Persist(u)

------------------------------------------------------------------------------
(* Applications *)

\* ApplicationMonitor::State.  The signal is sessionless: only the latest
\* state of an application is delivered.
State(a) ==
  LET d == dev[a]
      h == heard[a]
      e == [app |-> a, bus |-> d.bus, state |-> d.state,
            old |-> IF h.bus = d.bus THEN h.state ELSE "none"]
  IN
  /\ d.up
  /\ h # [bus |-> d.bus, state |-> d.state]
  /\ heard' = [heard EXCEPT ![a] = [bus |-> d.bus, state |-> d.state]]
  /\ queue' = Append(queue, e)
  /\ UNCHANGED <<row, serial, leak, counter, lock, usr, upd, pom, dev, spent>>

AppEvent ==
  /\ spent.events < MaxEvents
  /\ spent' = [spent EXCEPT !.events = @ + 1]
  /\ UNCHANGED <<row, serial, leak, counter, lock, usr, upd, pom, queue, heard>>

AppStops(a) ==
  /\ dev[a].up
  /\ dev' = [dev EXCEPT ![a].up = FALSE]
  /\ AppEvent

\* The application has a new manifest template.
AppNeedsUpdate(a) ==
  /\ dev[a].up /\ dev[a].state = "CLAIMED"
  /\ dev' = [dev EXCEPT ![a].state = "NEED_UPDATE"]
  /\ AppEvent

AppStarts(a) ==
  /\ ~dev[a].up
  /\ dev' = [dev EXCEPT ![a].up = TRUE, ![a].bus = @ + 1]
  /\ UNCHANGED <<row, serial, leak, counter, lock, usr, upd, pom, queue, heard, spent>>

\* What is not in the database or in the applications is lost.
Crash ==
  /\ spent.crashes < MaxCrashes
  /\ spent' = [spent EXCEPT !.crashes = @ + 1]
  /\ leak' = Nobody
  /\ counter' = 0
  /\ lock' = Nobody
  /\ usr' = [x \in Users |-> NoCall]
  /\ upd' = [u \in Updaters |-> NoJob]
  /\ pom' = Nobody
  /\ queue' = <<>>
  /\ heard' = [a \in Apps |-> [bus |-> 0, state |-> "CLAIMABLE"]]
  /\ UNCHANGED <<row, serial, dev>>

------------------------------------------------------------------------------

Next ==
  \/ \E x \in Users : User(x)
  \/ \E u \in Updaters : Updater(u)
  \/ \E a \in Apps : State(a) \/ AppStops(a) \/ AppNeedsUpdate(a) \/ AppStarts(a)
  \/ Crash

Spec == Init /\ [][Next]_vars

\* Threads that are inside a call go on, the queue is drained, an application
\* that is there is heard of and one that has stopped comes back.  Nobody is
\* obliged to start a call, to crash or to stop.
Fairness ==
  /\ \A x \in Users : WF_vars(usr[x].pc # "idle" /\ User(x))
  /\ WF_vars(Updater(Queue))
  /\ \A u \in Callers : WF_vars(upd[u].pc # "idle" /\ Updater(u))
  /\ \A a \in Apps : WF_vars(State(a)) /\ WF_vars(AppStarts(a))

FairSpec == Spec /\ Fairness

------------------------------------------------------------------------------
(* Properties *)

InSync(a) ==
  /\ dev[a].id = row[a].id
  /\ dev[a].mem = row[a].mem
  /\ dev[a].pol = row[a].pol

\* No call that changes the configuration of the application is under way,
\* and nobody is updating it.
Quiet(a) ==
  /\ \A x \in Users : usr[x].app # a /\ a \notin usr[x].todo
  /\ \A u \in Updaters : upd[u].app # a

\* "There are no pending changes": when the state of an application is OK,
\* and nothing is under way for it, the application has exactly the
\* configuration in the storage.
SyncedWhenOK ==
  \A a \in Apps : row[a].managed /\ row[a].sync = "OK" /\ Quiet(a) => InSync(a)

\* A request to reset an application is never overwritten by an update that
\* was under way or by a later change of its configuration: the application
\* stays WILL_RESET until it is removed.
ResetIsKept ==
  [][\A a \in Apps :
       row[a].managed /\ row[a].sync = "WILL_RESET" /\ row'[a].managed
         => row'[a].sync = "WILL_RESET"]_vars

\* When an identity is removed, every application that held it loses its
\* certificate at once, and is bound to be reset: it never stays managed without
\* an identity.
NoIdentityIsReset ==
  \A a \in Apps : row[a].managed /\ row[a].id = 0 =>
    \/ row[a].sync = "WILL_RESET"
    \/ \E x \in Users : LET c == usr[x] IN
         \/ c.pc = "reset" /\ c.app = a
         \/ c.each = "reset" /\ a \in c.todo

\* An application is removed from the storage by the agent only when it really
\* was reset: it has not kept the certificates and the policy of its owner.
RemovedMeansReset ==
  [][\A u \in Updaters : CompletedReset(u) =>
       dev[upd[u].app].state = "CLAIMABLE"]_vars

\* Once a change of an application's configuration or its reset is pending, it
\* is eventually applied, or the application is removed.
PendingIsApplied ==
  \A a \in Apps : (row[a].managed /\ row[a].sync # "OK")
                    ~> (~row[a].managed \/ row[a].sync = "OK")

\* Applications end up with what is in the storage.
Converges ==
  <>[](\A a \in Apps : row[a].managed => InSync(a) /\ row[a].sync = "OK")

\* Every call of the UI returns.
CallsReturn == \A x \in Users : (usr[x].pc # "idle") ~> (usr[x].pc = "idle")

==============================================================================
