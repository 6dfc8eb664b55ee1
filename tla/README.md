# A TLA+ model of the AllJoyn security manager

The repository is the security manager of AllJoyn: a *security agent* that finds applications on
the bus, claims them and keeps their security configuration up to date, and a *storage* that
remembers what that configuration is to be. This directory holds TLA+ modules translated from
its source, the TLC configurations that check them, and proofs checked by TLAPS.

    tlc -workers 2 -config AppSync.cfg AppSync
    tlc -workers 2 -config Claiming.cfg MCClaiming
    tlc -workers 2 -config Console.cfg Console
    tlapm AppSyncProofs.tla

`PROJECT.json` lists the runs, which lines of the source each definition stands for, the
mutations of definitions that each property is tried against, the hazards and the theorems.

## 1. Inventory

### Components

| component | state | operations | talks to |
|---|---|---|---|
| `TaskQueue` (`agent/src/TaskQueue.h`) | list of tasks, `running`, `stopped`, a thread, a mutex, a condition | `AddTask`, `HandleTasks` on its thread, `Stop` | its handler: `ApplicationUpdater`, `SecurityAgentImpl` |
| `ApplicationUpdater` | the queue of security events | `OnSecurityStateChange`, `OnPendingChanges`, `HandleTask`, `UpdateApplication` | reads `AgentCAStorage`, calls applications through `ProxyObjectManager`, reports to `AgentCAStorage` |
| `UIStorageImpl` | `updateCounter` under `updateLock`, storage listeners | changes of the UI, `StartUpdates`, `UpdatesCompleted`, `ApplicationClaimed` | `SQLStorage`, `AJNCaStorage`, the agent (as listener) |
| `SQLStorage` | an SQLite database under `storageMutex` | one operation per row or certificate | - |
| `AJNCaStorage` | the cache of certificates of claims in progress | `StartApplicationClaiming`, `FinishApplicationClaiming`, reads | `SQLStorage`, `AJNCa`, `UIStorageImpl` |
| `SecurityAgentImpl` | map of online applications, `pendingClaims`, listeners, a task queue | `Claim`, `UpdateApplications`, `OnSecurityStateChange`, listeners | all of the above |
| `ApplicationMonitor` | map from bus name to what was last heard | `State` (a sessionless signal), listeners | `ApplicationUpdater`, `SecurityAgentImpl` |
| `ProxyObjectManager` | one lock; the key exchange of the bus attachment | `GetProxyObject`, remote calls, release | remote applications |
| `Manifest`, `ManifestUpdate` | rules, and the same rules as bytes | set, copy, difference | `Util` for the bytes |
| `PolicyUtil`, `PolicyGenerator` | the blacklist of keys | normalise, generate | `Util` |
| `CertificateUtil`, `Util` | one bus attachment per process | `Init`, `Fini`, conversions | - |
| `AJNCa` | a key pair in a file, the public key in memory | load, generate, sign | `AJNCaStorage` |
| factories | one storage, one agent factory | `GetStorage`, `GetSecurityAgent` | - |
| CLI sample (`samples/cli`) | keys, names, queue of manifest updates, a policy generator | commands | `UIStorage`, `SecurityAgent`, as their listener |
| multipeer test program (`agent/test/multipeer_claim`) | states of its peers, two locks, three kinds of threads | claim, change, check and reset each peer | `UIStorage`, `SecurityAgent`, as their listener |
| listener interfaces, unit tests | - | - | - |

The other directories of the repository hold the applications and tests that use these.

### What is hard, and what makes each part correct

- **TaskQueue.** Its thread ends itself when the list is empty, and is started again by the next
  task; the starter joins the old thread *with the mutex locked*, and may itself be a handler.
  Correct: one handler at a time, first in first out, no task left without a thread, no join that
  cannot end, nothing handled once `Stop` has returned, and `Stop` returns.
- **Synchronisation** (`UIStorageImpl`, `ApplicationUpdater`, `SQLStorage`, the monitor).
  A change is written to the database, then marked, then announced, in separate critical sections;
  an update reads the database in four critical sections, talks to an application that may stop,
  refuse or answer into the void, and then reports. A counter shared by all applications tells
  whether something changed in between. Correct: `SYNC_OK` means that the application has what
  the database says; a reset that was asked for is not forgotten; an application is forgotten only
  when it was reset; pending changes arrive in the end.
- **Claiming.** Six calls in three components, each of which can fail; the certificate waits in a
  cache while the application is claimed. Correct: what is claimed is in the database with the
  right certificate, a failed claim leaves nothing behind on either side, `Claim` returns.
- **The agent's view** (`SecurityAgentImpl`'s map, the monitor, the notifications of the storage).
  The map is filled from signals, from lookups and from notifications, which are sent outside the
  locks and can overtake one another; an agent is made and destroyed while they are under way.
  Correct: when all is quiet the agent reports what is the case and nothing is left pending, and no
  callback comes after the destructor.
- **What the storage refers to** (groups, identities, certificates, serial numbers, the authority's
  keys). Lookups come long before what they justify is stored; a process may stop anywhere; the
  user answers slowly. Correct: certificates have owners and verify, serial numbers are given once,
  rights are those the user accepted, and the tool asks for the next command, unless a call has left
  `storageMutex` locked.
- **Manifests and policies.** A manifest is kept twice; `Util` may be unable to serialise; the map
  of `NormalizePolicy` has a comparison that is not an order. Correct: no right is granted that was
  not shown, differences are exact, normalising keeps every right, and a policy says who may.
- **Sessions.** The security settings belong to the bus attachment, which all threads share.
  Correct: each call goes out with the settings its own thread asked for, and after a change
  securing the connection again was tried first.
- **The stress test.** Callbacks that take locks, late events, threads that claim and check.
  Correct: no call of its own fails because of the order of its threads, its success is complete,
  and it ends.

## 2. The modules

| module | what it is |
|---|---|
| `TaskQueue` | `TaskQueue.h`, one action per stretch of code between two points where the mutex is taken, waited for or released |
| `FifoServer` | what a task queue promises: tasks are begun in order, one at a time, until it is stopped |
| `TaskQueueProofs` | proofs about `TaskQueue`, including that it implements `FifoServer` |
| `AppSync` | storage, updater, monitor and applications together |
| `AppSyncProofs` | proofs about `AppSync`: types, that a requested reset is kept, and that an application that is OK has its configuration |
| `ResetProofs` | proofs about `AppSync`: what is removed was reset, and what lost its identity is reset |
| `Claiming` | `SecurityAgentImpl::Claim`, `AJNCaStorage`'s cache, `ApplicationClaimed`, and applications |
| `MCClaiming` | a value for the function `AgentOf` of `Claiming` |
| `ClaimService` | what a claim promises: it is one step, or nothing |
| `ClaimingProofs` | proofs about `Claiming`, including that it implements `ClaimService` |
| `AgentView` | `SecurityAgentImpl`'s map and life, `ApplicationMonitor`, `ApplicationUpdater`'s queue and the notifications of `UIStorageImpl`, over storage and applications in coarse steps |
| `AgentViewProofs` | proofs about `AgentView` |
| `Registry` | the tables of `SQLStorage`, `UIStorageImpl` and `AJNCaStorage` on them, `AJNCa`, and the start of a process |
| `Console` | the CLI sample, composed with `Registry` |
| `ConsoleProofs` | proofs about `Registry` and `Console` |
| `Manifests` | `Manifest`, `Util`, and a manifest update from the application to the storage |
| `Policies` | `PolicyGenerator` with the commands about policies, and `PolicyUtil` |
| `Sessions` | `ProxyObjectManager` |
| `Parts` | `Manifests`, `Policies` and `Sessions` side by side, with small values for their constants |
| `PartsProofs` | proofs about `Manifests`, `Sessions` and `Policies` |
| `MultiPeer` | the multipeer test program, over an agent in coarse steps |
| `MultiPeerProofs` | proofs about `MultiPeer` |

### TaskQueue

State: the members of the class (`tasks`, `running`, `stopped`, the thread), what each thread is
doing, and who waits for the condition. Callers are any threads that call `AddTask`, the handler
itself among them. `StartMayFail` says whether `Thread::Start` may fail. A spurious wakeup is an
action of its own. The abstract `FifoServer` is reached by the mapping at the end of the module:
a task is added when it is in the list and begun when it is taken out.

### AppSync

- `row[a]` is everything the database has on an application: the state `sync`, the identity
  certificate `id`, the certificate the stored manifest belongs to (`mf`), membership certificates
  `mem`, and the policy `pol`. Certificates are their serial numbers.
- `usr[x]` is where a thread of the UI is in a call. The calls are split where the code leaves
  `storageMutex` or `updateLock`: the change itself (`InstallMembership`, ..., `RemoveIdentity`),
  then `ApplicationUpdated` (counts, and decides by the state read), `MarkPending`
  (`StoreApplication(app, true)` with `updateLock` still held), `NotifyPending` (outside the lock).
  `RemoveGroup` and `RemoveIdentity` delete in one SQL statement and then go through their
  applications (`todo`), stopping at the first failure as `ApplicationsUpdated` does.
- `upd[u]` is where a thread is in `UpdateApplication`: `StartUpdates`, four reads, `Connect`
  (takes `pom`, the lock of `ProxyObjectManager`), one action per remote call, and the cases of
  `UpdatesCompleted`. The queue's thread takes events from `queue`; other threads come from
  `SecurityAgent::UpdateApplications` (`DirectCall`).
- `leak` is the thread that left `StoreApplication` with `storageMutex` locked; the mutex is
  recursive, so that thread goes on and all others block.
- `heard[a]` is what the monitor knows; `State` delivers only the latest state, as a sessionless
  signal does. `dev[a]` is the application: bus name (a number, new at each start), state,
  certificates, policy. The applications are external, modelled from how the code uses them and
  from what its tests expect of them: they refuse a policy that is not newer
  (`ApplicationUpdaterTests.cc:419`), and an identity certificate with another manifest's digest.
- A remote call succeeds, or is carried out with its answer lost, or fails (`RemoteCall`), or the
  application is gone; `MaxFails` bounds failures of applications that are there.
- `Crash` forgets everything but the database and the applications, at any step.

Abstractions. Version 0 of a policy is "none"; `UpdatePolicy` with version 0 is modelled (a caller
that chooses versions itself is not). `UpdateApplications` uses what the monitor knows at the call. A
group may be stored again at any time. Any set of applications may be the holders of an identity
that is removed. The journal of the database is off (`PRAGMA journal_mode = OFF`): a crash *inside*
an SQL statement is not modelled.

### Claiming

The rows of an application (`row`), the cache of `AJNCaStorage` (`cached`), the list of
`PendingClaim` per agent (`pending`), the lock of the agent's `ProxyObjectManager` (`pom`), where
each thread is (`th`), and applications (`dev`). One action per critical section, per remote call
and per call of the listener. What can go wrong: sessions that cannot be joined (the application
stopped, or came back under another name), calls that fail, answers that are lost, a listener that
rejects, an operation of the database or of the CA that fails, an application that its user
resets, a row that the UI removes in the middle, a crash.

`strayed` is a history variable: applications that were taken out of `Claim`'s hands, so that no
program could keep the database and the application equal - the answer was lost, the application
could not be reached to be reset, the UI removed it, the row could not be removed, the process
crashed during the claim. The invariants are about the others. An application that is in `strayed`
stays there; `SuccessIsStored` and `ClaimReturns` do not use it.

`ClaimService` says the same to somebody who looks on from outside: an application gets a fresh
certificate and its row in one step, or nothing happens to it, unless it is lost. In the mapping at
the end of `Claiming`, the certificate an application has does not count while the call that
installed it has not returned (`SeenInstalled`), nor do the rows that call is writing
(`SeenRecorded`); the step that is seen is the one with which the call succeeds. `issued` are the
serial numbers below the next one, and `lost` is `strayed`. This is stronger than an invariant
about applications at rest: a call that overwrote an existing row and put it back when it
failed would be found by it alone.

The two models overlap in `Claim`: `AppSync` has it in three steps (remote claim, storing, undoing),
enough for its interplay with updates and resets.

### AgentView

The path of a piece of news has three sources. A `State` signal goes to the monitor (`heard`), which
calls its listeners one by one with its lock kept (`bus`): the agent, which looks an unknown
application up in the storage and inserts it in a second critical section, and the updater, which
queues a job. A call of the UI changes `row` and the counter under `updateLock`, and then, outside it,
calls the listeners of the storage with `listenerLock` kept (`th[t].pc = "tell"`): the updater
queues a job for the bus name in the agent's map, the agent changes what it reports. And the end of
an update does the same. `agent` is how far `Init` or the destructor are; each registration waits for
the lock of the place it registers with. What an update does to an application is one step here,
and in detail in `AppSync`.

Some combinations make the agent report something else for ever; they are behaviours of the code,
and the constants that allow them are set apart, so that the run asks about the rest:

- `Alone`: a call of these kinds is made only while no other call and no update is under way. Otherwise
  a REMOVED that overtakes the ADDED of a claim, or the other way round, leaves a managed application
  reported as unmanaged (`UIStorageImpl.cc:203`) - also the REMOVED at the end of an update that
  resets, for which it takes three calls; a notification of a reset that comes after one of the
  removal leaves an unmanaged application reported as to be reset; and a claim is made for an
  application that the agent still reports as managed.
- `EarlyUse`: calls before `Init` is done, when a change between the lookups of the replay and the
  registration with the storage (`SecurityAgentImpl.cc:331`) is not heard of; and changes of an
  application that was claimed but not yet heard to be, whose update is dropped.
- `MayStayDown`: `UpdateApplications` reports `SYNC_OK` first (`ApplicationUpdater.cc:429`); if the
  application cannot be reached this stands until it starts again.

### Registry and Console

`Registry` has the tables as functions: `groups`, `identities`, `apps`, `idCerts`, `members` and the
next serial number, `-1` when there is none. Each call of `SQLStorage` is one step with
`storageMutex`, but `GetNewSerialNumber` is two, since a crash may come between its two statements.
A call of `UIStorageImpl` is a sequence of steps, and `th[t]` is where it is: signing (`serial`,
`sign`, then `next`), storing a certificate, marking the applications one by one (`Marks`:
`ResetApplication`, or `ApplicationUpdated` and `StorePending` with `updateLock`, which a thread in
`pend` keeps). As in `AppSync`, `leak` is the thread that left `StoreApplication` with
`storageMutex` locked, because the application was removed or the storage wiped meanwhile; it may
lock the mutex again, all others wait for ever (`Free`). Foreign keys and primary keys make statements fail as in the database, cascades remove what refers to a row.
`file` is the key file of the authority with the part that is written, `selfClaimed` what the
agent's key store remembers. The process starts in the order of the factories and `Init`, and may
stop at any step; `disk` survives.

`Console` is the tool: its main thread, the one of `Registry` that starts the process, waits for a
command, and is at a question to the user in `ask` and `decide`. What it hears comes on other
threads. `accepted` records which manifests the user was shown and accepted. `Others` are threads of
other users of the storage. Commands that only show something are left out.

Behaviours of this code that the properties do not forbid:

- A crash while `AJNCa::Init` writes the key file leaves half a file, and no later process starts
  (`NoCa`). A crash between the agent's claim of itself and the installation of its membership
  leaves it without one for ever. Two processes that start for the first time at once are not
  modelled.
- `unclaim_application` stops if the storage knows that there is no such application, but not if
  the storage cannot be read; `ResetApplication` is a later step (`Unclaim`). After a wipe, or if
  another thread removes the application in between, it leaves `storageMutex` locked, and so do
  `RemoveIdentity` for the holders it resets and an update of an application that was there a
  moment before. Hence `CommandsEnd`, which is about every thread, says that a start, a command or a
  call ends or somebody has leaked the mutex; it is what `app_sync_leak` is about.
- After `Reset` the serial numbers begin at 1 again while the key of the authority stays;
  `SerialsAreUnique` counts from the last wipe. Nothing opens the database again before the next
  start, and the destructor closes it a second time.
- After a restart the tool knows no application that is not online, and its queue of manifest
  updates and the blacklist are gone. An update is taken from the queue before the user decides and
  is lost if there is no identity. An old update, decided on after the application was claimed
  again, goes back to the older manifest - one that the user accepted.

### Manifests, Policies, Sessions

`Manifests` follows one application that asks for other rights: `ReadStored`, `ReadTemplate` and
`Compare` in the updater, the event in the agent's queue, the listener's copy, the decision. A
`Manifest` is a pair of rules and bytes; `SetFromRules` changes the first before the second is known
to succeed, and a copy is made from the bytes. `ba` is `Util`'s bus attachment, which may be missing
from the start, since the agent goes on when `Util::Init` fails. There is one agent: `Util` is
one per process, so that a second agent that ends takes the bus attachment from the first
(`MultiAgentAppTests.cc:284` sets it again). Rules and their members are sets, as their order means
nothing to this code. The difference (`Left`, `Remaining`, `Subtract`) goes by rule and by member as in
the code: a member without actions stays if no rule on the other side is about the same object, and
goes otherwise. `OffersAreExact` compares it with a difference of sets of rights.

`Policies` has the generator as a function of blacklist and groups, within the commands that install
and reset policies, and `NormalizePolicy` as a state machine: each insertion into the map may end
at any place a search can end at (`LowerBounds`), because the comparison orders two keys both
ways when the first field is less and the second greater. So a normalised policy may be unsorted, or
hold one object or member twice, whatever `PolicyUtil.h:30-36` says of "alphabetically"; no right is
lost, and where keys are comparable the result is sorted (`NormalIsSorted`).

`Sessions` has the lock of `ProxyObjectManager`, the settings of the last `EnablePeerSecurity`, and a
proxy per thread. Its `conn` is a history variable: the connection is secured, or the configuration of
the application has changed since, or securing it again was refused. `CheckReAuthenticate` drops
the status of `SecureConnection` (`ProxyObjectManager.cc:436`), so that a call goes out over the old
connection then; `CallsAreSecured` forbids only that it goes out without the attempt.

### MultiPeer

The manager's callback is `handler`, its claiming task `claimer`, its checking tasks `checker`, its
loop `poll`; `appslock` and `actionLock` are taken and released as in the code, across
the steps of the callback. The agent below is in coarse steps (what can happen in between is
`AgentView`'s). `localbus` is the validator bus, an application in the manager's own process:
`localstate`, where `ClaimLocalBus` is with its three calls, and the updates and events of the agent that
concern it. It counts as initialised after every change that was sent, so that checks can begin
between its membership and its policy; that such a check is answered is taken as given. `StartDelay`
stands for the 5 seconds that `main` waits after it has started the manager
(`multipeer_claim.cc:139-141`): where it is `TRUE` the peers start when the validator bus is done, or has failed. `failed` counts
the calls and starts of processes that fail; `callFailed` says that it was a call made by a
callback or a task of the manager. `Impatient` lets the manager count ten seconds while
something is still going on.

`CallsSucceed` is about these calls: none fails for another reason than a fault. It is not about the
error that the agent's own queue may report: a claim, of a peer or of the validator bus, can
overtake the job that was queued when the application was claimable; the agent then has a
configuration for an application that looks claimable, `OnSyncError` sets `errorFound`, and the test
fails although nothing is wrong - a race of the program with its agent that the model has
(`early` in `StartUpdates`, `~heard` in `UpdateLocalBus`), and that `ProgramEnds` allows.

What the model shows of this program beyond its properties: if `fork` or `AllJoynInit` fails in `main`, it
returns at once (`multipeer_claim.cc:135-138`, `143-145`) and leaves the processes that it has started to
themselves (`main = "left"`); the manager ends all the same, the peers wait for ever, and `ProgramEnds`
promises no more than that. `main` compares the pids of its children
with the status that `waitpid` returned, so that a child that ended is killed again; peers never end
by themselves; `CheckApplicationUpdated` tests the number of memberships where its message speaks of
the version of the policy, so that a peer is reset without a look at its policy
(`MPSecurityMngr.cc:242-255`, against `MPSecurityMngr.h:108-109`).

## 3. The runs

Passing:

| run | question |
|---|---|
| `task_queue` | all properties of `TaskQueue`, refinement of `FifoServer`, liveness |
| `app_sync` | one application, six operations, a restart, a failed or unanswered call: `SyncedWhenOK`, `RemovedMeansReset` |
| `app_sync_shared` | two applications and two UI threads sharing the counter, the queue and a group: `SyncedWhenOK` |
| `app_sync_identity` | identities of up to two applications are removed by two threads while the applications are changed and updated: `NoIdentityIsReset` |
| `app_sync_live` | a restart and a crash at any step: `PendingIsApplied`, `Converges`, `CallsReturn` |
| `app_sync_all` | every operation with a second updating thread and a crash: `ResetIsKept` |
| `claiming` | two threads, two applications, three claims, with failures, a stop or reset, and a crash: `ClaimIsRecorded`, `SuccessIsStored`, refinement of `ClaimService` (`ClaimsAreAtomic`), `ClaimReturns` |
| `agent_view` | one application, an agent from start to end, two calls of two threads: `SettledViewIsTrue`, `SettledIsApplied`, `GoneIsQuiet`, `DestroyedIsGone` |
| `console` | the tool and another thread, with a stop at any step and a wipe: `SerialsAreUnique`, `CertsHaveOwners`, `CertsVerify`, `OnlyAcceptedRights`, `CommandsEnd` (of both threads, but for the leak of `storageMutex`) |
| `parts` | manifests (`OnlyShownRights`, `OffersAreExact`), policies (`PoliciesSayWho`, `NormalKeepsRights`, `NormalIsSorted`) and sessions (`CallsAreSecured`) |
| `multipeer` | a manager and two peers that start when it is ready, at most one fault: `CallsSucceed`, `SuccessIsComplete`, `ProgramEnds` |

Violated, which shows a disagreement of the code with what is written about it (see
`findings` in `PROJECT.json` for the lines):

| run | what happens |
|---|---|
| `app_sync_leak` | `ResetApplication` for an application that is not managed keeps `storageMutex` locked: all other threads hang |

Further behaviours of the code that were seen while modelling and are kept out of the passing runs:

- With `Claim` and `ResetApplication` among the `Ops`, a reset right after a claim takes the
  application, known as `CLAIMABLE`, for reset (`ApplicationUpdater.cc:38`); it is removed from the
  database, and stays claimed (`RemovedMeansReset`).
- `RemovePolicy` forgets the version; a later policy can get the version that the application
  already has (`ApplicationUpdater.cc:110`), and is not sent (`SyncedWhenOK`).
- With one of the `Callers`, `UpdateApplications` and the queue update the same application; the
  older configuration is written last, and the state is `SYNC_OK` (`SyncedWhenOK`).
- With two UI threads and two applications, `RemoveGroup` stops at a member that was removed
  meanwhile (`UIStorageImpl.cc:478`); the others keep the membership and `SYNC_OK`.
- `UpdateIdentity` writes the certificate and the manifest separately: a crash in between makes
  the application refuse the update for ever (`Converges`; `app_sync_live` leaves the operation out).
- Two threads in `UpdatePolicy` can give two policies the same version (`SyncedWhenOK`; `app_sync`
  has one UI thread).
- A change made right after a claim, before the signal of the new state, is dropped
  (`ApplicationUpdater.cc:331`); it is applied when the application starts again. The runs with
  `PendingIsApplied` start with a claimed application.
- If `RemoveIdentity` meets an application that was removed meanwhile, it leaks `storageMutex` like
  `ResetApplication`, and the remaining holders are left without an identity. Nobody needs to remove
  the application by hand: one thread removes the identity of two applications, another one gives the
  first a new certificate and removes that identity too; the first application is reset and removed
  before the first thread comes to it, whose call fails there and never resets the second
  (`NoIdentityIsReset`, with `UpdateIdentity` and three operations). `app_sync_identity` has neither.
- If `Thread::Start` fails, the queue believes it has a thread (`RunningIsOneThread` with
  `StartMayFail = TRUE`).
- `Claim` does not call `FinishApplicationClaiming` when the second session cannot be joined; the
  certificate stays in the cache. It does no harm, as the next claim of the application replaces it.
- The cache is keyed by application and shared by agents, while `PendingClaim` is per agent. With
  threads of two agents TLC finds `SuccessIsStored` violated: the second agent replaces the
  certificate cached by the first, whose own claim then succeeds, and stores the wrong one.
- A crash between the three operations of `ApplicationClaimed` leaves a row without a certificate.

### Bounds, and why they are enough

The interesting schedules need two threads on one application, or one thread and one update, and one
disturbance. `MaxOps` = 2 or 3 changes let a change come before, during and after an update of
another one; every mutation listed in `PROJECT.json` is found within them. Two applications are
what the shared counter, the shared queue, groups and identities need, and a third would only
repeat the second; `app_sync` and `app_sync_live` look at one application, since there the
applications interact only through the counter, which `app_sync_shared` covers. One restart and
one failure per behaviour can be put at any step. `Claiming` has three claims, so that two threads
meet while an earlier attempt has left its certificate in the cache, and two failures, so that the
undoing of a failed claim can fail as well.

`AgentView` has one application: entries of the map, rows and jobs of two share the locks
and the order of notifications only, which two threads calling for one application contend for
already. Two calls are enough for one to overtake the other. `Console` has one of each object,
since certificates relate one application to one group or identity, and lookups are
separated from their uses by other calls, of which there are two; serial numbers have three bits, and
`MaxSigned` keeps within them as 32 bits do (a thread begins to sign only if there is a number left
for it and for every other thread). `Parts` has templates in which members repeat, are
missing and differ, two groups and two keys, and access control lists of two rules or three
members over keys that the comparison cannot order. Two peers in `MultiPeer` make one
peer's events arrive while the other is claimed. One fault, of any call or process, is enough to stop
every stage of the test; the behaviours without one are those that `CallsSucceed` is about. Peers that start
before the manager is ready (`StartDelay = FALSE`) are covered by the theorems about the two
invariants (section 4) and make too many states for a liveness property. Operations, events, failures and crashes are counted in
`spent`.

`CHECK_DEADLOCK FALSE` is set where the system may come to rest: all bounded operations done,
nothing pending. That nobody *waits* for ever is stated by `CallsReturn`, `ClaimReturns`,
`StopReturns`, `AddedIsHandled`, `DestroyedIsGone` and
`CommandsEnd`. `MultiPeer` is checked for deadlock.

### Fairness

Threads that are inside a call go on (weak fairness of the thread's steps, not of single actions:
a thread is given processor time by the operating system, and waits only for locks); a queue's
thread works while there are tasks; signals arrive and an application that stopped comes back, which
is what `SYNC_PENDING` ("when it comes online") is about. Nobody is obliged to begin a call, to stop
or to crash. Weak fairness is enough for the locks because the number of calls is bounded; nothing
is claimed about starvation by an endless stream of calls. In `Claiming` remote calls end, as they
do by AllJoyn's timeout, and the listener answers. In `AgentView` an agent that began to start or to be
destroyed goes on; in `Console` the user answers a question but need not give a command; in
`MultiPeer` no process stands still while one of its threads can go on.

## 4. What is proved

All theorems hold for any sets of threads, applications, tasks, groups and policies and for any
bounds; the assumptions on constants are the named `ASSUME`s of the modules.

- `TaskQueueProofs`: `TypeCorrect`, `RunningIsTrue`, `JoinIsSafe`, `NoTaskForgotten`, `StopIsFinal`
  and `QueueIsFifo` (refinement of `FifoServer`), under `StartMayFail = FALSE`. The inductive
  invariant has three parts besides the types: `PointerInv` (if `running`, the thread that the
  pointer names is alive in the loop; otherwise it is leaving or has ended; all others are gone),
  `MutexInv` (who joins holds the mutex, and `running` is false), `StopInv` (a stopped queue that
  does not run is empty; tasks without a thread have a caller that is about to start one).
- `AppSyncProofs!TypeCorrect` and `ResetKept` (`Spec => []TypeOK`, `Spec => ResetIsKept`).
  `ResetIsKept` is about a step, and not inductive: `MarkPending` and `Persist` write a state that
  was chosen in an earlier step. The invariant `KeptInv` records what these threads know. While a
  thread is about to write, it has `updateLock` and no reset of the application is requested, since
  every request takes that lock. And for an update that found no request, `tx <= counter`, with
  `tx < counter` once there is one: every request bumps the counter, so that the comparison in
  `UpdatesCompleted` cannot succeed after it.
- `AppSyncProofs!ConfigurationIsApplied`: `Guarded => (Spec => []SyncedWhenOK)`. The invariant `SInv`
  relates four things that no lock keeps together: what the queue's thread has read (`ReadIsStored`,
  as long as nothing has changed since `StartUpdates`, `Latest`), what the application has of it
  already (`JobInv`, membership by membership, identity, policy), the calls that have changed a
  row and not come to the counter yet (`ChangedBy`, `MarkedBy`, `CallInv`), and the state of the row
  (`AppInv`: if it is OK and no call is on its way to change that, the application is in
  sync). A change either comes to the counter before the report, and the round starts again, or after
  it, and then finds `SYNC_OK` and replaces it. `Older` says that the application never has a newer
  policy than the storage, so that comparing versions is comparing policies.
  Each part of the hypothesis `Guarded` is needed, and TLC has a counterexample without it: no crash
  (the change is stored, the mark is not), no `RemovePolicy`, one thread if policies are changed, no
  caller of `UpdateApplications` beside the queue, no `Claim` together with resets and removals, and not a
  removal of a group or identity of several applications together with what lets it stop half-way.
  Any number of applications, groups, policies, other threads, restarts and failed or unanswered calls
  is allowed.
- `ResetProofs!RemovedIsReset`: `Spec => RemovedMeansReset`, if `"Claim" \notin Ops`, for any threads,
  callers, failures and crashes. An update may find an application reset already, by an earlier call
  whose answer was lost or by another thread, or believe the monitor that it is. `FreeInv` says that
  all such knowledge, in the monitor (`HeardInv`), in queued events (`QueueInv`) and in jobs
  (`WorkerInv`), may be old, but stays true while nobody claims. With `Claim` it is false: an
  application that was reset is claimed again before the report, and removed though it is claimed.
- `ResetProofs!HoldersAreReset`: `Spec => []NoIdentityIsReset`, without crashes, if nobody resets,
  removes, claims or re-certifies applications meanwhile (`Alone`), or if there is only one. `IdInv`
  adds to the property that calls are in one of two shapes (`ShapeInv`: one that resets
  holders, or one that does not), that an application is to be reset by one call at most and is managed,
  without identity and not yet `WILL_RESET` until then (`HoldInv`), and that an update that
  resets an application does so because its row says so (`DueInv`), so that no holder disappears under
  the call. A crash in the middle of the call loses the other holders.
- `ClaimingProofs!TypeCorrect`, and, when all threads are of one agent, `OneAgentStoresItsOwn`
  (`Spec => SuccessIsStored`), `NoClaimIsLost` (`Spec => []ClaimIsRecorded`) and `ClaimIsOneStep`
  (`Spec => ClaimsAreAtomic`). For the first, `Exclusive`: calls of an agent that are
  under way are of different applications, and each is in `pendingClaims`; and `HandedOn`: the
  certificate of a claim is in the cache from `Connect` to `FinishClaiming`, then in the thread, and
  before the manifest is stored in the row, unless the UI has removed it. The first part makes the
  second inductive: nobody else writes this application's place in the cache or its row. For the
  second, `RecordInv` adds `Tracked`: an application that no call is about, and that has not
  strayed, is recorded and its row whole; if a call is about it, `Progress` says for each step of the
  call which of the two sides is ahead of the other. For the refinement, `Numbered` adds that
  certificates are numbered in order, and that the one of a call under way is no other application's
  and no other call's; every step of a call but the one with which it succeeds is a stutter to the
  onlooker (`StepUnseen`), and that one is a `Claim` (`SuccessIsClaim`). With two agents it is false
  (section 3).
- `ConsoleProofs`: `TypeCorrect`, `OwnersAreThere` (`CertsHaveOwners`), `RightsAreAccepted`
  (`OnlyAcceptedRights`), `CertificatesVerify` (`CertsVerify`) and `SerialNumbersDiffer`
  (`SerialsAreUnique`), for any sets of objects, any threads besides the tool's, any number of stops and
  wipes. `CertsHaveOwners` is inductive with the types: what the lookups promised long ago is
  not needed, as the foreign keys check it again. The others need what threads carry. `ThreadRights`: a
  thread past the question has a manifest that was accepted. `KeyInv` with `Quiet` and `Fresh`: before
  the key file is complete there is no certificate and no thread on its way to one, so that the
  key is generated once. `SerialInv`: the numbers signed are the first ones in order, the next is in the
  table or in the one thread that has `storageMutex` (`Numbered`, `Locked`), and there is one for
  each thread about to sign, a start that is made again after a stop included (`Room`, `StartRoom`).
  This needs that no more are signed than `Width` bits can number.
- `PartsProofs!TypeCorrect` and `EveryCallIsSecured`: for any number of threads,
  `SessionSpec => []CallsAreSecured`. The invariant has three parts: a thread that has a session is
  the one with the lock (`OneSession`), the bus has the settings of that session and none of a claim
  otherwise (`BusOfSession`), and a change since the connection was secured is known (`ChangeIsKnown`).
- `PartsProofs!RightsAreKept` (`PolicySpec => []NormalKeepsRights`) and `NormalIsInOrder`
  (`PolicySpec => []NormalIsSorted`), for any list of rules (keys are pairs of integers, the ranks
  of the two fields). The lemma that matters is `FoundIsSame`: keys of which neither is less are
  equal, although `Less` is not an order, so that a search that finds something has found its own
  key and a merge gives no right to another object. `OpenIsInMap` says that the entry that members
  are added to is the one of their rule, and `KeysAreGiven` that no key is made up, since
  `NormalIsSorted` is only about keys that can be compared. That normalising ends is not part of it.
- `PartsProofs!PoliciesAreExact`: `PolicySpec => PoliciesSayWho`, for any keys, groups and blacklist, of
  policies that name up to two groups (`Requests`); the lemma `DefaultPolicySaysWho` is about any number.

- `PartsProofs!RightsAreShown` (`ManifestSpec => []OnlyShownRights`) and `UpdatesAreExact`
  (`ManifestSpec => []OffersAreExact`), for any set of manifests that templates can be made of and any
  number of events. The lemma `SubtractIsExact` says that the rights of the difference are the
  difference of the rights, for every two manifests: `RightsAre`, `LeftIs` and `RemainingIs` take
  it apart. The invariant `MInv` adds what the steps between rely on: a job under way
  means that there is a bus attachment (`JobHasBus`), the manifests of a job have bytes, and the
  stored one was shown to the user (`JobIsWhole`), and so was the older manifest of an update on its way
  (`OffersAreShown`): to show what the newer one adds is to show all of it.
- `MultiPeerProofs`: `TypeCorrect`, `OwnCallsSucceed` (`FairSpec => []CallsSucceed`) and
  `SuccessMeansDone` (`FairSpec => []SuccessIsComplete`), for any number of peers and faults, with `StartDelay` or without, `Impatient` or not. Neither is
  inductive: the manager counts what it was told, in callbacks that come later than what they tell.
  The invariant follows each peer through its stages, and says which news of it are still
  to be delivered and in which order, what the claiming task has in hand, and which thread holds which
  of the two locks. Thus what is claimed is still claimable, what is updated is stored, and the news
  that changes are pending, or were sent, are true when the manager acts on them. All of this
  holds while the manager runs (`Alive`).
- `AgentViewProofs`: `TypeCorrect`, `GoneAgentsAreQuiet` (`Spec => GoneIsQuiet`),
  `SettledViewsAreTrue` (`=> []SettledViewIsTrue`) and `SettledChangesAreApplied`
  (`=> []SettledIsApplied`), for any threads, calls and applications. The first needs who is registered
  with whom in each phase, and that a lock is kept during callbacks: who unregisters waits for the
  callbacks under way. The properties about settled views speak of a state with nothing on
  its way, so that their invariant has to say what is on its way in all the others: what was heard last
  is known to the agent but for what is just being delivered (`Known`, with `News`), and each
  managed application has all of its changes or another update of it is to come (`Followed`). They
  have a hypothesis, `Careful`: no calls before `Init` is done (`EarlyUse`), and removals, wipes and
  claims only when nothing else is under way (`Alone`). Without either, the agent may be wrong for
  ever (section 2). The constants of the run satisfy it.

Every invariant and every action property of the passing runs is stated by one of these theorems, and
so are the two refinements. Only model-checked are the properties about what must happen at last
(`AddedIsHandled`, `StopReturns`, `PendingIsApplied`, `Converges`, `CallsReturn`, `ClaimReturns`,
`DestroyedIsGone`, `CommandsEnd`, `ProgramEnds`), as fairness and `ENABLED` are beyond the prover. The
theorems with hypotheses say no more than the code does: what it does without them is in sections 2 and
3. No module uses a `RECURSIVE` operator.

## 5. What is not modelled

- The fields of certificates and keys beyond whom they name and who signed them; logging.
- Listener interfaces and the unit tests, which have no behaviour of their own beyond what is
  modelled with the code that calls them or that they call.
- Listeners of the agent that are added and removed while events are delivered.
- What a crash inside an SQL statement leaves (the journal is off), and two processes that start for
  the first time with one storage.
- The data race on the map of applications in `UpdateApplications` (`SecurityAgentImpl.cc:735`),
  whose outcomes cannot be enumerated.
- Two agents in one process that share `Util` and the cache of claims, beyond what is said above.

## 6. Plan

1. Done: `TaskQueue`, `AppSync`, `Claiming`, `AgentView`, `Registry` with `Console`, `Manifests`,
   `Policies`, `Sessions`, `MultiPeer`.
2. Done: theorems for every invariant and action property of the runs; refinement of `FifoServer` by
   `TaskQueue` and of `ClaimService` by `Claiming`.
3. Left: an abstract specification of the agent's view, which `AgentView` implements when it is
   at rest; two agents that share the cache of claims and `Util`, once the code says who owns an
   entry; liveness, should the prover come to support it.
