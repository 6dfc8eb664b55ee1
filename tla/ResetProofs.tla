----------------------------- MODULE ResetProofs -----------------------------
(***************************************************************************)
(* Proofs about the resets of AppSync, on top of AppSyncProofs: only an    *)
(* application that was reset is removed from the storage, and no          *)
(* application stays there without an identity and without a reset.        *)
(***************************************************************************)
EXTENDS AppSyncProofs

LEMMA Appended ==
  ASSUME NEW S, NEW q \in Seq(S), NEW e \in S, NEW i \in DOMAIN Append(q, e)
  PROVE  Append(q, e)[i] = e \/ (i \in DOMAIN q /\ Append(q, e)[i] = q[i])
OBVIOUS

LEMMA TailOf ==
  ASSUME NEW S, NEW q \in Seq(S), q # <<>>
  PROVE  /\ 1 \in DOMAIN q /\ Head(q) = q[1] /\ Tail(q) \in Seq(S)
         /\ \A i \in DOMAIN Tail(q) : i + 1 \in DOMAIN q /\ Tail(q)[i] = q[i + 1]
OBVIOUS

------------------------------------------------------------------------------
(* An application that is not claimed stays so, as nobody claims any.  What   *)
(* the security manager believes of an application may be old, but the belief *)
(* that it is not claimed stays true.                                         *)

Free(a) == dev[a].state = "CLAIMABLE"

HeardInv == \A a \in Apps : heard[a].bus # 0 /\ heard[a].state = "CLAIMABLE" => Free(a)

QueueInv == \A i \in DOMAIN queue : queue[i].state = "CLAIMABLE" => Free(queue[i].app)

WorkerInv(u) ==
  upd[u].pc # "idle" /\ (upd[u].state = "CLAIMABLE" \/ upd[u].sync = "RESET")
    => Free(upd[u].app)

FreeInv ==
  /\ Typed
  /\ HeardInv
  /\ QueueInv
  /\ \A u \in Updaters : WorkerInv(u)

FreeStays == \A a \in Apps : Free(a) => Free(a)'

LEMMA RemoteFree ==
  ASSUME Typed, NEW u \in Updaters, NEW d, NEW r, RemoteCall(u, d, r)
  PROVE  FreeStays
<1>1. dev \in [Apps -> Devices]
  BY DEF Typed, TypeOK
<1>2. \/ dev' = dev
      \/ dev[upd[u].app].state # "CLAIMABLE" /\ dev' = [dev EXCEPT ![upd[u].app] = d]
  BY DEF RemoteCall, Reachable
<1> QED
  BY <1>1, <1>2 DEF FreeStays, Free

LEMMA UserFree ==
  ASSUME "Claim" \notin Ops, Typed, NEW x \in Users, User(x)
  PROVE  FreeStays
<1>1. dev \in [Apps -> Devices]
  BY DEF Typed, TypeOK
<1>2. \A a \in Apps : ~Claim(x, a)
  BY DEF Claim, Starts
<1>3. CASE Unclaim(x)
  <2>1. dev' = dev \/ dev' = [dev EXCEPT ![usr[x].app] = Unclaimed(dev[usr[x].app])]
    BY <1>3 DEF Unclaim
  <2>2. usr[x].app \in Apps
    BY <1>3 DEF Unclaim, Typed, WorkInv
  <2>3. Unclaimed(dev[usr[x].app]).state = "CLAIMABLE"
    BY <1>1, <2>2 DEF Unclaimed, Devices
  <2> QED
    BY <1>1, <2>1, <2>3 DEF FreeStays, Free
<1>4. CASE dev' = dev
  BY <1>4 DEF FreeStays, Free
<1> QED
  BY <1>2, <1>3, <1>4
  DEF User, InstallMembership, RemoveMembership, UpdatePolicy, RemovePolicy, UpdateIdentity,
      ResetApplication, ResetUnmanaged, RemoveApplication, RemoveGroup, RemoveIdentity,
      ResetHolder, StorePolicy, StoreManifest, FinishClaiming, ApplicationUpdated,
      MarkPending, NotifyPending

LEMMA UpdaterFree ==
  ASSUME Typed, NEW u \in Updaters, Updater(u)
  PROVE  FreeStays
<1>1. CASE dev' = dev
  BY <1>1 DEF FreeStays, Free
<1>2. CASE \E d, r : RemoteCall(u, d, r)
  BY <1>2, RemoteFree
<1>3. ASSUME ApplyIdentity(u) PROVE dev' = dev \/ \E d, r : RemoteCall(u, d, r)
  BY <1>3 DEF ApplyIdentity, Refused
<1>4. ASSUME ApplyPolicy(u) PROVE dev' = dev \/ \E d, r : RemoteCall(u, d, r)
  BY <1>4 DEF ApplyPolicy, Refused
<1>5. ASSUME \/ InstallMissingMemberships(u) \/ RemoveRedundantMemberships(u)
             \/ MembershipsDone(u) \/ ResetRemote(u)
      PROVE  \E d, r : RemoteCall(u, d, r)
  BY <1>5 DEF InstallMissingMemberships, RemoveRedundantMemberships, MembershipsDone, ResetRemote
<1>6. ASSUME \/ TakeEvent \/ \E a \in Apps : DirectCall(u, a)
             \/ StartUpdates(u) \/ ReadMemberships(u) \/ ReadIdentity(u)
             \/ ReadManifest(u) \/ ReadPolicy(u) \/ Connect(u) \/ ConnectFails(u)
             \/ CompletedReset(u) \/ CompletedRestart(u) \/ CompletedOK(u)
             \/ CompletedNothing(u) \/ Persist(u)
      PROVE  dev' = dev
  BY <1>6 DEF TakeEvent, DirectCall, StartUpdates, ReadMemberships, ReadIdentity,
     ReadManifest, ReadPolicy, Connect, ConnectFails, CompletedReset, CompletedRestart,
     CompletedOK, CompletedNothing, Persist
<1> QED
  BY <1>1, <1>2, <1>3, <1>4, <1>5, <1>6 DEF Updater

LEMMA AppFree ==
  ASSUME Typed, NEW a \in Apps, State(a) \/ AppStops(a) \/ AppNeedsUpdate(a) \/ AppStarts(a)
  PROVE  FreeStays
<1>1. dev \in [Apps -> Devices]
  BY DEF Typed, TypeOK
<1>2. \/ dev' = dev
      \/ dev' = [dev EXCEPT ![a].up = FALSE]
      \/ dev[a].state = "CLAIMED" /\ dev' = [dev EXCEPT ![a].state = "NEED_UPDATE"]
      \/ dev' = [dev EXCEPT ![a].up = TRUE, ![a].bus = @ + 1]
  BY DEF State, AppStops, AppNeedsUpdate, AppStarts
<1> QED
  BY <1>1, <1>2 DEF FreeStays, Free, Devices

LEMMA FreeStep ==
  ASSUME "Claim" \notin Ops, Typed, [Next]_vars
  PROVE  FreeStays
<1>1. ASSUME dev' = dev PROVE FreeStays
  BY <1>1 DEF FreeStays, Free
<1> QED
  BY <1>1, UserFree, UpdaterFree, AppFree DEF Next, Crash, vars

\* What is heard of an application.
LEMMA HeardKept ==
  ASSUME FreeInv, FreeStays, Typed', [Next]_vars
  PROVE  HeardInv'
<1>1. heard \in [Apps -> Infos]
  BY DEF FreeInv, Typed, TypeOK
<1>2. CASE heard' = heard
  BY <1>2 DEF FreeInv, HeardInv, FreeStays
<1>3. ASSUME NEW a \in Apps, State(a) PROVE HeardInv'
  <2>1. heard' = [heard EXCEPT ![a] = [bus |-> dev[a].bus, state |-> dev[a].state]]
    BY <1>3 DEF State
  <2>2. ASSUME NEW b \in Apps, heard'[b].bus # 0, heard'[b].state = "CLAIMABLE" PROVE Free(b)
    <3>1. CASE b = a
      BY <1>1, <2>1, <2>2, <3>1 DEF Free
    <3>2. CASE b # a
      BY <1>1, <2>1, <2>2, <3>2 DEF FreeInv, HeardInv
    <3> QED
      BY <3>1, <3>2
  <2> QED
    BY <2>2 DEF HeardInv, FreeStays
<1>4. CASE Crash
  BY <1>4 DEF Crash, HeardInv
<1>5. ASSUME NEW x \in Users, User(x) PROVE heard' = heard
  BY <1>5
  DEF User, InstallMembership, RemoveMembership, UpdatePolicy, RemovePolicy, UpdateIdentity,
      ResetApplication, ResetUnmanaged, RemoveApplication, Claim, RemoveGroup, RemoveIdentity,
      ResetHolder, StorePolicy, StoreManifest, FinishClaiming, Unclaim, ApplicationUpdated,
      MarkPending, NotifyPending
<1>6. ASSUME NEW u \in Updaters, Updater(u) PROVE heard' = heard
  <2>1. ASSUME NEW d, NEW r, RemoteCall(u, d, r) PROVE heard' = heard
    BY <2>1 DEF RemoteCall
  <2>2. Refused(u) => heard' = heard
    BY DEF Refused
  <2> QED
    BY <1>6, <2>1, <2>2
    DEF Updater, TakeEvent, DirectCall, StartUpdates, ReadMemberships, ReadIdentity,
        ReadManifest, ReadPolicy, Connect, ConnectFails, InstallMissingMemberships,
        RemoveRedundantMemberships, MembershipsDone, ApplyIdentity, ApplyPolicy, ResetRemote,
        CompletedReset, CompletedRestart, CompletedOK, CompletedNothing, Persist
<1>7. ASSUME NEW a \in Apps, AppStops(a) \/ AppNeedsUpdate(a) \/ AppStarts(a) PROVE heard' = heard
  BY <1>7 DEF AppStops, AppNeedsUpdate, AppStarts, AppEvent
<1> QED
  BY <1>2, <1>3, <1>4, <1>5, <1>6, <1>7 DEF Next, vars

\* The events in the queue.
LEMMA QueueKept ==
  ASSUME FreeInv, FreeStays, Typed', [Next]_vars
  PROVE  QueueInv'
<1>1. /\ queue \in Seq(Events) /\ queue' \in Seq(Events) /\ heard \in [Apps -> Infos]
      /\ dev \in [Apps -> Devices] /\ QueueInv
  BY DEF FreeInv, Typed, TypeOK
<1>2. \A i \in DOMAIN queue : queue[i].app \in Apps
  <2>1. \A i \in DOMAIN queue : queue[i] \in Events
    BY <1>1
  <2> QED
    BY <2>1 DEF Events
<1>3. CASE queue' = queue
  BY <1>1, <1>2, <1>3 DEF QueueInv, FreeStays
<1>4. ASSUME NEW e \in Events, queue' = Append(queue, e), e.state = "CLAIMABLE" => Free(e.app)
      PROVE  QueueInv'
  <2>1. SUFFICES ASSUME NEW i \in DOMAIN queue', queue'[i].state = "CLAIMABLE"
                 PROVE  dev'[queue'[i].app].state = "CLAIMABLE"
    BY DEF QueueInv, Free
  <2>2. queue'[i] = e \/ (i \in DOMAIN queue /\ queue'[i] = queue[i])
    BY <1>1, <1>4, Appended
  <2>3. Free(queue'[i].app) /\ queue'[i].app \in Apps
    BY <1>1, <1>2, <1>4, <2>1, <2>2 DEF QueueInv, Events
  <2> QED
    BY <2>3 DEF FreeStays, Free
<1>5. ASSUME NEW a \in Apps, State(a) PROVE QueueInv'
  <2> DEFINE e == [app |-> a, bus |-> dev[a].bus, state |-> dev[a].state,
                   old |-> IF heard[a].bus = dev[a].bus THEN heard[a].state ELSE "none"]
  <2>1. queue' = Append(queue, e)
    BY <1>5 DEF State
  <2>2. e \in Events
    BY <1>1 DEF Events, Devices, Infos
  <2>3. e.state = "CLAIMABLE" => Free(e.app)
    BY DEF Free
  <2> HIDE DEF e
  <2> QED
    BY <1>4, <2>1, <2>2, <2>3
<1>6. ASSUME NEW x \in Users, NotifyPending(x) PROVE QueueInv'
  <2> DEFINE a == usr[x].app
             e == [app |-> a, bus |-> heard[a].bus, state |-> heard[a].state, old |-> "none"]
  <2>1. queue' = queue \/ (heard[a].bus # 0 /\ queue' = Append(queue, e))
    BY <1>6 DEF NotifyPending
  <2>2. a \in Apps
    BY <1>6 DEF NotifyPending, FreeInv, Typed, WorkInv
  <2>3. e \in Events
    BY <1>1, <2>2 DEF Events, Infos
  <2>4. heard[a].bus # 0 /\ e.state = "CLAIMABLE" => Free(e.app)
    BY <2>2 DEF FreeInv, HeardInv
  <2> HIDE DEF a, e
  <2> QED
    BY <1>3, <1>4, <2>1, <2>3, <2>4
<1>7. ASSUME TakeEvent PROVE QueueInv'
  <2>1. queue # <<>> /\ queue' = Tail(queue)
    BY <1>7 DEF TakeEvent
  <2>2. SUFFICES ASSUME NEW i \in DOMAIN queue', queue'[i].state = "CLAIMABLE"
                 PROVE  dev'[queue'[i].app].state = "CLAIMABLE"
    BY DEF QueueInv, Free
  <2>3. i + 1 \in DOMAIN queue /\ queue'[i] = queue[i + 1]
    BY <1>1, <2>1, TailOf
  <2>4. Free(queue'[i].app) /\ queue'[i].app \in Apps
    BY <1>1, <1>2, <2>2, <2>3 DEF QueueInv
  <2> QED
    BY <2>4 DEF FreeStays, Free
<1>8. CASE Crash
  BY <1>8 DEF Crash, QueueInv
<1>9. ASSUME NEW x \in Users, User(x), ~NotifyPending(x) PROVE queue' = queue
  BY <1>9
  DEF User, InstallMembership, RemoveMembership, UpdatePolicy, RemovePolicy, UpdateIdentity,
      ResetApplication, ResetUnmanaged, RemoveApplication, Claim, RemoveGroup, RemoveIdentity,
      ResetHolder, StorePolicy, StoreManifest, FinishClaiming, Unclaim, ApplicationUpdated,
      MarkPending
<1>10. ASSUME NEW u \in Updaters, Updater(u), ~TakeEvent PROVE queue' = queue
  <2>1. ASSUME NEW d, NEW r, RemoteCall(u, d, r) PROVE queue' = queue
    BY <2>1 DEF RemoteCall
  <2>2. Refused(u) => queue' = queue
    BY DEF Refused
  <2> QED
    BY <1>10, <2>1, <2>2
    DEF Updater, DirectCall, StartUpdates, ReadMemberships, ReadIdentity,
        ReadManifest, ReadPolicy, Connect, ConnectFails, InstallMissingMemberships,
        RemoveRedundantMemberships, MembershipsDone, ApplyIdentity, ApplyPolicy, ResetRemote,
        CompletedReset, CompletedRestart, CompletedOK, CompletedNothing, Persist
<1>11. ASSUME NEW a \in Apps, AppStops(a) \/ AppNeedsUpdate(a) \/ AppStarts(a) PROVE queue' = queue
  BY <1>11 DEF AppStops, AppNeedsUpdate, AppStarts, AppEvent
<1> QED
  BY <1>3, <1>5, <1>6, <1>7, <1>8, <1>9, <1>10, <1>11 DEF Next, vars

\* The job of a thread.  It is about one application with one snapshot of its
\* state; it reports RESET only when the application was reset.
LEMMA WorkerMoves ==
  ASSUME Typed, FreeStays, NEW u \in Updaters, WorkerInv(u), NEW r,
         upd' = [upd EXCEPT ![u] = r],
         \/ r.pc = "idle"
         \/ r.app \in Apps /\ (r.state = "CLAIMABLE" \/ r.sync = "RESET" => Free(r.app)')
         \/ /\ upd[u].pc # "idle" /\ r.app = upd[u].app /\ r.state = upd[u].state
            /\ r.sync = upd[u].sync
  PROVE  WorkerInv(u)'
<1>1. upd'[u] = r
  BY DEF Typed, TypeOK
<1>2. upd[u].pc # "idle" => upd[u].app \in Apps
  BY DEF Typed, WorkInv
<1> QED
  BY <1>1, <1>2 DEF WorkerInv, FreeStays

LEMMA ReportOf ==
  ASSUME NEW j, NEW s
  PROVE  Report(j, s).app = j.app /\ Report(j, s).sync = s /\ Report(j, s).state = j.state
BY DEF Report, Job, NoJob

LEMMA JobOf ==
  ASSUME NEW a, NEW b, NEW s
  PROVE  Job(a, b, s).app = a /\ Job(a, b, s).sync = "OK" /\ Job(a, b, s).state = s
BY DEF Job, NoJob

LEMMA RemoteWorker ==
  ASSUME Typed, FreeStays, NEW u \in Updaters, WorkerInv(u), upd[u].pc # "idle",
         NEW d, NEW r, RemoteCall(u, d, r), r.app = upd[u].app, r.state = upd[u].state,
         r.sync # "RESET" \/ r.sync = upd[u].sync \/ d.state = "CLAIMABLE"
  PROVE  WorkerInv(u)'
<1> PICK a \in Apps : a = upd[u].app
  BY DEF Typed, WorkInv
<1>1. dev \in [Apps -> Devices]
  BY DEF Typed, TypeOK
<1>2. \/ upd' = [upd EXCEPT ![u] = r] /\ dev' = [dev EXCEPT ![a] = d]
      \/ upd' = [upd EXCEPT ![u] = Report(upd[u], upd[u].sync)]
  BY DEF RemoteCall, GiveUp, Step
<1>3. CASE upd' = [upd EXCEPT ![u] = r] /\ dev' = [dev EXCEPT ![a] = d]
  <2>1. d.state = "CLAIMABLE" => Free(a)'
    BY <1>1, <1>3 DEF Free
  <2>2. upd[u].state = "CLAIMABLE" \/ upd[u].sync = "RESET" => Free(a)'
    BY <1>1 DEF WorkerInv, FreeStays
  <2> QED
    BY <1>1, <1>3, <2>1, <2>2, WorkerMoves
<1>4. CASE upd' = [upd EXCEPT ![u] = Report(upd[u], upd[u].sync)]
  BY <1>4, ReportOf, WorkerMoves
<1> QED
  BY <1>2, <1>3, <1>4

LEMMA WorkerKept ==
  ASSUME FreeInv, FreeStays, NEW u \in Updaters, Updater(u)
  PROVE  WorkerInv(u)'
<1> DEFINE j == upd[u]
<1>1. /\ Typed /\ WorkerInv(u) /\ j \in Jobs /\ upd \in [Updaters -> Jobs]
      /\ (j.pc # "idle" => j.app \in Apps)
      /\ row \in [Apps -> Rows] /\ dev \in [Apps -> Devices] /\ queue \in Seq(Events)
  BY DEF FreeInv, Typed, TypeOK, WorkInv
<1>2. NoJob.pc = "idle"
  BY DEF NoJob
<1>3. ASSUME Step(u, NoJob) PROVE WorkerInv(u)'
  BY <1>1, <1>2, <1>3, WorkerMoves DEF Step
<1>4. ASSUME NEW r, Step(u, r), j.pc # "idle", r.app = j.app, r.state = j.state, r.sync = j.sync
      PROVE  WorkerInv(u)'
  BY <1>1, <1>4, WorkerMoves DEF Step
<1>5. ASSUME TakeEvent, u = Queue PROVE WorkerInv(u)'
  <2> DEFINE e == Head(queue)
             r == Job(e.app, e.bus, e.state)
  <2>1. Step(u, r) \/ Step(u, NoJob)
    BY <1>5 DEF TakeEvent
  <2>2. 1 \in DOMAIN queue /\ e = queue[1] /\ e \in Events
    BY <1>1, <1>5, TailOf DEF TakeEvent
  <2>3. e.app \in Apps /\ (e.state = "CLAIMABLE" => Free(e.app))
    BY <2>2 DEF FreeInv, QueueInv, Events
  <2>4. r.app = e.app /\ r.sync = "OK" /\ r.state = e.state
    BY JobOf
  <2> HIDE DEF e, r
  <2>5. CASE Step(u, r)
    <3>1. PICK a \in Apps : a = e.app
      BY <2>3
    <3>2. r.app = a /\ (r.state = "CLAIMABLE" \/ r.sync = "RESET" => Free(a)')
      BY <2>3, <2>4, <3>1 DEF FreeStays
    <3>3. PICK q : q = r
      OBVIOUS
    <3>4. q.app = a /\ (q.state = "CLAIMABLE" \/ q.sync = "RESET" => Free(a)')
      BY <3>2, <3>3
    <3>5. upd' = [upd EXCEPT ![u] = q]
      BY <2>5, <3>3 DEF Step
    <3> QED
      BY <1>1, <3>4, <3>5, WorkerMoves
  <2> QED
    BY <1>3, <2>1, <2>5
<1>6. ASSUME NEW a \in Apps, DirectCall(u, a) PROVE WorkerInv(u)'
  <2> DEFINE q == Job(a, heard[a].bus, heard[a].state)
  <2>1. Step(u, q) /\ heard[a].state = "CLAIMED"
    BY <1>6 DEF DirectCall
  <2>2. q.app = a /\ q.sync = "OK" /\ q.state = "CLAIMED"
    BY <2>1, JobOf
  <2> HIDE DEF q
  <2>3. PICK r : r = q
    OBVIOUS
  <2> QED
    BY <1>1, <2>1, <2>2, <2>3, WorkerMoves DEF Step
<1>7. ASSUME Step(u, NewRound(j)), j.pc # "idle" PROVE WorkerInv(u)'
  <2> DEFINE k == [j EXCEPT !.sync = row[j.app].sync, !.tx = counter]
  <2>1. k.app = j.app /\ k.state = j.state /\ k.sync \in SyncStates
    BY <1>1, <1>7 DEF Jobs, Rows
  <2>2. \A pc : /\ [k EXCEPT !.pc = pc].app = j.app /\ [k EXCEPT !.pc = pc].state = j.state
                /\ [k EXCEPT !.pc = pc].sync = k.sync
    BY <1>1 DEF Jobs
  <2>3. \/ NewRound(j) = NoJob
        \/ NewRound(j) = Report(k, "RESET") /\ k.state = "CLAIMABLE"
        \/ \E pc : NewRound(j) = [k EXCEPT !.pc = pc]
    BY DEF NewRound, Round
  <2> HIDE DEF k
  <2>4. CASE NewRound(j) = Report(k, "RESET") /\ k.state = "CLAIMABLE"
    <3>1. Free(j.app)
      BY <1>1, <1>7, <2>1, <2>4 DEF WorkerInv
    <3>2. PICK a \in Apps : a = j.app
      BY <1>1, <1>7
    <3>3. PICK r : r = Report(k, "RESET")
      OBVIOUS
    <3>4. r.app = a /\ Free(a)' /\ upd' = [upd EXCEPT ![u] = r]
      BY <1>7, <2>1, <2>4, <3>1, <3>2, <3>3, ReportOf DEF FreeStays, Step
    <3> QED
      BY <1>1, <3>4, WorkerMoves
  <2>5. CASE \E pc : NewRound(j) = [k EXCEPT !.pc = pc]
    <3>1. PICK pc : NewRound(j) = [k EXCEPT !.pc = pc]
      BY <2>5
    <3>2. PICK r : r = [k EXCEPT !.pc = pc]
      OBVIOUS
    <3>3. r.app = j.app /\ r.state = j.state /\ r.sync \in SyncStates /\ upd' = [upd EXCEPT ![u] = r]
      BY <1>7, <2>1, <2>2, <3>1, <3>2 DEF Step
    <3>4. PICK a \in Apps : a = j.app
      BY <1>1, <1>7
    <3>5. r.state = "CLAIMABLE" \/ r.sync = "RESET" => Free(a)'
      BY <1>1, <1>7, <3>3, <3>4 DEF WorkerInv, FreeStays, SyncStates
    <3> QED
      BY <1>1, <3>3, <3>4, <3>5, WorkerMoves
  <2> QED
    BY <1>3, <1>7, <2>3, <2>4, <2>5
<1>8. ASSUME StartUpdates(u) \/ CompletedRestart(u) PROVE WorkerInv(u)'
  <2>1. j.pc # "idle" /\ (Step(u, NewRound(j)) \/ Step(u, NoJob))
    BY <1>8 DEF StartUpdates, CompletedRestart
  <2> QED
    BY <1>3, <1>7, <2>1
<1>9. ASSUME \/ ReadMemberships(u) \/ ReadIdentity(u) \/ ReadManifest(u) \/ ReadPolicy(u)
             \/ Connect(u) \/ CompletedOK(u)
      PROVE  WorkerInv(u)'
  <2>1. j.pc # "idle"
    BY <1>9 DEF ReadMemberships, ReadIdentity, ReadManifest, ReadPolicy, Connect, CompletedOK
  <2>2. \/ Step(u, NoJob)
        \/ \E pc : \/ Step(u, [j EXCEPT !.pc = pc])
                   \/ \E v : \/ Step(u, [j EXCEPT !.pc = pc, !.mem = v])
                             \/ Step(u, [j EXCEPT !.pc = pc, !.id = v])
                             \/ Step(u, [j EXCEPT !.pc = pc, !.mf = v])
                             \/ Step(u, [j EXCEPT !.pc = pc, !.pol = v])
    <3>1. ReadMemberships(u) => \E v : Step(u, [j EXCEPT !.pc = "readIdentity", !.mem = v])
      BY DEF ReadMemberships
    <3>2. ReadIdentity(u) => \/ Step(u, NoJob)
                             \/ \E v : Step(u, [j EXCEPT !.pc = "readManifest", !.id = v])
      BY DEF ReadIdentity
    <3>3. ReadManifest(u) => \/ Step(u, NoJob)
                             \/ \E v : Step(u, [j EXCEPT !.pc = "readPolicy", !.mf = v])
      BY DEF ReadManifest
    <3>4. ReadPolicy(u) => \E v : Step(u, [j EXCEPT !.pc = "connect", !.pol = v])
      BY DEF ReadPolicy
    <3>5. Connect(u) \/ CompletedOK(u) => \E pc : Step(u, [j EXCEPT !.pc = pc])
      BY DEF Connect, CompletedOK
    <3> QED
      BY <1>9, <3>1, <3>2, <3>3, <3>4, <3>5
  <2>3. ASSUME NEW pc, NEW v, NEW r,
               \/ r = [j EXCEPT !.pc = pc] \/ r = [j EXCEPT !.pc = pc, !.mem = v]
               \/ r = [j EXCEPT !.pc = pc, !.id = v] \/ r = [j EXCEPT !.pc = pc, !.mf = v]
               \/ r = [j EXCEPT !.pc = pc, !.pol = v],
               Step(u, r)
        PROVE  WorkerInv(u)'
    <3>1. r.app = j.app /\ r.state = j.state /\ r.sync = j.sync
      BY <1>1, <2>3 DEF Jobs
    <3> QED
      BY <1>4, <2>1, <2>3, <3>1
  <2> QED
    BY <1>3, <2>2, <2>3
<1>10. ASSUME ConnectFails(u) PROVE WorkerInv(u)'
  <2>1. j.pc # "idle" /\ Step(u, IF j.sync = "WILL_RESET" THEN Report(j, j.sync) ELSE NoJob)
    BY <1>10 DEF ConnectFails
  <2> QED
    BY <1>3, <1>4, <2>1, ReportOf
<1>11. ASSUME Refused(u), j.pc # "idle" PROVE WorkerInv(u)'
  BY <1>4, <1>11, ReportOf DEF Refused, GiveUp
<1>12. ASSUME InstallMissingMemberships(u) \/ RemoveRedundantMemberships(u) PROVE WorkerInv(u)'
  <2>1. PICK d : RemoteCall(u, d, j)
    BY <1>12 DEF InstallMissingMemberships, RemoveRedundantMemberships
  <2>2. j.pc # "idle"
    BY <1>12 DEF InstallMissingMemberships, RemoveRedundantMemberships
  <2> QED
    BY <1>1, <2>1, <2>2, RemoteWorker
<1>13. ASSUME MembershipsDone(u) \/ ApplyIdentity(u) PROVE WorkerInv(u)'
  <2>1. j.pc # "idle"
    BY <1>13 DEF MembershipsDone, ApplyIdentity
  <2>2. Refused(u) \/ \E d, pc : RemoteCall(u, d, [j EXCEPT !.pc = pc])
    BY <1>13 DEF MembershipsDone, ApplyIdentity
  <2>3. \A pc : /\ [j EXCEPT !.pc = pc].app = j.app /\ [j EXCEPT !.pc = pc].state = j.state
                /\ [j EXCEPT !.pc = pc].sync = j.sync
    BY <1>1 DEF Jobs
  <2> QED
    BY <1>1, <1>11, <2>1, <2>2, <2>3, RemoteWorker
<1>14. ASSUME ApplyPolicy(u) PROVE WorkerInv(u)'
  <2>1. j.pc # "idle" /\ (Refused(u) \/ \E d : RemoteCall(u, d, Report(j, "OK")))
    BY <1>14 DEF ApplyPolicy
  <2> QED
    BY <1>1, <1>11, <2>1, ReportOf, RemoteWorker
<1>15. ASSUME ResetRemote(u) PROVE WorkerInv(u)'
  <2>1. j.pc # "idle" /\ RemoteCall(u, Unclaimed(dev[j.app]), Report(j, "RESET"))
    BY <1>15 DEF ResetRemote
  <2>2. Unclaimed(dev[j.app]).state = "CLAIMABLE"
    BY <1>1, <2>1 DEF Unclaimed, Devices
  <2> QED
    BY <1>1, <2>1, <2>2, ReportOf, RemoteWorker
<1>16. ASSUME CompletedReset(u) \/ CompletedNothing(u) \/ Persist(u) PROVE WorkerInv(u)'
  BY <1>3, <1>16 DEF CompletedReset, CompletedNothing, Persist
<1> QED
  BY <1>5, <1>6, <1>8, <1>9, <1>10, <1>12, <1>13, <1>14, <1>15, <1>16 DEF Updater

LEMMA OneWorks ==
  ASSUME Typed, NEW v \in Updaters, Updater(v), NEW u \in Updaters, u # v
  PROVE  upd'[u] = upd[u]
<1>1. ASSUME NEW r, Step(v, r) PROVE upd'[u] = upd[u]
  BY <1>1 DEF Step, Typed, TypeOK
<1>2. ASSUME NEW d, NEW r, RemoteCall(v, d, r) PROVE upd'[u] = upd[u]
  BY <1>1, <1>2 DEF RemoteCall, GiveUp
<1>3. Refused(v) => upd'[u] = upd[u]
  BY <1>1 DEF Refused, GiveUp
<1> QED
  BY <1>1, <1>2, <1>3
  DEF Updater, TakeEvent, DirectCall, StartUpdates, ReadMemberships, ReadIdentity,
      ReadManifest, ReadPolicy, Connect, ConnectFails, InstallMissingMemberships,
      RemoveRedundantMemberships, MembershipsDone, ApplyIdentity, ApplyPolicy, ResetRemote,
      CompletedReset, CompletedRestart, CompletedOK, CompletedNothing, Persist

\* The threads whose jobs do not change.
LEMMA WorkerWaits ==
  ASSUME FreeInv, FreeStays, NEW u \in Updaters, upd'[u] = upd[u]
  PROVE  WorkerInv(u)'
<1>1. upd[u].pc # "idle" => upd[u].app \in Apps
  BY DEF FreeInv, Typed, WorkInv
<1>2. WorkerInv(u)
  BY DEF FreeInv
<1> QED
  BY <1>1, <1>2 DEF WorkerInv, FreeStays, Free

LEMMA FreeKept ==
  ASSUME "Claim" \notin Ops, FreeInv, [Next]_vars
  PROVE  FreeInv'
<1>1. Typed /\ Typed'
  BY NextTyped DEF FreeInv
<1>2. FreeStays
  BY <1>1, FreeStep
<1>3. HeardInv' /\ QueueInv'
  BY <1>1, <1>2, HeardKept, QueueKept
<1>4. ASSUME NEW u \in Updaters PROVE WorkerInv(u)'
  <2>1. CASE Updater(u)
    BY <1>2, <2>1, WorkerKept
  <2>2. CASE Crash
    <3>1. upd'[u].pc = "idle"
      BY <2>2 DEF Crash, NoJob
    <3> QED
      BY <3>1 DEF WorkerInv
  <2>3. CASE upd'[u] = upd[u]
    BY <1>2, <2>3, WorkerWaits
  <2>4. ASSUME NEW v \in Updaters, v # u, Updater(v) PROVE upd'[u] = upd[u]
    BY <1>1, <2>4, OneWorks
  <2>5. ASSUME NEW x \in Users, User(x) PROVE upd' = upd
    BY <2>5
    DEF User, InstallMembership, RemoveMembership, UpdatePolicy, RemovePolicy, UpdateIdentity,
        ResetApplication, ResetUnmanaged, RemoveApplication, Claim, RemoveGroup, RemoveIdentity,
        ResetHolder, StorePolicy, StoreManifest, FinishClaiming, Unclaim, ApplicationUpdated,
        MarkPending, NotifyPending
  <2>6. ASSUME NEW a \in Apps, State(a) \/ AppStops(a) \/ AppNeedsUpdate(a) \/ AppStarts(a)
        PROVE  upd' = upd
    BY <2>6 DEF State, AppStops, AppNeedsUpdate, AppStarts, AppEvent
  <2> QED
    BY <2>1, <2>2, <2>3, <2>4, <2>5, <2>6 DEF Next, vars
<1> QED
  BY <1>1, <1>3, <1>4 DEF FreeInv

\* An application is removed from the storage at the end of an update only when
\* it was reset: also when the answer of the remote call was lost, when the
\* application has restarted or was reset already, or when another thread is
\* resetting it.  For any number of threads; only if no application is claimed
\* in the meantime, as it may be after the snapshot that the update relies on.
THEOREM RemovedIsReset == ASSUME "Claim" \notin Ops PROVE Spec => RemovedMeansReset
<1>1. Init => FreeInv
  <2>1. SUFFICES ASSUME Init PROVE HeardInv /\ QueueInv /\ \A u \in Updaters : WorkerInv(u)
    BY InitTyped DEF FreeInv
  <2> QED
    BY <2>1 DEF Init, HeardInv, QueueInv, WorkerInv, NoJob
<1>2. FreeInv /\ [Next]_vars => FreeInv'
  BY FreeKept
<1>3. FreeInv => \A u \in Updaters : CompletedReset(u) => dev[upd[u].app].state = "CLAIMABLE"
  BY DEF FreeInv, WorkerInv, CompletedReset, Free
<1> QED
  BY <1>1, <1>2, <1>3, PTL DEF Spec, RemovedMeansReset

------------------------------------------------------------------------------
(* No application stays managed without an identity and without a reset: when *)
(* an identity is removed, the call that removes it goes through all of its   *)
(* holders.  It stops at one that was removed meanwhile; with one application *)
(* nothing is left to do then.                                                *)

\* Nobody else removes, claims or resets holders, or gives them an identity.
Alone == Ops \cap {"ResetApplication", "RemoveApplication", "UpdateIdentity", "Claim"} = {}

\* x is bound to reset a.
HeldBy(x, a) ==
  \/ usr[x].pc = "reset" /\ usr[x].app = a
  \/ usr[x].each = "reset" /\ a \in usr[x].todo

\* A call that resets no holders of an identity, and one that does.
Tame(c) ==
  /\ c.each # "reset" /\ c.pc # "reset"
  /\ OneApp => c.todo = {}
  /\ c.pc = "claimed" => c.ser > 0
  /\ c.pc \in {"claimed", "unclaim"} => "Claim" \in Ops

Wild(c) ==
  /\ c.each = "reset" /\ c.pc \in {"reset", "notify"}
  /\ c.app \notin c.todo
  /\ OneApp => c.todo = {}

ShapeInv(x) == Tame(usr[x]) \/ Wild(usr[x])

\* Holders that are to be reset by a call are there, and are not reset by others.
HoldInv ==
  /\ \A x \in Users, a \in Apps : HeldBy(x, a) => row[a].managed /\ row[a].id = 0 /\ ~Requested(a)
  /\ \A x, y \in Users, a \in Apps : HeldBy(x, a) /\ HeldBy(y, a) => x = y
  /\ \A a \in Apps : Requested(a) => row[a].id = 0

\* An update that resets an application was told so by the storage.
DueInv(u) ==
  upd[u].pc # "idle" /\ (upd[u].pc = "reset" \/ upd[u].sync \in {"WILL_RESET", "RESET"})
    => (row[upd[u].app].managed => row[upd[u].app].sync = "WILL_RESET")

IdInv ==
  /\ IInv
  /\ serial > 0
  /\ \A x \in Users : ShapeInv(x)
  /\ NoIdentityIsReset
  /\ Alone => HoldInv /\ \A u \in Updaters : DueInv(u)

LEMMA HeldOf ==
  NoIdentityIsReset <=>
    \A a \in Apps : row[a].managed /\ row[a].id = 0 =>
      row[a].sync = "WILL_RESET" \/ \E x \in Users : HeldBy(x, a)
BY DEF NoIdentityIsReset, HeldBy

LEMMA TameHolds ==
  ASSUME NEW x \in Users, Tame(usr[x]), NEW a
  PROVE  ~HeldBy(x, a)
BY DEF Tame, HeldBy

LEMMA TameCall ==
  ASSUME NEW x, NEW a, NEW pc, pc \notin {"reset", "claimed", "unclaim"}, NEW v, NEW c,
         \/ c = Call(x, pc, a)
         \/ c = [Call(x, pc, a) EXCEPT !.bump = v]
         \/ c = [Call(x, pc, a) EXCEPT !.pol = v]
         \/ c = [Call(x, pc, a) EXCEPT !.ser = v]
  PROVE  Tame(c)
<1>1. c.each = "updated" /\ c.pc = pc /\ c.todo = {}
  BY DEF Call, NoCall
<1> QED
  BY <1>1 DEF Tame

LEMMA TameNoCall == Tame(NoCall)
BY DEF Tame, NoCall

LEMMA TameGoes ==
  ASSUME NEW c \in Calls, Tame(c), NEW pc, pc \notin {"reset", "claimed"},
         pc = "unclaim" => "Claim" \in Ops
  PROVE  Tame([c EXCEPT !.pc = pc])
<1>1. /\ [c EXCEPT !.pc = pc].each = c.each /\ [c EXCEPT !.pc = pc].pc = pc
      /\ [c EXCEPT !.pc = pc].todo = c.todo
  BY DEF Calls
<1> QED
  BY <1>1 DEF Tame

\* Calls other than those that reset holders, or notify.
Mild(x) ==
  \/ \E a \in Apps :
       \/ \E g \in Groups : InstallMembership(x, a, g) \/ RemoveMembership(x, a, g)
       \/ \E p \in Policies : UpdatePolicy(x, a, p)
       \/ RemovePolicy(x, a)
       \/ UpdateIdentity(x, a)
       \/ ResetApplication(x, a)
       \/ ResetUnmanaged(x, a)
       \/ RemoveApplication(x, a)
       \/ Claim(x, a)
  \/ \E g \in Groups : RemoveGroup(x, g)
  \/ StorePolicy(x)
  \/ StoreManifest(x)
  \/ FinishClaiming(x)
  \/ Unclaim(x)
  \/ ApplicationUpdated(x)
  \/ MarkPending(x)

LEMMA MildIsTame ==
  ASSUME NEW x \in Users, Mild(x), ShapeInv(x)
  PROVE  Tame(usr[x])
<1>1. usr[x].pc \notin {"reset", "notify"}
  BY DEF Mild, InstallMembership, RemoveMembership, UpdatePolicy, RemovePolicy, UpdateIdentity,
     ResetApplication, ResetUnmanaged, RemoveApplication, Claim, RemoveGroup, StorePolicy,
     StoreManifest, FinishClaiming, Unclaim, ApplicationUpdated, MarkPending, Starts
<1> QED
  BY <1>1 DEF ShapeInv, Wild

LEMMA MildStaysTame ==
  ASSUME Typed, serial > 0, NEW x \in Users, Mild(x), ShapeInv(x)
  PROVE  Tame(usr'[x])
<1>1. usr \in [Users -> Calls] /\ usr[x] \in Calls /\ Tame(usr[x]) /\ serial \in Nat
  BY MildIsTame DEF Typed, TypeOK
<1>2. ASSUME Return(x) PROVE Tame(usr'[x])
  BY <1>1, <1>2, TameNoCall DEF Return
<1>3. ASSUME NEW pc, Goto(x, pc), pc \notin {"reset", "claimed", "unclaim"} PROVE Tame(usr'[x])
  <2>1. usr'[x] = [usr[x] EXCEPT !.pc = pc]
    BY <1>1, <1>3 DEF Goto
  <2> QED
    BY <1>1, <1>3, <2>1, TameGoes
<1>4. ASSUME NEW a, NEW v, ThenUpdated(x, a, v) PROVE Tame(usr'[x])
  <2>1. usr'[x] = [Call(x, "updated", a) EXCEPT !.bump = v]
    BY <1>1, <1>4 DEF ThenUpdated
  <2> QED
    BY <2>1, TameCall
<1>5. ASSUME NEW a \in Apps,
             \/ \E g \in Groups : InstallMembership(x, a, g) \/ RemoveMembership(x, a, g)
             \/ RemovePolicy(x, a)
             \/ StorePolicy(x) \/ StoreManifest(x)
      PROVE  Tame(usr'[x])
  BY <1>4, <1>5 DEF InstallMembership, RemoveMembership, RemovePolicy, StorePolicy, StoreManifest
<1>6. ASSUME NEW a \in Apps, NEW p \in Policies, UpdatePolicy(x, a, p) PROVE Tame(usr'[x])
  <2>1. \E v : usr'[x] = [Call(x, "storePolicy", a) EXCEPT !.pol = v]
    BY <1>1, <1>6 DEF UpdatePolicy
  <2> QED
    BY <2>1, TameCall
<1>7. ASSUME NEW a \in Apps, UpdateIdentity(x, a) PROVE Tame(usr'[x])
  <2>1. \E v : usr'[x] = [Call(x, "storeManifest", a) EXCEPT !.ser = v]
    BY <1>1, <1>7 DEF UpdateIdentity
  <2> QED
    BY <2>1, TameCall
<1>8. ASSUME NEW a \in Apps, ResetApplication(x, a) PROVE Tame(usr'[x])
  <2>1. usr'[x] = Call(x, "notify", a)
    BY <1>1, <1>8 DEF ResetApplication
  <2> QED
    BY <2>1, TameCall
<1>9. ASSUME NEW a \in Apps, ResetUnmanaged(x, a) \/ RemoveApplication(x, a) PROVE Tame(usr'[x])
  <2>1. usr' = usr
    BY <1>9 DEF ResetUnmanaged, RemoveApplication
  <2> QED
    BY <1>1, <2>1
<1>10. ASSUME NEW a \in Apps, Claim(x, a) PROVE Tame(usr'[x])
  <2>1. usr'[x] = [Call(x, "claimed", a) EXCEPT !.ser = serial] /\ "Claim" \in Ops
    BY <1>1, <1>10 DEF Claim, Starts
  <2>2. /\ usr'[x].each = "updated" /\ usr'[x].todo = {} /\ usr'[x].ser = serial
        /\ usr'[x].pc = "claimed"
    BY <2>1 DEF Call, NoCall
  <2> QED
    BY <2>1, <2>2 DEF Tame
<1>11. ASSUME NEW g \in Groups, RemoveGroup(x, g) PROVE Tame(usr'[x])
  <2>1. PICK as \in SUBSET Apps : ForEach(x, as, "updated")
    BY <1>11 DEF RemoveGroup
  <2>2. PICK b \in as :
          usr' = [usr EXCEPT ![x] = [Call(x, "updated", b) EXCEPT
                                     !.bump = TRUE, !.todo = as \ {b}, !.each = "updated"]]
    BY <2>1 DEF ForEach
  <2>3. usr'[x].pc = "updated" /\ usr'[x].each = "updated" /\ usr'[x].todo = as \ {b}
    BY <1>1, <2>2 DEF Call, NoCall
  <2> QED
    BY <2>3 DEF Tame, OneApp
<1>12. ASSUME FinishClaiming(x) PROVE Tame(usr'[x])
  <2>1. CASE Return(x)
    BY <1>2, <2>1
  <2>2. CASE Goto(x, "unclaim")
    <3>1. usr'[x] = [usr[x] EXCEPT !.pc = "unclaim"]
      BY <1>1, <2>2 DEF Goto
    <3>2. "Claim" \in Ops
      BY <1>1, <1>12 DEF FinishClaiming, Tame
    <3> QED
      BY <1>1, <3>1, <3>2, TameGoes
  <2> QED
    BY <1>12, <2>1, <2>2 DEF FinishClaiming
<1>13. ASSUME Unclaim(x) PROVE Tame(usr'[x])
  BY <1>2, <1>13 DEF Unclaim
<1>14. ASSUME ApplicationUpdated(x) PROVE Tame(usr'[x])
  BY <1>2, <1>3, <1>14 DEF ApplicationUpdated
<1>15. ASSUME MarkPending(x) PROVE Tame(usr'[x])
  <2>1. Goto(x, "notify") \/ usr'[x] = Call(x, "notify", usr[x].app)
    BY <1>1, <1>15 DEF MarkPending
  <2> QED
    BY <1>3, <2>1, TameCall
<1>16. ASSUME StorePolicy(x) \/ StoreManifest(x) PROVE Tame(usr'[x])
  BY <1>4, <1>16 DEF StorePolicy, StoreManifest
<1> QED
  BY <1>5, <1>6, <1>7, <1>8, <1>9, <1>10, <1>11, <1>12, <1>13, <1>14, <1>15, <1>16 DEF Mild

\* What a step of x may do to an application.
DueEffect(x, a) ==
  row'[a].managed /\ row'[a].id = 0 =>
    \/ Requested(a)'
    \/ HeldBy(x, a)'
    \/ row[a].managed /\ row[a].id = 0 /\ ~Requested(a) /\ ~HeldBy(x, a)

\* The same if nobody else interferes.
HoldEffect(x, a) ==
  /\ row'[a].managed = row[a].managed
  /\ \/ row'[a].id = row[a].id
     \/ row[a].managed /\ row[a].id # 0 /\ row'[a].id = 0 /\ HeldBy(x, a)'
  /\ Requested(a)' => Requested(a) \/ (HeldBy(x, a) /\ ~HeldBy(x, a)')
  /\ HeldBy(x, a)' => HeldBy(x, a) \/ (row[a].managed /\ row[a].id # 0 /\ row'[a].id = 0)

LEMMA MildRows ==
  ASSUME Typed, serial > 0, NEW x \in Users, Mild(x), ShapeInv(x), NEW a \in Apps
  PROVE  /\ row'[a].managed /\ row'[a].id = 0 => row[a].managed /\ row[a].id = 0
         /\ Alone => row'[a].managed = row[a].managed /\ row'[a].id = row[a].id
<1> DEFINE Same == row'[a].managed = row[a].managed /\ row'[a].id = row[a].id
           Kept == /\ row'[a].managed /\ row'[a].id = 0 => row[a].managed /\ row[a].id = 0
                   /\ Alone => Same
           b == usr[x].app
<1>1. /\ row \in [Apps -> Rows] /\ row[a] \in Rows /\ serial \in Nat
      /\ usr[x].pc # "idle" => b \in Apps
  BY DEF Typed, TypeOK, WorkInv
<1>2. Tame(usr[x])
  BY MildIsTame
<1>3. CASE row' = row
  BY <1>3
<1>4. ASSUME NEW c \in Apps, NEW v,
             \/ row' = [row EXCEPT ![c].mem = v]
             \/ row' = [row EXCEPT ![c].pol = v]
             \/ row' = [row EXCEPT ![c].mf = v]
      PROVE  Same
  <2>1. \/ row'[a] = row[a] \/ row'[a] = [row[a] EXCEPT !.mem = v]
        \/ row'[a] = [row[a] EXCEPT !.pol = v] \/ row'[a] = [row[a] EXCEPT !.mf = v]
    BY <1>1, <1>4
  <2> QED
    BY <1>1, <2>1 DEF Rows
<1>5. ASSUME NEW c \in Apps, NEW g \in Groups, InstallMembership(x, c, g) \/ RemoveMembership(x, c, g)
      PROVE  Same
  <2>1. \E v : row' = [row EXCEPT ![c].mem = v]
    BY <1>5 DEF InstallMembership, RemoveMembership
  <2> QED
    BY <1>4, <2>1
<1>6. ASSUME StorePolicy(x) PROVE Same
  <2>1. row' = row \/ \E v : row' = [row EXCEPT ![b].pol = v]
    BY <1>6 DEF StorePolicy
  <2>2. b \in Apps
    BY <1>1, <1>6 DEF StorePolicy
  <2> QED
    BY <1>4, <2>1, <2>2
<1>7. ASSUME StoreManifest(x) PROVE Same
  <2>1. row' = row \/ \E v : row' = [row EXCEPT ![b].mf = v]
    BY <1>7 DEF StoreManifest
  <2>2. b \in Apps
    BY <1>1, <1>7 DEF StoreManifest
  <2> QED
    BY <1>4, <2>1, <2>2
<1>8. ASSUME NEW c \in Apps, RemovePolicy(x, c) PROVE Same
  BY <1>4, <1>8 DEF RemovePolicy
<1>9. ASSUME NEW g \in Groups, RemoveGroup(x, g) PROVE Same
  <2>1. \E v : row'[a] = [row[a] EXCEPT !.mem = v]
    BY <1>9 DEF RemoveGroup
  <2> QED
    BY <1>1, <2>1 DEF Rows
<1>10. ASSUME MarkPending(x) PROVE Same
  <2>1. row' = row \/ \E v : row' = [row EXCEPT ![b].sync = "PENDING", ![b].pol = v]
    BY <1>10 DEF MarkPending
  <2>2. row'[a] = row[a] \/ \E v : row'[a] = [row[a] EXCEPT !.sync = "PENDING", !.pol = v]
    <3>1. b \in Apps
      BY <1>1, <1>10 DEF MarkPending
    <3> QED
      BY <1>1, <2>1, <3>1
  <2> QED
    BY <1>1, <2>2 DEF Rows
<1>11. ASSUME NEW c \in Apps, UpdateIdentity(x, c) PROVE Kept
  <2>1. row' = [row EXCEPT ![c].id = serial] /\ ~Alone
    BY <1>11 DEF UpdateIdentity, Alone, Starts
  <2>2. row'[a] = row[a] \/ row'[a] = [row[a] EXCEPT !.id = serial]
    BY <1>1, <2>1
  <2> QED
    BY <1>1, <2>1, <2>2 DEF Rows
<1>12. ASSUME NEW c \in Apps, ResetApplication(x, c) PROVE Kept
  <2>1. row' = [row EXCEPT ![c].sync = "WILL_RESET"] /\ ~Alone
    BY <1>12 DEF ResetApplication, Alone, Starts
  <2>2. row'[a] = row[a] \/ row'[a] = [row[a] EXCEPT !.sync = "WILL_RESET"]
    BY <1>1, <2>1
  <2> QED
    BY <1>1, <2>1, <2>2 DEF Rows
<1>13. ASSUME NEW c \in Apps, RemoveApplication(x, c) PROVE Kept
  <2>1. row' = [row EXCEPT ![c] = NoRow] /\ ~Alone
    BY <1>13 DEF RemoveApplication, Alone, Starts
  <2>2. row'[a] = row[a] \/ row'[a] = NoRow
    BY <1>1, <2>1
  <2>3. CASE row'[a] = row[a]
    BY <2>1, <2>3
  <2>4. CASE row'[a] = NoRow
    <3>1. ~row'[a].managed
      BY <2>4 DEF NoRow
    <3> QED
      BY <2>1, <3>1
  <2> QED
    BY <2>2, <2>3, <2>4
<1>14. ASSUME FinishClaiming(x) PROVE Kept
  <2>1. ~Alone /\ usr[x].ser > 0
    BY <1>2, <1>14 DEF FinishClaiming, Tame, Alone
  <2>2. row' = row \/ row' = [row EXCEPT ![b] = NewRow(usr[x].ser)]
    BY <1>14 DEF FinishClaiming
  <2>3. row'[a] = row[a] \/ row'[a] = NewRow(usr[x].ser)
    BY <1>1, <2>2
  <2>4. NewRow(usr[x].ser).id = usr[x].ser /\ usr[x].ser \in Nat
    BY DEF NewRow, NoRow, Typed, TypeOK, Calls
  <2>5. CASE row'[a] = row[a]
    BY <2>1, <2>5
  <2>6. CASE row'[a] = NewRow(usr[x].ser)
    <3>1. row'[a].id = usr[x].ser
      BY <2>4, <2>6
    <3>2. row'[a].id # 0
      BY <2>1, <2>4, <3>1
    <3> QED
      BY <2>1, <3>2
  <2> QED
    BY <2>3, <2>5, <2>6
<1>15. ASSUME \/ \E c \in Apps : \/ \E p \in Policies : UpdatePolicy(x, c, p)
                                 \/ ResetUnmanaged(x, c) \/ Claim(x, c)
              \/ Unclaim(x) \/ ApplicationUpdated(x)
       PROVE  row' = row
  BY <1>15 DEF UpdatePolicy, ResetUnmanaged, Claim, Unclaim, ApplicationUpdated
<1> QED
  BY <1>3, <1>5, <1>6, <1>7, <1>8, <1>9, <1>10, <1>11, <1>12, <1>13, <1>14, <1>15 DEF Mild

LEMMA MildEffect ==
  ASSUME IInv, serial > 0, [Next]_vars, NEW x \in Users, User(x), Mild(x), ShapeInv(x),
         NEW a \in Apps
  PROVE  DueEffect(x, a) /\ (Alone => HoldEffect(x, a))
<1>1. ~HeldBy(x, a) /\ ~HeldBy(x, a)'
  <2>1. Tame(usr[x]) /\ Tame(usr'[x])
    BY MildIsTame, MildStaysTame DEF IInv
  <2> QED
    BY <2>1 DEF Tame, HeldBy
<1>2. Requested(a) /\ row'[a].managed => Requested(a)'
  BY RequestStays DEF Requested
<1>3. Alone => (Requested(a)' => Requested(a))
  <2>1. SUFFICES ASSUME Alone PROVE NoRequest
    BY DEF NoRequest
  <2>2. ~Requesting(x)
    <3>1. Tame(usr[x])
      BY MildIsTame
    <3> QED
      BY <2>1, <3>1 DEF Requesting, ResetHolder, ResetApplication, Starts, Alone, Tame
  <2> QED
    BY <2>2, UserKeeps DEF IInv, KeptInv
<1> QED
  BY <1>1, <1>2, <1>3, MildRows DEF DueEffect, HoldEffect, IInv

\* The call that takes the identity from all of its holders.
LEMMA RemovalEffect ==
  ASSUME IInv, NEW x \in Users, ShapeInv(x), NEW as \in SUBSET Apps, RemoveIdentity(x, as),
         [Next]_vars
  PROVE  /\ Wild(usr'[x])
         /\ \A a \in Apps : DueEffect(x, a) /\ HoldEffect(x, a)
<1>1. usr \in [Users -> Calls] /\ usr[x] \in Calls /\ row \in [Apps -> Rows]
  BY DEF IInv, Typed, TypeOK
<1>2. PICK b \in as :
        usr' = [usr EXCEPT ![x] = [Call(x, "reset", b) EXCEPT
                                   !.bump = TRUE, !.todo = as \ {b}, !.each = "reset"]]
  BY DEF RemoveIdentity, ForEach
<1>3. /\ usr'[x].pc = "reset" /\ usr'[x].each = "reset" /\ usr'[x].todo = as \ {b}
      /\ usr'[x].app = b
  BY <1>1, <1>2 DEF Call, NoCall
<1>4. Wild(usr'[x])
  BY <1>3 DEF Wild, OneApp
<1>5. ASSUME NEW a \in Apps PROVE HeldBy(x, a)' <=> a \in as
  BY <1>2, <1>3 DEF HeldBy
<1>6. ASSUME NEW a \in Apps PROVE ~HeldBy(x, a)
  <2>1. usr[x].pc = "idle"
    BY DEF RemoveIdentity, Starts
  <2>2. Tame(usr[x])
    BY <2>1 DEF ShapeInv, Wild
  <2> QED
    BY <2>2, TameHolds
<1>7. ASSUME NEW a \in Apps, a \in as PROVE DueEffect(x, a) /\ HoldEffect(x, a)
  <2>1. row'[a] = [row[a] EXCEPT !.id = 0] /\ row[a].managed /\ row[a].id # 0
    BY <1>7 DEF RemoveIdentity
  <2>2. row'[a].managed = row[a].managed /\ row'[a].id = 0 /\ row'[a].sync = row[a].sync
    BY <1>1, <2>1 DEF Rows
  <2>3. HeldBy(x, a)'
    BY <1>5, <1>7
  <2> QED
    BY <2>1, <2>2, <2>3 DEF DueEffect, HoldEffect, Requested
<1>8. ASSUME NEW a \in Apps, a \notin as PROVE DueEffect(x, a) /\ HoldEffect(x, a)
  <2>1. row'[a] = row[a]
    BY <1>8 DEF RemoveIdentity
  <2>2. ~HeldBy(x, a) /\ ~HeldBy(x, a)'
    BY <1>5, <1>6, <1>8
  <2> QED
    BY <2>1, <2>2 DEF DueEffect, HoldEffect, Requested
<1> QED
  BY <1>4, <1>7, <1>8

\* One of the holders is reset.
LEMMA HolderEffect ==
  ASSUME IInv, NEW x \in Users, ShapeInv(x), ResetHolder(x), Alone => HoldInv, Alone \/ OneApp
  PROVE  /\ ShapeInv(x)'
         /\ \A a \in Apps : DueEffect(x, a) /\ (Alone => HoldEffect(x, a))
<1> PICK b \in Apps : b = usr[x].app
  BY DEF ResetHolder, IInv, Typed, WorkInv
<1>1. /\ usr \in [Users -> Calls] /\ usr[x] \in Calls /\ row \in [Apps -> Rows]
      /\ row[b] \in Rows
  BY DEF IInv, Typed, TypeOK
<1>2. usr[x].pc = "reset" /\ Wild(usr[x])
  BY DEF ResetHolder, ShapeInv, Tame
<1>3. HeldBy(x, b)
  BY <1>2 DEF HeldBy
<1>4. CASE ~row[b].managed
  <2>1. Return(x) /\ row' = row
    BY <1>4 DEF ResetHolder
  <2>2. ~Alone /\ OneApp
    BY <1>3, <1>4 DEF HoldInv
  <2>3. \A a \in Apps : ~row'[a].managed
    BY <1>4, <2>1, <2>2 DEF OneApp
  <2>4. ShapeInv(x)'
    BY <1>1, <2>1, TameNoCall DEF Return, ShapeInv
  <2> QED
    BY <2>2, <2>3, <2>4 DEF DueEffect
<1>5. CASE row[b].managed
  <2>1. Goto(x, "notify") /\ row' = [row EXCEPT ![b].sync = "WILL_RESET"]
    BY <1>5 DEF ResetHolder
  <2>2. usr'[x] = [usr[x] EXCEPT !.pc = "notify"]
    BY <1>1, <2>1 DEF Goto
  <2>3. /\ usr'[x].pc = "notify" /\ usr'[x].each = usr[x].each /\ usr'[x].todo = usr[x].todo
        /\ usr'[x].app = usr[x].app
    BY <1>1, <2>2 DEF Calls
  <2>4. ShapeInv(x)'
    BY <1>2, <2>3 DEF ShapeInv, Wild
  <2>5. row'[b] = [row[b] EXCEPT !.sync = "WILL_RESET"]
    BY <1>1, <2>1
  <2>6. /\ row'[b].managed = row[b].managed /\ row'[b].id = row[b].id
        /\ row'[b].sync = "WILL_RESET"
    BY <1>1, <2>5 DEF Rows
  <2>7. ~HeldBy(x, b)'
    BY <1>2, <2>3 DEF HeldBy, Wild
  <2>8. DueEffect(x, b) /\ HoldEffect(x, b)
    BY <1>3, <1>5, <2>6, <2>7 DEF DueEffect, HoldEffect, Requested
  <2>9. ASSUME NEW a \in Apps, a # b PROVE DueEffect(x, a) /\ HoldEffect(x, a)
    <3>1. row'[a] = row[a]
      BY <1>1, <2>1, <2>9
    <3>2. HeldBy(x, a)' <=> HeldBy(x, a)
      BY <1>2, <2>3, <2>9 DEF HeldBy
    <3> QED
      BY <3>1, <3>2 DEF DueEffect, HoldEffect, Requested
  <2> QED
    BY <2>4, <2>8, <2>9
<1> QED
  BY <1>4, <1>5

\* The listeners are told, and the call goes on with the next holder.
LEMMA NextEffect ==
  ASSUME IInv, NEW x \in Users, ShapeInv(x), NotifyPending(x)
  PROVE  /\ ShapeInv(x)'
         /\ \A a \in Apps : DueEffect(x, a) /\ HoldEffect(x, a)
<1>1. usr \in [Users -> Calls] /\ usr[x] \in Calls /\ usr[x].pc = "notify"
  BY DEF IInv, Typed, TypeOK, NotifyPending
<1>2. row' = row
  BY DEF NotifyPending
<1>3. ASSUME \A a \in Apps : HeldBy(x, a)' <=> HeldBy(x, a)
      PROVE  \A a \in Apps : DueEffect(x, a) /\ HoldEffect(x, a)
  BY <1>2, <1>3 DEF DueEffect, HoldEffect, Requested
<1>4. CASE Return(x) /\ usr[x].todo = {}
  <2>1. Tame(usr'[x])
    BY <1>1, <1>4, TameNoCall DEF Return
  <2>2. \A a \in Apps : ~HeldBy(x, a)' /\ ~HeldBy(x, a)
    BY <1>1, <1>4, <2>1 DEF Tame, HeldBy
  <2> QED
    BY <1>3, <2>1, <2>2 DEF ShapeInv
<1>5. ASSUME NEW b \in usr[x].todo,
             usr' = [usr EXCEPT ![x] = [usr[x] EXCEPT !.pc = usr[x].each, !.app = b,
                                                     !.todo = usr[x].todo \ {b}]]
      PROVE  ShapeInv(x)' /\ \A a \in Apps : HeldBy(x, a)' <=> HeldBy(x, a)
  <2>1. usr'[x] = [usr[x] EXCEPT !.pc = usr[x].each, !.app = b, !.todo = usr[x].todo \ {b}]
    BY <1>1, <1>5
  <2>2. /\ usr'[x].pc = usr[x].each /\ usr'[x].each = usr[x].each /\ usr'[x].app = b
        /\ usr'[x].todo = usr[x].todo \ {b} /\ usr[x].each \in {"updated", "reset"}
    BY <1>1, <2>1 DEF Calls
  <2>3. CASE Tame(usr[x])
    <3>1. Tame(usr'[x])
      BY <2>2, <2>3 DEF Tame
    <3>2. \A a \in Apps : ~HeldBy(x, a)' /\ ~HeldBy(x, a)
      BY <2>3, <3>1 DEF Tame, HeldBy
    <3> QED
      BY <3>1, <3>2 DEF ShapeInv
  <2>4. CASE Wild(usr[x])
    <3>1. Wild(usr'[x])
      BY <2>2, <2>4 DEF Wild
    <3>2. \A a \in Apps : HeldBy(x, a)' <=> HeldBy(x, a)
      BY <1>1, <1>5, <2>2, <2>4 DEF Wild, HeldBy
    <3> QED
      BY <3>1, <3>2 DEF ShapeInv
  <2> QED
    BY <2>3, <2>4 DEF ShapeInv
<1> QED
  BY <1>3, <1>4, <1>5 DEF NotifyPending, Proceed

\* The steps of the UI, for the thread that takes one and for the others.
LEMMA HoldersKept ==
  ASSUME IdInv, [Next]_vars, NEW x \in Users, User(x), Alone \/ OneApp
  PROVE  /\ ShapeInv(x)'
         /\ \A a \in Apps : DueEffect(x, a) /\ (Alone => HoldEffect(x, a))
<1>1. IInv /\ serial > 0 /\ ShapeInv(x) /\ (Alone => HoldInv)
  BY DEF IdInv
<1>2. CASE Mild(x)
  <2>1. Tame(usr'[x])
    BY <1>1, <1>2, MildStaysTame DEF IInv
  <2> QED
    BY <1>1, <1>2, <2>1, MildEffect DEF ShapeInv
<1>3. CASE \E as \in SUBSET Apps : RemoveIdentity(x, as)
  BY <1>1, <1>3, RemovalEffect DEF ShapeInv
<1>4. CASE ResetHolder(x)
  BY <1>1, <1>4, HolderEffect
<1>5. CASE NotifyPending(x)
  BY <1>1, <1>5, NextEffect
<1> QED
  BY <1>2, <1>3, <1>4, <1>5 DEF User, Mild

LEMMA OneCalls ==
  ASSUME Typed, NEW x \in Users, User(x)
  PROVE  upd' = upd /\ \A y \in Users \ {x} : usr'[y] = usr[y]
<1>1. usr \in [Users -> Calls]
  BY DEF Typed, TypeOK
<1>2. upd' = upd
  BY
  DEF User, InstallMembership, RemoveMembership, UpdatePolicy, RemovePolicy, UpdateIdentity,
      ResetApplication, ResetUnmanaged, RemoveApplication, Claim, RemoveGroup, RemoveIdentity,
      ResetHolder, StorePolicy, StoreManifest, FinishClaiming, Unclaim, ApplicationUpdated,
      MarkPending, NotifyPending
<1>3. usr' = usr \/ \E c : usr' = [usr EXCEPT ![x] = c]
  <2>1. ASSUME NEW pc, Goto(x, pc) PROVE \E c : usr' = [usr EXCEPT ![x] = c]
    BY <2>1 DEF Goto
  <2>2. Return(x) => \E c : usr' = [usr EXCEPT ![x] = c]
    BY DEF Return
  <2>3. ASSUME NEW a, NEW v, ThenUpdated(x, a, v) PROVE \E c : usr' = [usr EXCEPT ![x] = c]
    BY <2>3 DEF ThenUpdated
  <2>4. ASSUME NEW as, NEW op, ForEach(x, as, op) PROVE \E c : usr' = [usr EXCEPT ![x] = c]
    BY <2>4 DEF ForEach
  <2>5. Proceed(x) => \E c : usr' = [usr EXCEPT ![x] = c]
    BY <2>2 DEF Proceed
  <2> QED
    BY <2>1, <2>2, <2>3, <2>4, <2>5
    DEF User, InstallMembership, RemoveMembership, UpdatePolicy, RemovePolicy, UpdateIdentity,
        ResetApplication, ResetUnmanaged, RemoveApplication, Claim, RemoveGroup, RemoveIdentity,
        ResetHolder, StorePolicy, StoreManifest, FinishClaiming, Unclaim, ApplicationUpdated,
        MarkPending, NotifyPending
<1> QED
  BY <1>1, <1>2, <1>3

LEMMA SerialGrows ==
  ASSUME Typed, serial > 0, [Next]_vars
  PROVE  serial' > 0
<1>1. serial \in Nat
  BY DEF Typed, TypeOK
<1>2. ASSUME NEW x \in Users, User(x) PROVE serial' = serial \/ serial' = serial + 1
  BY <1>2
  DEF User, InstallMembership, RemoveMembership, UpdatePolicy, RemovePolicy, UpdateIdentity,
      ResetApplication, ResetUnmanaged, RemoveApplication, Claim, RemoveGroup, RemoveIdentity,
      ResetHolder, StorePolicy, StoreManifest, FinishClaiming, Unclaim, ApplicationUpdated,
      MarkPending, NotifyPending
<1>3. ASSUME NEW u \in Updaters, Updater(u) PROVE serial' = serial
  <2>1. ASSUME NEW d, NEW r, RemoteCall(u, d, r) PROVE serial' = serial
    BY <2>1 DEF RemoteCall
  <2>2. Refused(u) => serial' = serial
    BY DEF Refused
  <2> QED
    BY <1>3, <2>1, <2>2
    DEF Updater, TakeEvent, DirectCall, StartUpdates, ReadMemberships, ReadIdentity,
        ReadManifest, ReadPolicy, Connect, ConnectFails, InstallMissingMemberships,
        RemoveRedundantMemberships, MembershipsDone, ApplyIdentity, ApplyPolicy, ResetRemote,
        CompletedReset, CompletedRestart, CompletedOK, CompletedNothing, Persist
<1>4. ASSUME NEW a \in Apps, State(a) \/ AppStops(a) \/ AppNeedsUpdate(a) \/ AppStarts(a)
      PROVE  serial' = serial
  BY <1>4 DEF State, AppStops, AppNeedsUpdate, AppStarts, AppEvent
<1>5. Crash \/ UNCHANGED vars => serial' = serial
  BY DEF Crash, vars
<1> QED
  BY <1>1, <1>2, <1>3, <1>4, <1>5 DEF Next

LEMMA UserHolds ==
  ASSUME IdInv, [Next]_vars, NEW x \in Users, User(x), Alone \/ OneApp
  PROVE  NoIdentityIsReset' /\ (Alone => HoldInv')
<1>1. /\ \A a \in Apps : DueEffect(x, a) /\ (Alone => HoldEffect(x, a))
      /\ \A y \in Users \ {x} : usr'[y] = usr[y]
      /\ NoIdentityIsReset /\ (Alone => HoldInv)
  BY HoldersKept, OneCalls DEF IdInv, IInv
<1>2. \A y \in Users \ {x}, a \in Apps : HeldBy(y, a)' <=> HeldBy(y, a)
  BY <1>1 DEF HeldBy
<1>3. NoIdentityIsReset'
  <2>1. SUFFICES ASSUME NEW a \in Apps, row'[a].managed, row'[a].id = 0
                 PROVE  row'[a].sync = "WILL_RESET" \/ \E y \in Users : HeldBy(y, a)'
    BY DEF NoIdentityIsReset, HeldBy
  <2>2. CASE Requested(a)' \/ HeldBy(x, a)'
    BY <2>2 DEF Requested
  <2>3. CASE row[a].managed /\ row[a].id = 0 /\ ~Requested(a) /\ ~HeldBy(x, a)
    <3>1. PICK y \in Users : HeldBy(y, a)
      BY <1>1, <2>3, HeldOf DEF Requested
    <3>2. y # x
      BY <2>3, <3>1
    <3> QED
      BY <1>2, <3>1, <3>2
  <2> QED
    BY <1>1, <2>1, <2>2, <2>3 DEF DueEffect
<1>4. ASSUME Alone PROVE HoldInv'
  <2>1. ASSUME NEW y \in Users, NEW a \in Apps, HeldBy(y, a)'
        PROVE  row'[a].managed /\ row'[a].id = 0 /\ ~Requested(a)'
    <3>1. CASE y = x
      BY <1>1, <1>4, <2>1, <3>1 DEF HoldInv, HoldEffect
    <3>2. CASE y # x
      <4>1. HeldBy(y, a) /\ ~HeldBy(x, a)
        BY <1>1, <1>2, <1>4, <2>1, <3>2 DEF HoldInv
      <4> QED
        BY <1>1, <1>4, <4>1 DEF HoldInv, HoldEffect
    <3> QED
      BY <3>1, <3>2
  <2>2. ASSUME NEW y \in Users, NEW a \in Apps, y # x, HeldBy(x, a)', HeldBy(y, a)'
        PROVE  FALSE
    <3>1. HeldBy(y, a) /\ row[a].id = 0
      BY <1>1, <1>2, <1>4, <2>2 DEF HoldInv
    <3>2. HeldBy(x, a)
      BY <1>1, <1>4, <2>2, <3>1 DEF HoldEffect
    <3> QED
      BY <1>1, <1>4, <2>2, <3>1, <3>2 DEF HoldInv
  <2>3. ASSUME NEW y \in Users, NEW z \in Users, NEW a \in Apps, HeldBy(y, a)', HeldBy(z, a)'
        PROVE  y = z
    <3>1. CASE y # x /\ z # x
      BY <1>1, <1>2, <1>4, <2>3, <3>1 DEF HoldInv
    <3> QED
      BY <2>2, <2>3, <3>1
  <2>4. ASSUME NEW a \in Apps, Requested(a)' PROVE row'[a].id = 0
    BY <1>1, <1>4, <2>4 DEF HoldInv, HoldEffect
  <2> QED
    BY <2>1, <2>3, <2>4 DEF HoldInv
<1> QED
  BY <1>3, <1>4

\* What an updater may do to the row of an application.
RowEffect(u) ==
  \A a \in Apps :
    \/ row'[a] = row[a]
    \/ row'[a] = [row[a] EXCEPT !.sync = "OK"]
    \/ ~row'[a].managed /\ upd[u].app = a /\ upd[u].pc = "report" /\ upd[u].sync = "RESET"

LEMMA UpdaterRows ==
  ASSUME Typed, NEW u \in Updaters, Updater(u)
  PROVE  RowEffect(u)
<1> DEFINE j == upd[u]
<1>1. row \in [Apps -> Rows] /\ (j.pc # "idle" => j.app \in Apps)
  BY DEF Typed, TypeOK, WorkInv
<1>2. CASE row' = row
  BY <1>2 DEF RowEffect
<1>3. CASE CompletedReset(u)
  <2>1. j.pc = "report" /\ j.sync = "RESET" /\ row' = [row EXCEPT ![j.app] = NoRow]
    BY <1>3 DEF CompletedReset
  <2>2. ~NoRow.managed
    BY DEF NoRow
  <2> QED
    BY <1>1, <2>1, <2>2 DEF RowEffect
<1>4. CASE Persist(u)
  <2>1. j.pc = "persist" /\ (row' = row \/ row' = [row EXCEPT ![j.app].sync = "OK"])
    BY <1>4 DEF Persist
  <2> QED
    BY <1>1, <1>2, <2>1 DEF RowEffect
<1>5. ASSUME NEW d, NEW r, RemoteCall(u, d, r) PROVE row' = row
  BY <1>5 DEF RemoteCall
<1>6. Refused(u) => row' = row
  BY DEF Refused
<1> QED
  BY <1>2, <1>3, <1>4, <1>5, <1>6
  DEF Updater, TakeEvent, DirectCall, StartUpdates, ReadMemberships, ReadIdentity,
      ReadManifest, ReadPolicy, Connect, ConnectFails, InstallMissingMemberships,
      RemoveRedundantMemberships, MembershipsDone, ApplyIdentity, ApplyPolicy, ResetRemote,
      CompletedRestart, CompletedOK, CompletedNothing

\* Rows that stay are as before, but for their state; a request stays one.
LEMMA UpdaterHolds ==
  ASSUME IdInv, [Next]_vars, NEW u \in Updaters, Updater(u)
  PROVE  /\ \A a \in Apps : row'[a].managed => row[a].managed /\ row'[a].id = row[a].id
         /\ NoIdentityIsReset'
         /\ Alone => HoldInv'
<1>1. /\ Typed /\ UpdaterInv(u) /\ row \in [Apps -> Rows]
      /\ NoIdentityIsReset /\ (Alone => HoldInv /\ DueInv(u))
  BY DEF IdInv, IInv, KeptInv, Typed, TypeOK
<1>2. usr' = usr /\ NoRequest
  BY <1>1, UpdaterKeeps
<1>3. RowEffect(u)
  BY <1>1, UpdaterRows
<1>4. ASSUME NEW a \in Apps, row'[a].managed
      PROVE  row[a].managed /\ row'[a].id = row[a].id
  <2>1. row[a] \in Rows
    BY <1>1
  <2>2. CASE row'[a] = row[a]
    BY <1>4, <2>2
  <2>3. CASE row'[a] = [row[a] EXCEPT !.sync = "OK"]
    <3>1. row'[a].managed = row[a].managed /\ row'[a].id = row[a].id
      BY <2>1, <2>3 DEF Rows
    <3> QED
      BY <1>4, <3>1
  <2> QED
    BY <1>3, <1>4, <2>2, <2>3 DEF RowEffect
<1>5. \A x \in Users, a \in Apps : HeldBy(x, a)' <=> HeldBy(x, a)
  BY <1>2 DEF HeldBy
<1>6. NoIdentityIsReset'
  <2>1. SUFFICES ASSUME NEW a \in Apps, row'[a].managed, row'[a].id = 0
                 PROVE  row'[a].sync = "WILL_RESET" \/ \E y \in Users : HeldBy(y, a)'
    BY DEF NoIdentityIsReset, HeldBy
  <2>2. row[a].managed /\ row[a].id = 0
    BY <1>4, <2>1
  <2>3. CASE Requested(a)
    BY <1>2, <2>1, <2>3 DEF NoRequest, Requested
  <2>4. CASE ~Requested(a)
    BY <1>1, <1>5, <2>2, <2>4, HeldOf DEF Requested
  <2> QED
    BY <2>3, <2>4
<1>7. ASSUME Alone PROVE HoldInv'
  <2>1. ASSUME NEW y \in Users, NEW a \in Apps, HeldBy(y, a)'
        PROVE  row'[a].managed /\ row'[a].id = 0 /\ ~Requested(a)'
    <3>1. row[a].managed /\ row[a].id = 0 /\ ~Requested(a)
      BY <1>1, <1>5, <1>7, <2>1 DEF HoldInv
    <3>2. ~Requested(a)'
      BY <1>2, <3>1 DEF NoRequest
    <3>3. row'[a].managed
      <4>1. row[a] \in Rows
        BY <1>1
      <4>2. CASE row'[a] = row[a]
        BY <3>1, <4>2
      <4>3. CASE row'[a] = [row[a] EXCEPT !.sync = "OK"]
        <5>1. row'[a].managed = row[a].managed
          BY <4>1, <4>3 DEF Rows
        <5> QED
          BY <3>1, <5>1
      <4>4. CASE upd[u].app = a /\ upd[u].pc = "report" /\ upd[u].sync = "RESET"
        BY <1>1, <1>7, <3>1, <4>4 DEF DueInv, Requested
      <4> QED
        BY <1>3, <4>2, <4>3, <4>4 DEF RowEffect
    <3> QED
      BY <1>4, <3>1, <3>2, <3>3
  <2>2. ASSUME NEW a \in Apps, Requested(a)' PROVE row'[a].id = 0
    <3>1. row[a].id = 0 /\ row'[a].managed
      BY <1>1, <1>2, <1>7, <2>2 DEF HoldInv, NoRequest, Requested
    <3> QED
      BY <1>4, <3>1
  <2>3. \A y, z \in Users, a \in Apps : HeldBy(y, a)' /\ HeldBy(z, a)' => y = z
    BY <1>1, <1>5, <1>7 DEF HoldInv
  <2> QED
    BY <2>1, <2>2, <2>3 DEF HoldInv
<1> QED
  BY <1>4, <1>6, <1>7

\* What is due for an application stays due until it is removed, and nobody
\* claims it again.
Due(a) == row[a].managed => row[a].sync = "WILL_RESET"

Resets(r) == r.pc = "reset" \/ r.sync \in {"WILL_RESET", "RESET"}

LEMMA DueStays ==
  ASSUME IInv, [Next]_vars, NEW a \in Apps, row'[a].managed => row[a].managed, Due(a)
  PROVE  Due(a)'
BY RequestStays DEF Due

LEMMA DueMoves ==
  ASSUME Typed, NEW u \in Updaters, NEW r, upd' = [upd EXCEPT ![u] = r], NEW a \in Apps,
         r.pc = "idle" \/ (r.app = a /\ (Resets(r) => Due(a)'))
  PROVE  DueInv(u)'
<1>1. upd'[u] = r
  BY DEF Typed, TypeOK
<1> QED
  BY <1>1 DEF DueInv, Due, Resets

LEMMA ReportPc ==
  ASSUME NEW j, NEW s
  PROVE  Report(j, s).pc = "report"
BY DEF Report, Job, NoJob

LEMMA JobPc ==
  ASSUME NEW a, NEW b, NEW s
  PROVE  Job(a, b, s).pc = "start"
BY DEF Job, NoJob

LEMMA DueKept ==
  ASSUME IInv, [Next]_vars, NEW u \in Updaters, DueInv(u), Updater(u),
         \A a \in Apps : row'[a].managed => row[a].managed
  PROVE  DueInv(u)'
<1> DEFINE j == upd[u]
<1>1. /\ Typed /\ j \in Jobs /\ row \in [Apps -> Rows] /\ queue \in Seq(Events)
      /\ (j.pc # "idle" => j.app \in Apps)
      /\ \A b \in Apps : Due(b) => Due(b)'
  BY DueStays DEF IInv, Typed, TypeOK, WorkInv
<1>2. ASSUME NEW r, Step(u, r), NEW a \in Apps, r.app = a, Resets(r) => Due(a)'
      PROVE  DueInv(u)'
  BY <1>1, <1>2, DueMoves DEF Step
<1>3. ASSUME Step(u, NoJob) PROVE DueInv(u)'
  <2>1. upd'[u].pc = "idle"
    BY <1>1, <1>3 DEF Step, NoJob, Typed, TypeOK
  <2> QED
    BY <2>1 DEF DueInv
<1>4. ASSUME NEW r, Step(u, r), j.pc # "idle", r.app = j.app, Resets(r) => Resets(j)
      PROVE  DueInv(u)'
  <2>1. PICK a \in Apps : a = j.app
    BY <1>1, <1>4
  <2>2. Resets(j) => Due(a)'
    BY <1>1, <1>4, <2>1 DEF DueInv, Due, Resets
  <2> QED
    BY <1>2, <1>4, <2>1, <2>2
<1>5. ASSUME NEW a \in Apps, NEW b, NEW s, Step(u, Job(a, b, s)) PROVE DueInv(u)'
  <2>1. PICK r : r = Job(a, b, s)
    OBVIOUS
  <2>2. r.app = a /\ ~Resets(r)
    BY <2>1, JobOf, JobPc DEF Resets
  <2> QED
    BY <1>2, <1>5, <2>1, <2>2
<1>6. ASSUME Step(u, Report(j, j.sync)), j.pc # "idle" PROVE DueInv(u)'
  <2>1. PICK r : r = Report(j, j.sync)
    OBVIOUS
  <2>2. r.app = j.app /\ (Resets(r) => Resets(j))
    BY <2>1, ReportOf, ReportPc DEF Resets
  <2> QED
    BY <1>4, <1>6, <2>1, <2>2
<1>7. ASSUME NEW d, NEW r, RemoteCall(u, d, r), j.pc # "idle", r.app = j.app,
             Resets(r) => Resets(j)
      PROVE  DueInv(u)'
  <2>1. Step(u, r) \/ Step(u, Report(j, j.sync))
    BY <1>7 DEF RemoteCall, GiveUp
  <2> QED
    BY <1>4, <1>6, <1>7, <2>1
<1>8. ASSUME Refused(u), j.pc # "idle" PROVE DueInv(u)'
  BY <1>6, <1>8 DEF Refused, GiveUp
<1>9. ASSUME TakeEvent, u = Queue PROVE DueInv(u)'
  <2>1. PICK e : e = Head(queue)
    OBVIOUS
  <2>2. Step(u, Job(e.app, e.bus, e.state)) \/ Step(u, NoJob)
    BY <1>9, <2>1 DEF TakeEvent
  <2>3. 1 \in DOMAIN queue /\ e = queue[1]
    BY <1>1, <1>9, <2>1, TailOf DEF TakeEvent
  <2>4. e.app \in Apps
    <3>1. e \in Events
      BY <1>1, <2>3
    <3> QED
      BY <3>1 DEF Events
  <2> QED
    BY <1>3, <1>5, <2>2, <2>4
<1>10. ASSUME NEW a \in Apps, DirectCall(u, a) PROVE DueInv(u)'
  BY <1>5, <1>10 DEF DirectCall
<1>11. ASSUME Step(u, NewRound(j)), j.pc # "idle" PROVE DueInv(u)'
  <2> DEFINE k == [j EXCEPT !.sync = row[j.app].sync, !.tx = counter]
  <2>1. PICK a \in Apps : a = j.app
    BY <1>1, <1>11
  <2>2. k.app = a /\ k.sync = row[a].sync /\ k.sync \in SyncStates
    BY <1>1, <2>1 DEF Jobs, Rows
  <2>3. \A pc : /\ [k EXCEPT !.pc = pc].app = k.app /\ [k EXCEPT !.pc = pc].sync = k.sync
                /\ [k EXCEPT !.pc = pc].pc = pc
    BY <1>1 DEF Jobs
  <2>4. \/ NewRound(j) = NoJob
        \/ NewRound(j) = Report(k, "RESET") /\ k.sync = "WILL_RESET"
        \/ NewRound(j) = [k EXCEPT !.pc = "connect"]
        \/ NewRound(j) = [k EXCEPT !.pc = "readMemberships"]
    BY DEF NewRound, Round
  <2> HIDE DEF k
  <2>5. k.sync = "WILL_RESET" => Due(a)'
    BY <1>1, <2>2 DEF Due
  <2>6. CASE NewRound(j) = Report(k, "RESET") /\ k.sync = "WILL_RESET"
    <3>1. PICK r : r = Report(k, "RESET")
      OBVIOUS
    <3>2. r.app = a
      BY <2>2, <3>1, ReportOf
    <3> QED
      BY <1>2, <1>11, <2>5, <2>6, <3>1, <3>2
  <2>7. ASSUME NEW pc \in {"connect", "readMemberships"}, NewRound(j) = [k EXCEPT !.pc = pc]
        PROVE  DueInv(u)'
    <3>1. PICK r : r = [k EXCEPT !.pc = pc]
      OBVIOUS
    <3>2. r.app = a /\ (Resets(r) => Due(a)')
      BY <2>2, <2>3, <2>5, <2>7, <3>1 DEF Resets, SyncStates
    <3> QED
      BY <1>2, <1>11, <2>7, <3>1, <3>2
  <2> QED
    BY <1>3, <1>11, <2>4, <2>6, <2>7
<1>12. ASSUME StartUpdates(u) \/ CompletedRestart(u) PROVE DueInv(u)'
  <2>1. j.pc # "idle" /\ (Step(u, NewRound(j)) \/ Step(u, NoJob))
    BY <1>12 DEF StartUpdates, CompletedRestart
  <2> QED
    BY <1>3, <1>11, <2>1
<1>13. ASSUME \/ ReadMemberships(u) \/ ReadIdentity(u) \/ ReadManifest(u) \/ ReadPolicy(u)
              \/ Connect(u) \/ CompletedOK(u)
       PROVE  DueInv(u)'
  <2>1. j.pc # "idle"
    BY <1>13 DEF ReadMemberships, ReadIdentity, ReadManifest, ReadPolicy, Connect, CompletedOK
  <2>2. ReadMemberships(u) => \E v : Step(u, [j EXCEPT !.pc = "readIdentity", !.mem = v])
    BY DEF ReadMemberships
  <2>3. ReadIdentity(u) => \/ Step(u, NoJob)
                           \/ \E v : Step(u, [j EXCEPT !.pc = "readManifest", !.id = v])
    BY DEF ReadIdentity
  <2>4. ReadManifest(u) => \/ Step(u, NoJob)
                           \/ \E v : Step(u, [j EXCEPT !.pc = "readPolicy", !.mf = v])
    BY DEF ReadManifest
  <2>5. ReadPolicy(u) => \E v : Step(u, [j EXCEPT !.pc = "connect", !.pol = v])
    BY DEF ReadPolicy
  <2>6. Connect(u) \/ CompletedOK(u) =>
          \E pc : Step(u, [j EXCEPT !.pc = pc]) /\ (pc # "reset" \/ j.sync = "WILL_RESET")
    BY DEF Connect, CompletedOK
  <2>7. ASSUME NEW v, \/ Step(u, [j EXCEPT !.pc = "readIdentity", !.mem = v])
                     \/ Step(u, [j EXCEPT !.pc = "readManifest", !.id = v])
                     \/ Step(u, [j EXCEPT !.pc = "readPolicy", !.mf = v])
                     \/ Step(u, [j EXCEPT !.pc = "connect", !.pol = v])
        PROVE  DueInv(u)'
    <3>1. PICK r : \/ r = [j EXCEPT !.pc = "readIdentity", !.mem = v] /\ Step(u, r)
                   \/ r = [j EXCEPT !.pc = "readManifest", !.id = v] /\ Step(u, r)
                   \/ r = [j EXCEPT !.pc = "readPolicy", !.mf = v] /\ Step(u, r)
                   \/ r = [j EXCEPT !.pc = "connect", !.pol = v] /\ Step(u, r)
      BY <2>7
    <3>2. r.app = j.app /\ r.sync = j.sync
      BY <1>1, <3>1 DEF Jobs
    <3>3. r.pc \in {"readIdentity", "readManifest", "readPolicy", "connect"}
      BY <1>1, <3>1 DEF Jobs
    <3>4. Resets(r) => Resets(j)
      BY <3>2, <3>3 DEF Resets
    <3>5. Step(u, r)
      BY <3>1
    <3> QED
      BY <1>4, <2>1, <3>2, <3>4, <3>5
  <2>8. ASSUME NEW pc, Step(u, [j EXCEPT !.pc = pc]), pc # "reset" \/ j.sync = "WILL_RESET"
        PROVE  DueInv(u)'
    <3>1. PICK r : r = [j EXCEPT !.pc = pc]
      OBVIOUS
    <3>2. r.app = j.app /\ r.pc = pc /\ r.sync = j.sync
      BY <1>1, <3>1 DEF Jobs
    <3> QED
      BY <1>4, <2>1, <2>8, <3>1, <3>2 DEF Resets
  <2> QED
    BY <1>3, <1>13, <2>2, <2>3, <2>4, <2>5, <2>6, <2>7, <2>8
<1>14. ASSUME ConnectFails(u) PROVE DueInv(u)'
  <2>1. j.pc # "idle" /\ (Step(u, Report(j, j.sync)) \/ Step(u, NoJob))
    BY <1>14 DEF ConnectFails
  <2> QED
    BY <1>3, <1>6, <2>1
<1>15. ASSUME InstallMissingMemberships(u) \/ RemoveRedundantMemberships(u) PROVE DueInv(u)'
  <2>1. PICK d : RemoteCall(u, d, j)
    BY <1>15 DEF InstallMissingMemberships, RemoveRedundantMemberships
  <2>2. j.pc # "idle"
    BY <1>15 DEF InstallMissingMemberships, RemoveRedundantMemberships
  <2> QED
    BY <1>7, <2>1, <2>2
<1>16. ASSUME MembershipsDone(u) \/ ApplyIdentity(u) PROVE DueInv(u)'
  <2>1. j.pc # "idle"
    BY <1>16 DEF MembershipsDone, ApplyIdentity
  <2>2. \/ Refused(u)
        \/ \E d, pc : RemoteCall(u, d, [j EXCEPT !.pc = pc]) /\ pc \in {"identity", "policy"}
    BY <1>16 DEF MembershipsDone, ApplyIdentity
  <2>3. \A pc : /\ [j EXCEPT !.pc = pc].app = j.app /\ [j EXCEPT !.pc = pc].sync = j.sync
                /\ [j EXCEPT !.pc = pc].pc = pc
    BY <1>1 DEF Jobs
  <2> QED
    BY <1>7, <1>8, <2>1, <2>2, <2>3 DEF Resets
<1>17. ASSUME ApplyPolicy(u) PROVE DueInv(u)'
  <2>1. j.pc # "idle" /\ (Refused(u) \/ \E d : RemoteCall(u, d, Report(j, "OK")))
    BY <1>17 DEF ApplyPolicy
  <2>2. Report(j, "OK").app = j.app /\ ~Resets(Report(j, "OK"))
    BY ReportOf, ReportPc DEF Resets
  <2> QED
    BY <1>7, <1>8, <2>1, <2>2
<1>18. ASSUME ResetRemote(u) PROVE DueInv(u)'
  <2>1. j.pc = "reset" /\ \E d : RemoteCall(u, d, Report(j, "RESET"))
    BY <1>18 DEF ResetRemote
  <2>2. Report(j, "RESET").app = j.app /\ Resets(j)
    BY <2>1, ReportOf DEF Resets
  <2> QED
    BY <1>7, <2>1, <2>2
<1>19. ASSUME CompletedReset(u) \/ CompletedNothing(u) \/ Persist(u) PROVE DueInv(u)'
  BY <1>3, <1>19 DEF CompletedReset, CompletedNothing, Persist
<1> QED
  BY <1>9, <1>10, <1>12, <1>13, <1>14, <1>15, <1>16, <1>17, <1>18, <1>19 DEF Updater

LEMMA DueWaits ==
  ASSUME IInv, [Next]_vars, NEW u \in Updaters, DueInv(u), upd'[u] = upd[u],
         \A a \in Apps : row'[a].managed => row[a].managed
  PROVE  DueInv(u)'
<1>1. CASE upd[u].pc = "idle"
  BY <1>1 DEF DueInv
<1>2. CASE upd[u].pc # "idle"
  <2>1. PICK a \in Apps : a = upd[u].app
    BY <1>2 DEF IInv, Typed, WorkInv
  <2>2. Resets(upd[u]) => Due(a)'
    BY <1>2, <2>1, DueStays DEF DueInv, Due, Resets
  <2> QED
    BY <1>2, <2>1, <2>2 DEF DueInv, Due, Resets
<1> QED
  BY <1>1, <1>2

LEMMA IdInvKept ==
  ASSUME MaxCrashes = 0, Alone \/ OneApp, IdInv, [Next]_vars
  PROVE  IdInv'
<1>1. IInv /\ Typed /\ IInv' /\ serial' > 0
  BY InvariantKept, SerialGrows DEF IdInv, IInv
<1>2. ASSUME NEW x \in Users, User(x) PROVE IdInv'
  <2>1. upd' = upd /\ \A y \in Users \ {x} : usr'[y] = usr[y]
    BY <1>1, <1>2, OneCalls
  <2>2. \A y \in Users : ShapeInv(y)'
    <3>1. \A y \in Users \ {x} : ShapeInv(y)'
      BY <2>1 DEF IdInv, ShapeInv
    <3> QED
      BY <1>2, <3>1, HoldersKept
  <2>3. NoIdentityIsReset' /\ (Alone => HoldInv')
    BY <1>2, UserHolds
  <2>4. ASSUME Alone PROVE \A u \in Updaters : DueInv(u)'
    <3>1. \A a \in Apps : row'[a].managed => row[a].managed
      BY <1>2, <2>4, HoldersKept DEF HoldEffect
    <3> QED
      BY <1>1, <2>1, <2>4, <3>1, DueWaits DEF IdInv
  <2> QED
    BY <1>1, <2>2, <2>3, <2>4 DEF IdInv
<1>3. ASSUME NEW v \in Updaters, Updater(v) PROVE IdInv'
  <2>1. /\ \A a \in Apps : row'[a].managed => row[a].managed
        /\ NoIdentityIsReset' /\ (Alone => HoldInv')
    BY <1>3, UpdaterHolds
  <2>2. usr' = usr
    BY <1>1, <1>3, UpdaterKeeps DEF IInv, KeptInv
  <2>3. \A x \in Users : ShapeInv(x)'
    BY <2>2 DEF IdInv, ShapeInv
  <2>4. ASSUME Alone, NEW u \in Updaters PROVE DueInv(u)'
    <3>1. DueInv(u)
      BY <2>4 DEF IdInv
    <3>2. CASE u = v
      BY <1>1, <1>3, <2>1, <3>1, <3>2, DueKept
    <3>3. CASE u # v
      <4>1. upd'[u] = upd[u]
        BY <1>1, <1>3, <3>3, OneWorks
      <4> QED
        BY <1>1, <2>1, <3>1, <4>1, DueWaits
    <3> QED
      BY <3>2, <3>3
  <2> QED
    BY <1>1, <2>1, <2>3, <2>4 DEF IdInv
<1>4. ASSUME UNCHANGED <<row, usr, upd>> PROVE IdInv'
  <2>1. \A x \in Users : ShapeInv(x)'
    BY <1>4 DEF IdInv, ShapeInv
  <2>2. NoIdentityIsReset'
    BY <1>4 DEF IdInv, NoIdentityIsReset
  <2>3. \A x \in Users, a \in Apps : HeldBy(x, a)' <=> HeldBy(x, a)
    BY <1>4 DEF HeldBy
  <2>4. \A a \in Apps : Requested(a)' <=> Requested(a)
    BY <1>4 DEF Requested
  <2>5. Alone => HoldInv'
    BY <1>4, <2>3, <2>4 DEF IdInv, HoldInv
  <2>6. Alone => \A u \in Updaters : DueInv(u)'
    BY <1>4 DEF IdInv, DueInv
  <2> QED
    BY <1>1, <2>1, <2>2, <2>5, <2>6 DEF IdInv
<1>5. ~Crash
  BY <1>1 DEF Crash, Typed, TypeOK, Bounds
<1>6. ASSUME NEW a \in Apps, State(a) \/ AppStops(a) \/ AppNeedsUpdate(a) \/ AppStarts(a)
      PROVE  IdInv'
  BY <1>4, <1>6 DEF State, AppStops, AppNeedsUpdate, AppStarts, AppEvent
<1> QED
  BY <1>2, <1>3, <1>4, <1>5, <1>6 DEF Next, vars

\* When an identity is removed, none of its holders stays managed without an
\* identity and without a reset, for any number of holders, threads and other
\* changes, restarts and failures of the applications: if nobody resets, removes
\* or claims an application or gives it an identity meanwhile, or if there is
\* one application only.
THEOREM HoldersAreReset ==
  ASSUME MaxCrashes = 0, Alone \/ OneApp
  PROVE  Spec => []NoIdentityIsReset
<1>1. Init => IdInv
  <2>1. SUFFICES ASSUME Init PROVE IdInv
    OBVIOUS
  <2>2. IInv
    BY <2>1, InitTyped, InitKept DEF IInv
  <2>3. \A x \in Users : usr[x] = NoCall
    BY <2>1 DEF Init
  <2>4. \A x \in Users : Tame(usr[x])
    BY <2>3, TameNoCall
  <2>5. \A x \in Users, a \in Apps : ~HeldBy(x, a)
    BY <2>4, TameHolds
  <2>6. \A a \in Apps : /\ row[a].managed => row[a].id = 1
                        /\ row[a].sync = "OK"
    BY <2>1 DEF Init, NewRow, NoRow
  <2>7. NoIdentityIsReset
    BY <2>6 DEF NoIdentityIsReset
  <2>8. HoldInv
    BY <2>5, <2>6 DEF HoldInv, Requested
  <2>9. \A u \in Updaters : DueInv(u)
    BY <2>1 DEF Init, DueInv, NoJob
  <2>10. serial > 0
    BY <2>1 DEF Init
  <2> QED
    BY <2>2, <2>4, <2>7, <2>8, <2>9, <2>10 DEF IdInv, ShapeInv
<1>2. IdInv /\ [Next]_vars => IdInv'
  BY IdInvKept
<1>3. IdInv => NoIdentityIsReset
  BY DEF IdInv
<1> QED
  BY <1>1, <1>2, <1>3, PTL DEF Spec

==============================================================================
