---------------------------- MODULE AgentViewProofs ----------------------------
(***************************************************************************)
(* Proofs about AgentView for any number of applications, threads, calls   *)
(* and starts: type correctness; that an agent which is gone is quiet; and *)
(* that in the end the agent knows of every application what is true, and  *)
(* every change is applied, if calls that remove, claim or wipe are made   *)
(* alone and none is made too early.                                       *)
(***************************************************************************)
EXTENDS AgentView, FiniteSetTheorems, TLAPS

------------------------------------------------------------------------------
(* Types *)

\* What belongs to each place of a thread.
WorkOf(w) ==
  /\ w.pc = "idle" => w = NoWork
  /\ w.pc \in {"store", "start", "work", "report"} => w.app \in Apps /\ w.event = "none"
  /\ w.pc \in {"start", "work", "report"} => w.name \in Names
  /\ w.pc = "start" => w.state = "claimed"
  /\ w.pc = "work" => w.sync \in {"ok", "pending", "will_reset"}
  /\ w.pc = "report" => w.sync = "reset" \/ (w.sync = "ok" /\ w.state # "claimable")
  /\ w.pc \in {"notify", "tell"} =>
       /\ w.event # "none"
       /\ w.event = "wiped" \/ w.app \in Apps
       /\ w.event = "pending" => w.sync \in {"pending", "will_reset"}

\* The signal that the thread of the bus delivers.
BusOf ==
  bus.pc # "idle" => bus.app \in Apps /\ bus.name \in Names

StorageTyped ==
  /\ row \in [Apps -> Stored] /\ counter \in Nat
  /\ listenerLock \in Threads \cup {Nobody}

MonitorTyped ==
  /\ dev \in [Apps -> [up : BOOLEAN, name : Names, state : AppStates]]
  /\ signals \subseteq Apps
  /\ heard \in [Apps -> [Names -> AppStates \cup {"none"}]]
  /\ bus \in [pc : {"idle", "tell", "insert"}, at : Nat,
              app : Apps \cup {Nobody}, name : {0} \cup Names,
              old : AppStates \cup {"none"}, new : AppStates, entry : Views]
  /\ BusOf

AgentTyped ==
  /\ jobs \in Seq(Jobs)
  /\ view \in [Apps -> Views]
  /\ agent \in Phases
  /\ spent \in [calls : 0..MaxCalls, events : 0..MaxEvents, alone : BOOLEAN]

ThreadsTyped ==
  /\ th \in [Threads -> Work]
  /\ \A t \in Threads : WorkOf(th[t])

\* Who is registered in each phase of the agent.
ListenersOf ==
  /\ monitorListeners =
       CASE agent = "created" -> <<>>
         [] agent = "monitored" -> <<"agent">>
         [] agent \in {"updater_monitored", "updater_stored", "up", "unstored"} -> <<"agent", "updater">>
         [] agent \in {"unmonitored", "updater_unstored"} -> <<"updater">>
         [] agent \in {"updater_unmonitored", "gone"} -> <<>>
  /\ storageListeners =
       CASE agent \in {"created", "monitored", "updater_monitored"} -> <<>>
         [] agent = "updater_stored" -> <<"updater">>
         [] agent = "up" -> <<"updater", "agent">>
         [] agent \in {"unstored", "unmonitored"} -> <<"updater">>
         [] agent \in {"updater_unstored", "updater_unmonitored", "gone"} -> <<>>

\* Listeners are called with the lock kept.
Locked ==
  /\ bus.pc # "idle" => bus.at \in 1 .. Len(monitorListeners)
  /\ bus.pc = "insert" => monitorListeners[bus.at] = "agent"
  /\ \A t \in Threads : th[t].pc = "tell" => listenerLock = t /\ th[t].at \in 1 .. Len(storageListeners)

Typed == StorageTyped /\ MonitorTyped /\ AgentTyped /\ ThreadsTyped /\ ListenersOf /\ Locked

------------------------------------------------------------------------------
(* Type correctness *)

\* A listener that unregisters leaves the others.
LEMMA RemoveOne ==
  /\ RemoveFirst(<<"agent", "updater">>, "agent") = <<"updater">>
  /\ RemoveFirst(<<"updater", "agent">>, "agent") = <<"updater">>
  /\ RemoveFirst(<<"updater">>, "updater") = <<>>
<1>1. ASSUME NEW s \in Seq({"agent", "updater"}), NEW i \in 1..Len(s), NEW e,
             \A j \in 1..Len(s) : s[j] = e <=> j = i
      PROVE  RemoveFirst(s, e) = SubSeq(s, 1, i - 1) \o SubSeq(s, i + 1, Len(s))
  <2>1. {j \in 1..Len(s) : s[j] = e} = {i}
    BY <1>1
  <2>2. Min({i}) = i
    BY DEF Min
  <2>3. SelectInSeq(s, LAMBDA v : v = e) = i
    BY <2>1, <2>2, <1>1 DEF SelectInSeq
  <2> QED BY <1>1, <2>3 DEF RemoveFirst, RemoveAt
<1>2. ASSUME NEW r \in Seq({"agent", "updater"}), Len(r) = 1, r[1] = "updater"
      PROVE  r = <<"updater">>
  BY <1>2
<1>3. RemoveFirst(<<"agent", "updater">>, "agent") = <<"updater">>
  <2> DEFINE s == <<"agent", "updater">>
  <2>1. /\ s \in Seq({"agent", "updater"}) /\ 1 \in 1..Len(s) /\ Len(s) = 2
        /\ \A j \in 1..Len(s) : s[j] = "agent" <=> j = 1
    OBVIOUS
  <2>2. RemoveFirst(s, "agent") = SubSeq(s, 1, 1 - 1) \o SubSeq(s, 1 + 1, Len(s))
    <3> HIDE DEF s
    <3> QED BY <1>1, <2>1
  <2>3. SubSeq(s, 1, 0) = <<>>
    OBVIOUS
  <2>4. SubSeq(s, 2, 2) = <<"updater">>
    <3>1. SubSeq(s, 2, 2) \in Seq({"agent", "updater"}) /\ Len(SubSeq(s, 2, 2)) = 1
      OBVIOUS
    <3>2. SubSeq(s, 2, 2)[1] = "updater"
      OBVIOUS
    <3> QED BY <3>1, <3>2, <1>2
  <2> QED BY <2>1, <2>2, <2>3, <2>4
<1>4. RemoveFirst(<<"updater", "agent">>, "agent") = <<"updater">>
  <2> DEFINE s == <<"updater", "agent">>
  <2>1. /\ s \in Seq({"agent", "updater"}) /\ 2 \in 1..Len(s) /\ Len(s) = 2
        /\ \A j \in 1..Len(s) : s[j] = "agent" <=> j = 2
    OBVIOUS
  <2>2. RemoveFirst(s, "agent") = SubSeq(s, 1, 2 - 1) \o SubSeq(s, 2 + 1, Len(s))
    <3> HIDE DEF s
    <3> QED BY <1>1, <2>1
  <2>3. SubSeq(s, 3, 2) = <<>>
    OBVIOUS
  <2>4. SubSeq(s, 1, 1) = <<"updater">>
    <3>1. SubSeq(s, 1, 1) \in Seq({"agent", "updater"}) /\ Len(SubSeq(s, 1, 1)) = 1
      OBVIOUS
    <3>2. SubSeq(s, 1, 1)[1] = "updater"
      OBVIOUS
    <3> QED BY <3>1, <3>2, <1>2
  <2> QED BY <2>1, <2>2, <2>3, <2>4
<1>5. RemoveFirst(<<"updater">>, "updater") = <<>>
  <2> DEFINE s == <<"updater">>
  <2>1. /\ s \in Seq({"agent", "updater"}) /\ 1 \in 1..Len(s) /\ Len(s) = 1
        /\ \A j \in 1..Len(s) : s[j] = "updater" <=> j = 1
    OBVIOUS
  <2>2. RemoveFirst(s, "updater") = SubSeq(s, 1, 1 - 1) \o SubSeq(s, 1 + 1, Len(s))
    <3> HIDE DEF s
    <3> QED BY <1>1, <2>1
  <2>3. SubSeq(s, 1, 0) = <<>> /\ SubSeq(s, 2, 1) = <<>>
    OBVIOUS
  <2> QED BY <2>1, <2>2, <2>3
<1> QED BY <1>3, <1>4, <1>5

LEMMA Appended ==
  ASSUME NEW S, NEW q \in Seq(S), NEW e \in S
  PROVE  /\ Append(q, e) \in Seq(S)
         /\ Len(Append(q, e)) = Len(q) + 1
         /\ \A i \in 1 .. Len(q) : Append(q, e)[i] = q[i]
         /\ Append(q, e)[Len(q) + 1] = e
<1>1. Append(q, e) \in Seq(S)
  OBVIOUS
<1>2. Len(Append(q, e)) = Len(q) + 1
  OBVIOUS
<1>3. \A i \in 1 .. Len(q) : Append(q, e)[i] = q[i]
  OBVIOUS
<1>4. Append(q, e)[Len(q) + 1] = e
  OBVIOUS
<1> QED BY <1>1, <1>2, <1>3, <1>4

LEMMA AppendTwo ==
  ASSUME NEW x, NEW y
  PROVE  Append(<<x>>, y) = <<x, y>>
<1>1. PICK q : q = <<x>>
  OBVIOUS
<1>2. q \in Seq({x, y}) /\ Len(q) = 1 /\ q[1] = x
  BY <1>1
<1>3. PICK S : S = {x, y}
  OBVIOUS
<1>4. PICK r : r = Append(q, y)
  OBVIOUS
<1>5. q \in Seq(S) /\ y \in S
  BY <1>2, <1>3
<1>6. /\ r \in Seq(S) /\ Len(r) = Len(q) + 1 /\ r[Len(q) + 1] = y
      /\ \A i \in 1 .. Len(q) : r[i] = q[i]
  BY <1>4, <1>5, Appended
<1>7. Len(r) = 2 /\ r[1] = x /\ r[2] = y
  BY <1>2, <1>6
<1>8. r = <<x, y>>
  <2>1. ASSUME NEW T, NEW s \in Seq(T), Len(s) = 2, s[1] = x, s[2] = y PROVE s = <<x, y>>
    BY <2>1
  <2> QED BY <1>6, <1>7, <2>1
<1> QED BY <1>1, <1>4, <1>8

\* The applications that were heard of, in some order.
LEMMA InSomeOrder ==
  ASSUME NEW S, IsFiniteSet(S)
  PROVE  SetToSeq(S) \in Seq(S)
<1>1. Cardinality(S) \in Nat /\ ExistsBijection(1..Cardinality(S), S)
  BY FS_CardinalityType
<1>2. PICK f \in [1..Cardinality(S) -> S] : IsInjective(f)
  BY <1>1 DEF ExistsBijection, Bijection, Injection
<1>3. SetToSeq(S) \in [1..Cardinality(S) -> S]
  BY <1>2 DEF SetToSeq
<1> QED BY <1>1, <1>3

LEMMA Rows == Apps \cap {Nobody} = {} /\ Updater \in Threads /\ Users \subseteq Threads /\ Nobody \notin Threads
BY AgentViewAssumption DEF Threads

LEMMA Names0 == Names \subseteq Nat \ {0} /\ 1 \in Names
BY AgentViewAssumption DEF Names

LEMMA Idle == NoWork \in Work /\ WorkOf(NoWork)
BY DEF NoWork, Work, WorkOf, Pcs, AppStates, Stored

\* Only an application that is not in the map has the name 0.
LEMMA UnknownName ==
  ASSUME NEW v \in Views
  PROVE  /\ v = Unknown <=> v.name = 0
         /\ v.name # 0 => v.name \in Names /\ v.state \in AppStates /\ v.sync \in SyncStates
<1>1. CASE v = Unknown
  BY <1>1 DEF Unknown
<1>2. CASE v \in [name : Names, state : AppStates, sync : SyncStates]
  BY <1>2, Names0 DEF Unknown
<1> QED BY <1>1, <1>2 DEF Views, Unknown

LEMMA UnknownView == Unknown \in Views /\ Unknown.name = 0
BY DEF Unknown, Views

LEMMA KnownView ==
  ASSUME NEW n \in Names, NEW st \in AppStates, NEW sy \in SyncStates
  PROVE  [name |-> n, state |-> st, sync |-> sy] \in Views
BY DEF Views

\* A step of one thread.
LEMMA ThreadTyped ==
  ASSUME Typed, NEW t \in Threads, NEW w \in Work, WorkOf(w), th' = [th EXCEPT ![t] = w]
  PROVE  ThreadsTyped' /\ th'[t] = w /\ \A u \in Threads \ {t} : th'[u] = th[u]
<1>1. th \in [Threads -> Work] /\ \A u \in Threads : WorkOf(th[u])
  BY DEF Typed, ThreadsTyped
<1>2. th' \in [Threads -> Work] /\ th'[t] = w /\ \A u \in Threads \ {t} : th'[u] = th[u]
  BY <1>1
<1>3. ASSUME NEW u \in Threads PROVE WorkOf(th'[u])
  BY <1>1, <1>2, <1>3
<1> QED BY <1>2, <1>3 DEF ThreadsTyped, WorkOf, NoWork

\* and the locks that it does not touch.
LEMMA LocksStay ==
  ASSUME Typed, UNCHANGED <<agent, monitorListeners, storageListeners, listenerLock>>,
         UNCHANGED bus \/ bus'.pc = "idle"
           \/ (bus'.at \in 1 .. Len(monitorListeners) /\ (bus'.pc = "insert" => monitorListeners[bus'.at] = "agent")),
         \A t \in Threads : th'[t] = th[t] \/ th'[t].pc # "tell"
  PROVE  ListenersOf' /\ Locked'
<1>1. ListenersOf'
  BY DEF Typed, ListenersOf
<1>2. Locked'
  BY DEF Typed, Locked
<1> QED BY <1>1, <1>2

LEMMA PhaseNames ==
  /\ Range(Starting) = {"created", "monitored", "updater_monitored", "updater_stored"}
  /\ Phases = {"created", "monitored", "updater_monitored", "updater_stored", "up",
               "unstored", "unmonitored", "updater_unstored", "updater_unmonitored", "gone"}
<1>1. Range(Starting) = {"created", "monitored", "updater_monitored", "updater_stored"}
  <2>1. Range(Starting) = {Starting[i] : i \in 1 .. 4}
    BY DEF Range, Starting
  <2>2. 1 .. 4 = {1, 2, 3, 4}
    OBVIOUS
  <2> QED BY <2>1, <2>2 DEF Starting
<1>2. Range(Leaving) = {"unstored", "unmonitored", "updater_unstored", "updater_unmonitored"}
  <2>1. Range(Leaving) = {Leaving[i] : i \in 1 .. 4}
    BY DEF Range, Leaving
  <2>2. 1 .. 4 = {1, 2, 3, 4}
    OBVIOUS
  <2> QED BY <2>1, <2>2 DEF Leaving
<1> QED BY <1>1, <1>2 DEF Phases

\* What lists of listeners there are.
LEMMA Listeners ==
  ASSUME Typed
  PROVE  /\ monitorListeners \in {<<>>, <<"agent">>, <<"agent", "updater">>, <<"updater">>}
         /\ storageListeners \in {<<>>, <<"updater">>, <<"updater", "agent">>}
<1>1. agent \in Phases /\ ListenersOf
  BY DEF Typed, AgentTyped
<1>2. agent \in {"created", "monitored", "updater_monitored", "updater_stored", "up",
               "unstored", "unmonitored", "updater_unstored", "updater_unmonitored", "gone"}
  BY <1>1, PhaseNames
<1> QED BY <1>1, <1>2 DEF ListenersOf

LEMMA BeginsTyped ==
  ASSUME Typed, NEW t \in Users, NEW kind, Begins(t, kind)
  PROVE  /\ t \in Threads /\ th[t] = NoWork
         /\ spent' \in [calls : 0..MaxCalls, events : 0..MaxEvents, alone : BOOLEAN]
<1>1. spent \in [calls : 0..MaxCalls, events : 0..MaxEvents, alone : BOOLEAN] /\ t \in Threads
  BY Rows DEF Typed, AgentTyped
<1>2. (kind \in Alone) \in BOOLEAN
  OBVIOUS
<1>3. spent' = [spent EXCEPT !.calls = @ + 1, !.alone = kind \in Alone] /\ spent.calls < MaxCalls
  BY DEF Begins
<1>4. spent.calls + 1 \in 0..MaxCalls
  BY <1>1, <1>3, AgentViewAssumption
<1>5. th[t] = NoWork
  BY <1>1 DEF Begins, Typed, ThreadsTyped, WorkOf
<1> QED BY <1>1, <1>2, <1>3, <1>4, <1>5

\* What a notification says belongs to a thread.
LEMMA NotifyTyped ==
  ASSUME Typed, NEW t \in Threads, NEW a \in Apps \cup {Nobody}, NEW event, NEW sync,
         Notify(t, a, event, sync),
         event \in {"pending", "completed", "added", "removed", "wiped"}, a \in Apps \/ event = "wiped",
         sync \in Stored, event = "pending" => sync \in {"pending", "will_reset"}
  PROVE  /\ ThreadsTyped'
         /\ \A u \in Threads : th'[u] = th[u] \/ th'[u].pc # "tell"
         /\ th'[t].pc = "notify" /\ th'[t].app = a /\ th'[t].event = event /\ th'[t].sync = sync
         /\ th'[t].tx = 0
         /\ \A u \in Threads \ {t} : th'[u] = th[u]
<1>1. PICK w : w = [NoWork EXCEPT !.pc = "notify", !.app = a, !.event = event, !.sync = sync]
  OBVIOUS
<1>2. w.pc = "notify" /\ w.app = a /\ w.event = event /\ w.sync = sync /\ w.tx = 0
  BY <1>1 DEF NoWork
<1>3. w \in Work
  BY <1>1 DEF NoWork, Work, Pcs, AppStates
<1>4. WorkOf(w)
  BY <1>2 DEF WorkOf
<1>5. th' = [th EXCEPT ![t] = w]
  BY <1>1 DEF Notify
<1>6. ThreadsTyped' /\ th'[t] = w /\ \A u \in Threads \ {t} : th'[u] = th[u]
  BY <1>3, <1>4, <1>5, ThreadTyped
<1> QED BY <1>2, <1>6

LEMMA InitTyped == Init => Typed
<1> SUFFICES ASSUME Init PROVE Typed
  OBVIOUS
<1>1. PICK claimed \in SUBSET Apps :
        /\ row = [a \in Apps |-> IF a \in claimed THEN "ok" ELSE "none"]
        /\ dev = [a \in Apps |-> [up |-> TRUE, name |-> 1,
                                  state |-> IF a \in claimed THEN "claimed" ELSE "claimable"]]
  BY DEF Init
<1>2. StorageTyped
  BY <1>1 DEF Init, StorageTyped, Stored
<1>3. dev \in [Apps -> [up : BOOLEAN, name : Names, state : AppStates]]
  BY <1>1, Names0 DEF AppStates
<1>4. bus \in [pc : {"idle", "tell", "insert"}, at : Nat,
              app : Apps \cup {Nobody}, name : {0} \cup Names,
              old : AppStates \cup {"none"}, new : AppStates, entry : Views] /\ bus.pc = "idle"
  BY UnknownView DEF Init, NoSignal, AppStates
<1>5. MonitorTyped
  BY <1>3, <1>4 DEF Init, MonitorTyped, BusOf
<1>6. AgentTyped
  <2>1. jobs \in Seq(Jobs) /\ view \in [Apps -> Views]
    BY UnknownView DEF Init
  <2>2. spent \in [calls : 0..MaxCalls, events : 0..MaxEvents, alone : BOOLEAN]
    BY AgentViewAssumption DEF Init
  <2>3. agent = "created" /\ agent \in Phases
    BY DEF Init, Phases, Range, Starting
  <2> QED BY <2>1, <2>2, <2>3 DEF AgentTyped
<1>7. ThreadsTyped
  BY Idle DEF Init, ThreadsTyped
<1>8. ListenersOf /\ Locked
  BY <1>4 DEF Init, ListenersOf, Locked, NoWork
<1> QED BY <1>2, <1>5, <1>6, <1>7, <1>8 DEF Typed

\* Nothing in the agent but its life is at stake in a step of an application.
LEMMA AppTyped ==
  ASSUME Typed, NEW a \in Apps, AppStops(a) \/ AppStarts(a) \/ AppNeedsUpdate(a)
  PROVE  Typed'
<1>1. dev \in [Apps -> [up : BOOLEAN, name : Names, state : AppStates]]
  BY DEF Typed, MonitorTyped
<1>2. dev' \in [Apps -> [up : BOOLEAN, name : Names, state : AppStates]] /\ signals' \subseteq Apps
  <2>1. CASE AppStops(a)
    BY <1>1, <2>1 DEF AppStops, Typed, MonitorTyped
  <2>2. CASE AppStarts(a)
    <3>1. dev[a].name + 1 \in Names
      BY <1>1, <2>2, AgentViewAssumption DEF AppStarts, Names
    <3> QED BY <1>1, <2>2, <3>1 DEF AppStarts, Typed, MonitorTyped
  <2>3. CASE AppNeedsUpdate(a)
    BY <1>1, <2>3 DEF AppNeedsUpdate, Typed, MonitorTyped, AppStates
  <2> QED BY <2>1, <2>2, <2>3
<1>3. spent' \in [calls : 0..MaxCalls, events : 0..MaxEvents, alone : BOOLEAN]
  <2>1. spent \in [calls : 0..MaxCalls, events : 0..MaxEvents, alone : BOOLEAN]
    BY DEF Typed, AgentTyped
  <2>2. CASE Happens
    BY <2>1, <2>2, AgentViewAssumption DEF Happens
  <2>3. CASE UNCHANGED spent
    BY <2>1, <2>3
  <2> QED BY <2>2, <2>3 DEF AppStops, AppStarts, AppNeedsUpdate
<1>4. UNCHANGED <<row, counter, listenerLock, storageListeners, heard, monitorListeners, bus, jobs, view, th, agent>>
  BY DEF AppStops, AppStarts, AppNeedsUpdate, storage
<1>5. StorageTyped' /\ ThreadsTyped'
  BY <1>4 DEF Typed, StorageTyped, ThreadsTyped, WorkOf, NoWork
<1>6. MonitorTyped'
  BY <1>2, <1>4 DEF Typed, MonitorTyped, BusOf
<1>7. AgentTyped'
  BY <1>3, <1>4 DEF Typed, AgentTyped
<1>8. ListenersOf' /\ Locked'
  BY <1>4, LocksStay
<1> QED BY <1>5, <1>6, <1>7, <1>8 DEF Typed

\* The bus: a signal is delivered, and passed on.
LEMMA CalledTyped ==
  ASSUME Typed, bus.pc # "idle", Called
  PROVE  /\ bus' \in [pc : {"idle", "tell", "insert"}, at : Nat,
                      app : Apps \cup {Nobody}, name : {0} \cup Names,
                      old : AppStates \cup {"none"}, new : AppStates, entry : Views]
         /\ BusOf'
         /\ bus'.pc = "idle"
              \/ (bus'.at \in 1 .. Len(monitorListeners) /\ bus'.pc = "tell")
<1>1. /\ bus \in [pc : {"idle", "tell", "insert"}, at : Nat,
                  app : Apps \cup {Nobody}, name : {0} \cup Names,
                  old : AppStates \cup {"none"}, new : AppStates, entry : Views]
      /\ bus.app \in Apps /\ bus.name \in Names
  BY DEF Typed, MonitorTyped, BusOf
<1>2. bus.at \in 1 .. Len(monitorListeners)
  BY DEF Typed, Locked
<1>5. Len(monitorListeners) \in Nat
  BY Listeners
<1>3. CASE bus.at = Len(monitorListeners)
  <2>1. bus' = NoSignal
    BY <1>3 DEF Called
  <2> QED BY <2>1, UnknownView DEF NoSignal, AppStates, BusOf
<1>4. CASE bus.at # Len(monitorListeners)
  <2>1. bus' = [bus EXCEPT !.pc = "tell", !.at = @ + 1]
    BY <1>4 DEF Called
  <2>2. bus.at + 1 \in 1 .. Len(monitorListeners) /\ bus.at + 1 \in Nat
    BY <1>2, <1>4, <1>5
  <2> QED BY <1>1, <2>1, <2>2 DEF BusOf
<1> QED BY <1>3, <1>4

LEMMA StateTyped ==
  ASSUME Typed, NEW a \in Apps, State(a)
  PROVE  Typed'
<1>1. /\ dev[a].name \in Names /\ dev[a].state \in AppStates
      /\ heard \in [Apps -> [Names -> AppStates \cup {"none"}]]
  BY DEF Typed, MonitorTyped
<1>2. /\ signals' = signals \ {a}
      /\ heard' = [heard EXCEPT ![a][dev[a].name] = dev[a].state]
      /\ bus' = IF monitorListeners = <<>> THEN NoSignal
                ELSE [NoSignal EXCEPT !.pc = "tell", !.at = 1, !.app = a, !.name = dev[a].name,
                                      !.old = heard[a][dev[a].name], !.new = dev[a].state]
      /\ UNCHANGED <<row, counter, storageListeners, listenerLock, dev, monitorListeners, jobs, view, th, agent, spent>>
  BY DEF State, storage
<1>3. heard' \in [Apps -> [Names -> AppStates \cup {"none"}]] /\ signals' \subseteq Apps
  BY <1>1, <1>2 DEF Typed, MonitorTyped
<1>4. /\ bus' \in [pc : {"idle", "tell", "insert"}, at : Nat,
                   app : Apps \cup {Nobody}, name : {0} \cup Names,
                   old : AppStates \cup {"none"}, new : AppStates, entry : Views]
      /\ BusOf'
      /\ bus'.pc = "idle" \/ (bus'.at = 1 /\ bus'.pc = "tell" /\ monitorListeners # <<>>)
  <2>1. CASE monitorListeners = <<>>
    <3>1. bus' = NoSignal
      BY <1>2, <2>1
    <3> QED BY <3>1, UnknownView DEF NoSignal, AppStates, BusOf
  <2>2. CASE monitorListeners # <<>>
    <3>1. bus' = [NoSignal EXCEPT !.pc = "tell", !.at = 1, !.app = a, !.name = dev[a].name,
                                      !.old = heard[a][dev[a].name], !.new = dev[a].state]
      BY <1>2, <2>2
    <3>2. heard[a][dev[a].name] \in AppStates \cup {"none"}
      BY <1>1
    <3> QED BY <1>1, <2>2, <3>1, <3>2, UnknownView DEF NoSignal, AppStates, BusOf
  <2> QED BY <2>1, <2>2
<1>5. MonitorTyped'
  BY <1>2, <1>3, <1>4 DEF Typed, MonitorTyped
<1>6. StorageTyped' /\ ThreadsTyped' /\ AgentTyped'
  BY <1>2 DEF Typed, StorageTyped, ThreadsTyped, WorkOf, NoWork, AgentTyped
<1>7. ListenersOf' /\ Locked'
  <2>1. monitorListeners # <<>> => 1 \in 1 .. Len(monitorListeners)
    BY Listeners
  <2> QED BY <1>2, <1>4, <2>1, LocksStay
<1> QED BY <1>5, <1>6, <1>7 DEF Typed

LEMMA BusTyped ==
  ASSUME Typed, Bus
  PROVE  Typed'
<1>1. /\ UNCHANGED <<row, counter, storageListeners, listenerLock, dev, signals, heard, monitorListeners, th, agent, spent>>
      /\ bus.pc # "idle"
  BY DEF Bus, UpdateKnown, LookUp, Insert, AddJob, storage, Calling
<1>2. /\ bus \in [pc : {"idle", "tell", "insert"}, at : Nat,
                  app : Apps \cup {Nobody}, name : {0} \cup Names,
                  old : AppStates \cup {"none"}, new : AppStates, entry : Views]
      /\ bus.app \in Apps /\ bus.name \in Names /\ view \in [Apps -> Views] /\ jobs \in Seq(Jobs)
      /\ row \in [Apps -> Stored]
  BY <1>1 DEF Typed, MonitorTyped, BusOf, AgentTyped, StorageTyped
<1>3. /\ bus' \in [pc : {"idle", "tell", "insert"}, at : Nat,
                   app : Apps \cup {Nobody}, name : {0} \cup Names,
                   old : AppStates \cup {"none"}, new : AppStates, entry : Views]
      /\ BusOf'
      /\ bus'.pc = "idle"
           \/ (bus'.at \in 1 .. Len(monitorListeners) /\ (bus'.pc = "insert" => monitorListeners[bus'.at] = "agent"))
  <2>1. CASE Called
    BY <1>1, <2>1, CalledTyped
  <2>2. CASE LookUp
    <3>1. PICK sy : sy = IF row[bus.app] = "none" THEN "unmanaged" ELSE row[bus.app]
      OBVIOUS
    <3>2. sy \in SyncStates
      <4>1. row[bus.app] \in Stored
        BY <1>2
      <4> QED BY <3>1, <4>1 DEF Stored, SyncStates
    <3>3. PICK v : v = [name |-> bus.name, state |-> bus.new, sync |-> sy]
      OBVIOUS
    <3>4. v \in Views
      BY <1>2, <3>2, <3>3, KnownView
    <3>5. bus' = [bus EXCEPT !.pc = "insert", !.entry = v]
      BY <2>2, <3>1, <3>3 DEF LookUp
    <3>6. bus.at \in 1 .. Len(monitorListeners) /\ monitorListeners[bus.at] = "agent"
      BY <1>1, <2>2 DEF LookUp, Calling, Typed, Locked
    <3> QED BY <1>2, <3>4, <3>5, <3>6 DEF BusOf
  <2> QED BY <2>1, <2>2 DEF Bus, UpdateKnown, Insert, AddJob
<1>4. view' \in [Apps -> Views]
  <2>1. CASE UpdateKnown
    <3>1. view[bus.app] \in Views /\ view[bus.app].name # 0
      BY <1>2, <2>1, UnknownName DEF UpdateKnown
    <3>2. view[bus.app] \in [name : Names, state : AppStates, sync : SyncStates]
      BY <3>1 DEF Views
    <3>3. [view[bus.app] EXCEPT !.name = bus.name, !.state = bus.new] \in Views
      BY <1>2, <3>2 DEF Views
    <3>4. view' = [view EXCEPT ![bus.app] = [view[bus.app] EXCEPT !.name = bus.name, !.state = bus.new]]
      BY <2>1 DEF UpdateKnown
    <3> QED BY <1>2, <3>3, <3>4
  <2>2. CASE Insert
    BY <1>2, <2>2 DEF Insert
  <2> QED BY <1>2, <2>1, <2>2 DEF Bus, LookUp, AddJob
<1>5. jobs' \in Seq(Jobs)
  <2>1. CASE AddJob
    <3>1. [app |-> bus.app, name |-> bus.name, old |-> bus.old, new |-> bus.new] \in Jobs
      BY <1>2 DEF Jobs
    <3> QED BY <1>2, <2>1, <3>1 DEF AddJob
  <2> QED BY <1>2, <2>1 DEF Bus, LookUp, UpdateKnown, Insert
<1>6. MonitorTyped'
  BY <1>1, <1>3 DEF Typed, MonitorTyped
<1>7. StorageTyped' /\ ThreadsTyped' /\ AgentTyped'
  BY <1>1, <1>4, <1>5 DEF Typed, StorageTyped, ThreadsTyped, WorkOf, NoWork, AgentTyped
<1>8. ListenersOf' /\ Locked'
  BY <1>1, <1>3, LocksStay
<1> QED BY <1>6, <1>7, <1>8 DEF Typed

\* Threads that move do what belongs to their place, and take no lock.
ThreadsMove == ThreadsTyped' /\ \A u \in Threads : th'[u] = th[u] \/ th'[u].pc # "tell"

\* The calls of the users.
LEMMA UserTyped ==
  ASSUME Typed, NEW t \in Users, User(t)
  PROVE  Typed'
<1>1. t \in Threads /\ row \in [Apps -> Stored] /\ counter \in Nat
  BY Rows DEF Typed, StorageTyped
<1>2. /\ UNCHANGED <<storageListeners, listenerLock, heard, monitorListeners, bus, jobs, agent>>
  BY DEF User, ApplicationUpdated, ResetApplication, RemoveApplication, Claim, UpdateApplications,
         Wipe, ApplicationClaimed, storage, monitor
<1>3. StorageTyped'
  <2>1. counter' = counter \/ counter' = counter + 1
    BY DEF User, ApplicationUpdated, ResetApplication, RemoveApplication, Claim,
                UpdateApplications, Wipe, ApplicationClaimed, storage
  <2>2. row' \in [Apps -> Stored]
    BY <1>1 DEF User, ApplicationUpdated, ResetApplication, RemoveApplication, Claim,
                UpdateApplications, Wipe, ApplicationClaimed, storage, Stored
  <2> QED BY <1>1, <1>2, <2>1, <2>2 DEF Typed, StorageTyped
<1>4. MonitorTyped'
  <2>1. dev \in [Apps -> [up : BOOLEAN, name : Names, state : AppStates]] /\ signals \subseteq Apps
    BY DEF Typed, MonitorTyped
  <2>2. dev' \in [Apps -> [up : BOOLEAN, name : Names, state : AppStates]] /\ signals' \subseteq Apps
    <3>1. ASSUME NEW a \in Apps, Claim(t, a)
          PROVE  dev' \in [Apps -> [up : BOOLEAN, name : Names, state : AppStates]] /\ signals' \subseteq Apps
      BY <2>1, <3>1 DEF Claim, AppStates
    <3> QED BY <2>1, <3>1 DEF User, ApplicationUpdated, ResetApplication, RemoveApplication,
                UpdateApplications, Wipe, ApplicationClaimed, monitor
  <2> QED BY <1>2, <2>2 DEF Typed, MonitorTyped, BusOf
<1>5. /\ spent' \in [calls : 0..MaxCalls, events : 0..MaxEvents, alone : BOOLEAN]
  <2>1. ASSUME NEW kind, Begins(t, kind)
        PROVE  spent' \in [calls : 0..MaxCalls, events : 0..MaxEvents, alone : BOOLEAN]
    BY <2>1, BeginsTyped
  <2>2. ASSUME ApplicationClaimed(t)
        PROVE  spent' \in [calls : 0..MaxCalls, events : 0..MaxEvents, alone : BOOLEAN]
    BY <2>2 DEF ApplicationClaimed, Typed, AgentTyped
  <2> QED BY <2>1, <2>2 DEF User, ApplicationUpdated, ResetApplication, RemoveApplication, Claim,
                UpdateApplications, Wipe
<1>6. view' \in [Apps -> Views]
  <2>1. view \in [Apps -> Views]
    BY DEF Typed, AgentTyped
  <2>2. ASSUME NEW a \in Apps, UpdateApplications(t, a) PROVE view' \in [Apps -> Views]
    <3>1. view[a].name # 0 /\ view[a] # Unknown
      BY <2>1, <2>2, UnknownName DEF UpdateApplications
    <3>2. view[a] \in [name : Names, state : AppStates, sync : SyncStates]
      BY <2>1, <3>1 DEF Views
    <3>3. [view[a] EXCEPT !.sync = "ok"] \in Views
      BY <3>2 DEF Views, SyncStates
    <3>4. view' = [view EXCEPT ![a] = [view[a] EXCEPT !.sync = "ok"]]
      BY <2>2, <3>1 DEF UpdateApplications, SetSyncState
    <3> QED BY <2>1, <3>3, <3>4
  <2> QED BY <2>1, <2>2 DEF User, ApplicationUpdated, ResetApplication, RemoveApplication, Claim,
                Wipe, ApplicationClaimed
<1>7. ThreadsMove
  <2>1. ASSUME NEW a \in Apps, ApplicationUpdated(t, a) PROVE ThreadsMove
    <3>1. row'[a] \in {"pending", "will_reset"}
      BY <1>1, <2>1 DEF ApplicationUpdated, Stored
    <3> QED BY <1>1, <2>1, <3>1, NotifyTyped DEF ApplicationUpdated, Stored, ThreadsMove
  <2>2. ASSUME NEW a \in Apps, ResetApplication(t, a) PROVE ThreadsMove
    BY <1>1, <2>2, NotifyTyped DEF ResetApplication, Stored, ThreadsMove
  <2>3. ASSUME NEW a \in Apps, RemoveApplication(t, a) PROVE ThreadsMove
    BY <1>1, <2>3, NotifyTyped DEF RemoveApplication, Stored, ThreadsMove
  <2>4. ASSUME Wipe(t) PROVE ThreadsMove
    BY <1>1, <2>4, NotifyTyped DEF Wipe, Stored, ThreadsMove
  <2>5. ASSUME ApplicationClaimed(t) PROVE ThreadsMove
    <3>1. th[t].app \in Apps
      BY <1>1, <2>5 DEF ApplicationClaimed, Typed, ThreadsTyped, WorkOf
    <3> QED BY <1>1, <2>5, <3>1, NotifyTyped DEF ApplicationClaimed, Stored, ThreadsMove
  <2>6. ASSUME NEW a \in Apps, Claim(t, a) PROVE ThreadsMove
    <3>1. PICK w : w = [NoWork EXCEPT !.pc = "store", !.app = a]
      OBVIOUS
    <3>2. w \in Work /\ w.pc = "store" /\ w.app = a /\ w.event = "none"
      BY <3>1 DEF NoWork, Work, Pcs, AppStates, Stored
    <3>3. WorkOf(w)
      BY <3>2 DEF WorkOf
    <3> QED BY <1>1, <2>6, <3>1, <3>2, <3>3, ThreadTyped DEF Claim, ThreadsMove
  <2>7. ASSUME NEW a \in Apps, UpdateApplications(t, a) PROVE ThreadsMove
    <3>1. view[a].name \in Names /\ view[a].state = "claimed"
      BY <2>7, UnknownName DEF UpdateApplications, Typed, AgentTyped
    <3>2. PICK w : w = [NoWork EXCEPT !.pc = "start", !.app = a,
                                      !.name = view[a].name, !.state = view[a].state]
      OBVIOUS
    <3>3. w \in Work /\ w.pc = "start" /\ w.app = a /\ w.event = "none" /\ w.name \in Names /\ w.state = "claimed"
      BY <3>1, <3>2 DEF NoWork, Work, Pcs, AppStates, Stored
    <3>4. WorkOf(w)
      BY <3>3 DEF WorkOf
    <3> QED BY <1>1, <2>7, <3>2, <3>3, <3>4, ThreadTyped DEF UpdateApplications, ThreadsMove
  <2> QED BY <2>1, <2>2, <2>3, <2>4, <2>5, <2>6, <2>7 DEF User
<1>8. AgentTyped'
  BY <1>2, <1>5, <1>6 DEF Typed, AgentTyped
<1>9. ListenersOf' /\ Locked'
  BY <1>2, <1>7, LocksStay DEF ThreadsMove
<1> QED BY <1>3, <1>4, <1>7, <1>8, <1>9 DEF Typed, ThreadsMove

\* Notifications, with the lock of the listeners kept.
LEMMA NotificationsTyped ==
  ASSUME Typed, NEW t \in Threads, Notifications(t)
  PROVE  Typed'
<1>1. /\ UNCHANGED <<row, counter, storageListeners, dev, signals, heard, monitorListeners, bus, agent, spent>>
      /\ th[t] \in Work /\ WorkOf(th[t])
      /\ th[t].pc \in {"notify", "tell"}
  BY DEF Notifications, LockListeners, OnPendingChanges, OnStorageEvent, Telling, monitor, Typed, ThreadsTyped
<1>2. /\ th[t].event # "none" /\ (th[t].event = "wiped" \/ th[t].app \in Apps)
      /\ th[t].event = "pending" => th[t].sync \in {"pending", "will_reset"}
      /\ th[t].event \in {"pending", "completed", "added", "removed", "wiped"}
  BY <1>1 DEF WorkOf, Work
<1>3. /\ view \in [Apps -> Views] /\ jobs \in Seq(Jobs)
      /\ heard \in [Apps -> [Names -> AppStates \cup {"none"}]]
  BY DEF Typed, AgentTyped, MonitorTyped
<1>4. ASSUME NEW n \in Nat
      PROVE  [th[t] EXCEPT !.pc = "tell", !.at = n] \in Work /\ WorkOf([th[t] EXCEPT !.pc = "tell", !.at = n])
  <2>1. PICK w : w = [th[t] EXCEPT !.pc = "tell", !.at = n]
    OBVIOUS
  <2>2. w \in Work
    BY <1>1, <2>1 DEF Work, Pcs
  <2>3. w.pc = "tell" /\ w.event = th[t].event /\ w.app = th[t].app /\ w.sync = th[t].sync
    BY <1>1, <2>1 DEF Work
  <2>4. WorkOf(w)
    BY <1>2, <2>3 DEF WorkOf
  <2> QED BY <2>1, <2>2, <2>4
<1>5. CASE LockListeners(t)
  <2>1. ThreadsTyped' /\ Locked'
    <3>1. CASE storageListeners = <<>>
      <4>1. th' = [th EXCEPT ![t] = NoWork] /\ listenerLock' = listenerLock
        BY <1>5, <3>1 DEF LockListeners
      <4>2. ThreadsTyped' /\ th'[t] = NoWork /\ \A u \in Threads \ {t} : th'[u] = th[u]
        BY <4>1, Idle, ThreadTyped
      <4>3. \A u \in Threads : th'[u] = th[u] \/ th'[u].pc # "tell"
        BY <4>2 DEF NoWork
      <4> QED BY <1>1, <4>1, <4>2, <4>3, LocksStay
    <3>2. CASE storageListeners # <<>>
      <4>1. PICK w : w = [th[t] EXCEPT !.pc = "tell", !.at = 1]
        OBVIOUS
      <4>2. th' = [th EXCEPT ![t] = w] /\ listenerLock' = t /\ listenerLock = Nobody
        BY <1>5, <3>2, <4>1 DEF LockListeners
      <4>3. ThreadsTyped' /\ th'[t] = w /\ \A u \in Threads \ {t} : th'[u] = th[u]
        BY <1>4, <4>1, <4>2, ThreadTyped
      <4>4. w.at = 1 /\ 1 \in 1 .. Len(storageListeners)
        BY <1>1, <3>2, <4>1, Listeners DEF Work
      <4>5. \A u \in Threads \ {t} : th[u].pc # "tell"
        BY <4>2, Rows DEF Typed, Locked
      <4>6. Locked'
        BY <1>1, <4>2, <4>3, <4>4, <4>5 DEF Typed, Locked
      <4> QED BY <4>3, <4>6
    <3> QED BY <3>1, <3>2
  <2>2. UNCHANGED <<jobs, view>> /\ listenerLock' \in Threads \cup {Nobody}
    BY <1>5 DEF LockListeners, Typed, StorageTyped
  <2>3. StorageTyped' /\ MonitorTyped' /\ AgentTyped' /\ ListenersOf'
    BY <1>1, <2>2 DEF Typed, StorageTyped, MonitorTyped, BusOf, AgentTyped, ListenersOf
  <2> QED BY <2>1, <2>3 DEF Typed
<1>6. ASSUME Returned(t), th[t].pc = "tell"
      PROVE  ThreadsTyped' /\ Locked' /\ listenerLock' \in Threads \cup {Nobody}
  <2>1. listenerLock = t /\ th[t].at \in 1 .. Len(storageListeners)
    BY <1>6 DEF Typed, Locked
  <2>2. CASE th[t].at < Len(storageListeners)
    <3>1. PICK n \in Nat : n = th[t].at + 1
      BY <2>1
    <3>2. PICK w : w = [th[t] EXCEPT !.pc = "tell", !.at = n]
      OBVIOUS
    <3>3. [th[t] EXCEPT !.at = n] = w
      BY <1>1, <1>6, <3>2 DEF Work
    <3>4. th' = [th EXCEPT ![t] = w] /\ listenerLock' = listenerLock
      BY <1>6, <2>2, <3>1, <3>3 DEF Returned
    <3>5. ThreadsTyped' /\ th'[t] = w /\ \A u \in Threads \ {t} : th'[u] = th[u]
      BY <1>4, <3>2, <3>4, ThreadTyped
    <3>6. w.at = n /\ n \in 1 .. Len(storageListeners)
      <4>1. Len(storageListeners) \in Nat
        BY Listeners
      <4>2. n \in 1 .. Len(storageListeners)
        BY <2>1, <2>2, <3>1, <4>1
      <4> QED BY <1>1, <3>2, <4>2 DEF Work
    <3>7. Locked'
      BY <1>1, <2>1, <3>4, <3>5, <3>6 DEF Typed, Locked
    <3> QED BY <2>1, <3>4, <3>5, <3>7
  <2>3. CASE ~(th[t].at < Len(storageListeners))
    <3>1. th' = [th EXCEPT ![t] = NoWork] /\ listenerLock' = Nobody
      BY <1>6, <2>3 DEF Returned
    <3>2. ThreadsTyped' /\ th'[t] = NoWork /\ \A u \in Threads \ {t} : th'[u] = th[u]
      BY <3>1, Idle, ThreadTyped
    <3>3. \A u \in Threads \ {t} : th[u].pc # "tell"
      BY <2>1 DEF Typed, Locked
    <3>4. Locked'
      BY <1>1, <3>1, <3>2, <3>3 DEF Typed, Locked, NoWork
    <3> QED BY <3>1, <3>2, <3>4
  <2> QED BY <2>2, <2>3
<1>7. CASE OnPendingChanges(t)
  <2>1. jobs' \in Seq(Jobs) /\ UNCHANGED view
    <3>1. UNCHANGED view
      BY <1>7 DEF OnPendingChanges
    <3>2. CASE th[t].event = "pending" /\ view[th[t].app] # Unknown /\ heard[th[t].app][view[th[t].app].name] # "none"
      <4>1. th[t].app \in Apps /\ view[th[t].app].name \in Names
        BY <1>2, <1>3, <3>2, UnknownName
      <4>2. heard[th[t].app][view[th[t].app].name] \in AppStates
        BY <1>3, <3>2, <4>1
      <4>3. [app |-> th[t].app, name |-> view[th[t].app].name, old |-> "none",
             new |-> heard[th[t].app][view[th[t].app].name]] \in Jobs
        BY <4>1, <4>2 DEF Jobs
      <4>4. jobs' = Append(jobs, [app |-> th[t].app, name |-> view[th[t].app].name, old |-> "none",
             new |-> heard[th[t].app][view[th[t].app].name]])
        BY <1>7, <3>2 DEF OnPendingChanges
      <4> QED BY <1>3, <3>1, <4>3, <4>4
    <3>3. CASE ~(th[t].event = "pending" /\ view[th[t].app] # Unknown /\ heard[th[t].app][view[th[t].app].name] # "none")
      BY <1>3, <1>7, <3>1, <3>3 DEF OnPendingChanges
    <3> QED BY <3>2, <3>3
  <2>2. ThreadsTyped' /\ Locked' /\ listenerLock' \in Threads \cup {Nobody}
    BY <1>6, <1>7 DEF OnPendingChanges, Telling
  <2>3. StorageTyped' /\ MonitorTyped' /\ AgentTyped' /\ ListenersOf'
    BY <1>1, <2>1, <2>2 DEF Typed, StorageTyped, MonitorTyped, BusOf, AgentTyped, ListenersOf
  <2> QED BY <2>2, <2>3 DEF Typed
<1>8. CASE OnStorageEvent(t)
  <2>1. view' \in [Apps -> Views] /\ UNCHANGED jobs
    <3>1. UNCHANGED jobs
      BY <1>8 DEF OnStorageEvent
    <3>2. ASSUME NEW a \in Apps, NEW s \in SyncStates, SetSyncState(a, s)
          PROVE  view' \in [Apps -> Views]
      <4>1. CASE view[a] = Unknown
        BY <1>3, <3>2, <4>1 DEF SetSyncState
      <4>2. CASE view[a] # Unknown
        <5>1. view[a] \in [name : Names, state : AppStates, sync : SyncStates]
          BY <1>3, <4>2 DEF Views, Unknown
        <5>2. [view[a] EXCEPT !.sync = s] \in Views
          BY <5>1 DEF Views
        <5>3. view' = [view EXCEPT ![a] = [view[a] EXCEPT !.sync = s]]
          BY <3>2, <4>2 DEF SetSyncState
        <5> QED BY <1>3, <5>2, <5>3
      <4> QED BY <4>1, <4>2
    <3>3. ASSUME SetAllUnmanaged PROVE view' \in [Apps -> Views]
      <4>1. ASSUME NEW a \in Apps
            PROVE  (IF view[a] = Unknown THEN Unknown ELSE [view[a] EXCEPT !.sync = "unmanaged"]) \in Views
        <5>1. CASE view[a] = Unknown
          BY <5>1, UnknownView
        <5>2. CASE view[a] # Unknown
          <6>1. view[a] \in [name : Names, state : AppStates, sync : SyncStates]
            BY <1>3, <5>2 DEF Views, Unknown
          <6> QED BY <5>2, <6>1 DEF Views, SyncStates
        <5> QED BY <5>1, <5>2
      <4> QED BY <3>3, <4>1 DEF SetAllUnmanaged
    <3>4. CASE th[t].event = "wiped"
      BY <1>8, <3>1, <3>3, <3>4 DEF OnStorageEvent
    <3>5. CASE th[t].event = "pending"
      <4>1. SetSyncState(th[t].app, th[t].sync)
        BY <1>8, <3>5 DEF OnStorageEvent
      <4> QED BY <1>2, <3>1, <3>2, <3>5, <4>1 DEF SyncStates
    <3>6. CASE th[t].event \in {"completed", "added"}
      <4>1. SetSyncState(th[t].app, "ok")
        BY <1>8, <3>6 DEF OnStorageEvent
      <4> QED BY <1>2, <3>1, <3>2, <3>6, <4>1 DEF SyncStates
    <3>7. CASE th[t].event = "removed"
      <4>1. SetSyncState(th[t].app, "unmanaged")
        BY <1>8, <3>7 DEF OnStorageEvent
      <4> QED BY <1>2, <3>1, <3>2, <3>7, <4>1 DEF SyncStates
    <3> QED BY <1>2, <3>4, <3>5, <3>6, <3>7
  <2>2. ThreadsTyped' /\ Locked' /\ listenerLock' \in Threads \cup {Nobody}
    BY <1>6, <1>8 DEF OnStorageEvent, Telling
  <2>3. StorageTyped' /\ MonitorTyped' /\ AgentTyped' /\ ListenersOf'
    BY <1>1, <2>1, <2>2 DEF Typed, StorageTyped, MonitorTyped, BusOf, AgentTyped, ListenersOf
  <2> QED BY <2>2, <2>3 DEF Typed
<1> QED BY <1>5, <1>7, <1>8 DEF Notifications

\* The update of an application, and the queue.
LEMMA StartsTyped ==
  ASSUME Typed, NEW t \in Threads, NEW a \in Apps, NEW n \in Names, NEW st \in AppStates,
         StartsUpdates(t, a, n, st)
  PROVE  ThreadsMove
<1>1. row[a] \in Stored /\ counter \in Nat
  BY DEF Typed, StorageTyped
<1>2. CASE row[a] = "none"
  <2>1. th' = [th EXCEPT ![t] = NoWork] /\ NoWork.pc # "tell"
    BY <1>2 DEF StartsUpdates, NoWork
  <2> QED BY <2>1, Idle, ThreadTyped DEF ThreadsMove
<1>3. CASE row[a] # "none"
  <2>1. PICK w : w = [NoWork EXCEPT !.pc = "work", !.app = a, !.name = n, !.state = st,
                                    !.sync = row[a], !.tx = counter]
    OBVIOUS
  <2>2. th' = [th EXCEPT ![t] = w]
    BY <1>3, <2>1 DEF StartsUpdates
  <2>3. w.pc = "work" /\ w.app = a /\ w.event = "none" /\ w.name = n /\ w.sync = row[a]
    BY <2>1 DEF NoWork
  <2>4. w \in Work
    BY <1>1, <2>1 DEF NoWork, Work, Pcs, AppStates, Stored
  <2>5. WorkOf(w)
    BY <1>1, <1>3, <2>3 DEF WorkOf, Stored
  <2> QED BY <2>2, <2>3, <2>4, <2>5, ThreadTyped DEF ThreadsMove
<1> QED BY <1>2, <1>3

LEMMA TakeJobTyped ==
  ASSUME Typed, TakeJob
  PROVE  Typed'
<1>1. /\ UNCHANGED <<row, counter, storageListeners, listenerLock, dev, signals, heard, monitorListeners, bus, view, agent, spent>>
      /\ jobs' = Tail(jobs) /\ jobs # <<>> /\ jobs \in Seq(Jobs)
  BY DEF TakeJob, storage, monitor, Typed, AgentTyped
<1>2. Head(jobs) \in Jobs /\ jobs' \in Seq(Jobs)
  BY <1>1
<1>3. ThreadsMove
  <2>1. CASE Acts(Head(jobs))
    <3>1. StartsUpdates(Updater, Head(jobs).app, Head(jobs).name, Head(jobs).new)
      BY <2>1 DEF TakeJob
    <3>2. Head(jobs).app \in Apps /\ Head(jobs).name \in Names /\ Head(jobs).new \in AppStates
      BY <1>2 DEF Jobs
    <3> QED BY <3>1, <3>2, Rows, StartsTyped
  <2>2. CASE ~Acts(Head(jobs))
    BY <2>2 DEF TakeJob, ThreadsMove, Typed, ThreadsTyped, WorkOf, NoWork
  <2> QED BY <2>1, <2>2
<1>4. StorageTyped' /\ MonitorTyped' /\ AgentTyped'
  BY <1>1, <1>2 DEF Typed, StorageTyped, MonitorTyped, BusOf, AgentTyped
<1>5. ListenersOf' /\ Locked'
  BY <1>1, <1>3, LocksStay DEF ThreadsMove
<1> QED BY <1>3, <1>4, <1>5 DEF Typed, ThreadsMove

LEMMA UpdateTyped ==
  ASSUME Typed, NEW t \in Threads, UpdateApplication(t)
  PROVE  Typed'
<1>1. /\ UNCHANGED <<counter, storageListeners, listenerLock, heard, monitorListeners, bus, jobs, view, agent, spent>>
      /\ th[t] \in Work /\ WorkOf(th[t]) /\ th[t].pc \in {"start", "work", "report"}
  BY DEF UpdateApplication, StartUpdates, Updated, ResetDone, UpdateFails, UpdatesCompleted, storage, monitor,
         Typed, ThreadsTyped
<1>2. /\ th[t].app \in Apps /\ th[t].name \in Names /\ th[t].event = "none"
      /\ th[t].state \in AppStates
  BY <1>1 DEF WorkOf, Work
<1>3. row \in [Apps -> Stored] /\ counter \in Nat
      /\ dev \in [Apps -> [up : BOOLEAN, name : Names, state : AppStates]] /\ signals \subseteq Apps
  BY DEF Typed, StorageTyped, MonitorTyped
<1>4. row' \in [Apps -> Stored]
  BY <1>3 DEF UpdateApplication, StartUpdates, Updated, ResetDone, UpdateFails, UpdatesCompleted, storage, Stored
<1>5. dev' \in [Apps -> [up : BOOLEAN, name : Names, state : AppStates]] /\ signals' \subseteq Apps
  <2>1. CASE Updated(t)
    BY <1>2, <1>3, <2>1 DEF Updated, AppStates
  <2>2. CASE ResetDone(t)
    BY <1>2, <1>3, <2>2 DEF ResetDone, AppStates
  <2> QED BY <1>3, <2>1, <2>2 DEF UpdateApplication, StartUpdates, UpdateFails, UpdatesCompleted, monitor
<1>6. ThreadsMove
  <2>1. CASE StartUpdates(t)
    BY <1>2, <2>1, StartsTyped DEF StartUpdates
  <2>2. ASSUME NEW s \in {"ok", "reset"}, th' = [th EXCEPT ![t].pc = "report", ![t].sync = s],
               s = "reset" \/ th[t].state # "claimable"
        PROVE  ThreadsMove
    <3>1. PICK w : w = [th[t] EXCEPT !.pc = "report", !.sync = s]
      OBVIOUS
    <3>2. th' = [th EXCEPT ![t] = w]
      BY <2>2, <3>1
    <3>3. w \in Work /\ w.pc = "report" /\ w.sync = s /\ w.app = th[t].app /\ w.name = th[t].name
          /\ w.state = th[t].state /\ w.event = th[t].event
      BY <1>1, <3>1 DEF Work, Pcs, Stored
    <3>4. WorkOf(w)
      BY <1>2, <2>2, <3>3 DEF WorkOf
    <3> QED BY <3>2, <3>3, <3>4, ThreadTyped DEF ThreadsMove
  <2>3. CASE Updated(t)
    BY <2>2, <2>3 DEF Updated
  <2>4. CASE ResetDone(t)
    BY <2>2, <2>4 DEF ResetDone
  <2>5. ASSUME th' = [th EXCEPT ![t] = NoWork] PROVE ThreadsMove
    <3>1. NoWork.pc # "tell"
      BY DEF NoWork
    <3> QED BY <2>5, <3>1, Idle, ThreadTyped DEF ThreadsMove
  <2>6. CASE UpdateFails(t)
    BY <2>5, <2>6 DEF UpdateFails
  <2>7. CASE UpdatesCompleted(t)
    <3>1. ASSUME th[t].sync = "ok", row[th[t].app] # "none",
                 th' = [th EXCEPT ![t].pc = "work", ![t].sync = row[th[t].app], ![t].tx = counter]
          PROVE  ThreadsMove
      <4>1. PICK w : w = [th[t] EXCEPT !.pc = "work", !.sync = row[th[t].app], !.tx = counter]
        OBVIOUS
      <4>2. th' = [th EXCEPT ![t] = w]
        BY <3>1, <4>1
      <4>3. row[th[t].app] \in {"ok", "pending", "will_reset"}
        BY <1>2, <1>3, <3>1 DEF Stored
      <4>4. w \in Work /\ w.pc = "work" /\ w.sync = row[th[t].app] /\ w.app = th[t].app /\ w.name = th[t].name
            /\ w.event = th[t].event
        BY <1>1, <1>3, <4>1, <4>3 DEF Work, Pcs, Stored
      <4>5. WorkOf(w)
        BY <1>2, <4>3, <4>4 DEF WorkOf
      <4> QED BY <4>2, <4>4, <4>5, ThreadTyped DEF ThreadsMove
    <3>2. ASSUME NEW e \in {"removed", "completed"}, NEW s \in Stored, Notify(t, th[t].app, e, s)
          PROVE  ThreadsMove
      BY <1>2, <3>2, NotifyTyped DEF ThreadsMove
    <3>3. CASE th[t].sync = "reset"
      BY <2>7, <3>2, <3>3 DEF UpdatesCompleted, Stored
    <3>4. CASE th[t].sync = "ok" /\ row[th[t].app] = "none"
      BY <2>5, <2>7, <3>4 DEF UpdatesCompleted
    <3>5. CASE th[t].sync = "ok" /\ row[th[t].app] # "none" /\ th[t].tx # counter
      BY <2>7, <3>1, <3>5 DEF UpdatesCompleted
    <3>6. CASE /\ th[t].sync # "reset"
               /\ ~(th[t].sync = "ok" /\ row[th[t].app] = "none")
               /\ ~(th[t].sync = "ok" /\ row[th[t].app] # "none" /\ th[t].tx # counter)
      <4>1. Notify(t, th[t].app, "completed", "ok")
        BY <2>7, <3>6 DEF UpdatesCompleted
      <4> QED BY <3>2, <4>1 DEF Stored
    <3> QED BY <3>3, <3>4, <3>5, <3>6
  <2> QED BY <2>1, <2>3, <2>4, <2>6, <2>7 DEF UpdateApplication
<1>7. StorageTyped' /\ MonitorTyped' /\ AgentTyped'
  BY <1>1, <1>4, <1>5 DEF Typed, StorageTyped, MonitorTyped, BusOf, AgentTyped
<1>8. ListenersOf' /\ Locked'
  BY <1>1, <1>6, LocksStay DEF ThreadsMove
<1> QED BY <1>6, <1>7, <1>8 DEF Typed, ThreadsMove

\* The life of the agent: a phase begins when nobody is in the lists that change.
LEMMA LifeTyped ==
  ASSUME Typed, InitAgent \/ Destroy \/ EndAgent
  PROVE  Typed'
<1>1. /\ UNCHANGED <<row, counter, listenerLock, dev, signals, heard, bus, th, spent>>
  BY DEF InitAgent, Destroy, EndAgent, RegisterAgentWithMonitor, RegisterUpdaterWithMonitor, RegisterWithStorage,
         UnregisterFromMonitor, UnregisterUpdater, StopQueue, storage, monitor
<1>2. /\ view \in [Apps -> Views] /\ jobs \in Seq(Jobs) /\ row \in [Apps -> Stored]
      /\ heard \in [Apps -> [Names -> AppStates \cup {"none"}]]
  BY DEF Typed, AgentTyped, StorageTyped, MonitorTyped
<1>3. view' \in [Apps -> Views]
  <2>1. CASE RegisterAgentWithMonitor
    <3>1. ASSUME NEW a \in Apps
          PROVE  (IF heard[a][1] = "none" THEN Unknown
                  ELSE [name |-> 1, state |-> heard[a][1],
                        sync |-> IF row[a] = "none" THEN "unmanaged" ELSE row[a]]) \in Views
      <4>1. PICK sy : sy = IF row[a] = "none" THEN "unmanaged" ELSE row[a]
        OBVIOUS
      <4>2. sy \in SyncStates
        <5>1. row[a] \in Stored
          BY <1>2
        <5> QED BY <4>1, <5>1 DEF Stored, SyncStates
      <4>3. CASE heard[a][1] = "none"
        BY <4>3, UnknownView
      <4>4. CASE heard[a][1] # "none"
        <5>1. heard[a][1] \in AppStates /\ 1 \in Names
          BY <1>2, <4>4, Names0
        <5> QED BY <4>1, <4>2, <4>4, <5>1, KnownView
      <4> QED BY <4>3, <4>4
    <3> QED BY <2>1, <3>1 DEF RegisterAgentWithMonitor
  <2>2. CASE UNCHANGED view
    BY <1>2, <2>2
  <2> QED BY <2>1, <2>2 DEF InitAgent, Destroy, EndAgent, RegisterUpdaterWithMonitor, RegisterWithStorage,
         UnregisterFromMonitor, UnregisterUpdater, StopQueue, monitor
<1>4. jobs' \in Seq(Jobs)
  <2>1. CASE RegisterUpdaterWithMonitor
    <3>1. PICK S : S = {a \in Apps : heard[a][1] # "none"}
      OBVIOUS
    <3>2. PICK order : order = SetToSeq(S)
      OBVIOUS
    <3>3. order \in Seq(S) /\ S \in SUBSET Apps
      <4>1. IsFiniteSet(S)
        BY <3>1, AgentViewAssumption, FS_Subset
      <4> QED BY <3>1, <3>2, <4>1, InSomeOrder
    <3>4. PICK new : new = [i \in DOMAIN order |->
                              [app |-> order[i], name |-> 1, old |-> "none", new |-> heard[order[i]][1]]]
      OBVIOUS
    <3>5. ASSUME NEW i \in DOMAIN order
          PROVE  [app |-> order[i], name |-> 1, old |-> "none", new |-> heard[order[i]][1]] \in Jobs
      <4>1. order[i] \in S
        BY <3>3
      <4>2. heard[order[i]][1] \in AppStates
        BY <1>2, <3>1, <4>1, Names0
      <4> QED BY <3>1, <4>1, <4>2, Names0 DEF Jobs
    <3>6. DOMAIN order = 1 .. Len(order) /\ Len(order) \in Nat
      BY <3>3
    <3>7. new \in Seq(Jobs)
      BY <3>4, <3>5, <3>6
    <3>8. jobs' = jobs \o new
      BY <2>1, <3>1, <3>2, <3>4 DEF RegisterUpdaterWithMonitor
    <3> QED BY <1>2, <3>7, <3>8
  <2>2. CASE UNCHANGED jobs \/ jobs' = <<>>
    <3>1. <<>> \in Seq(Jobs)
      OBVIOUS
    <3> QED BY <1>2, <2>2, <3>1
  <2>3. CASE Destroy \/ EndAgent \/ RegisterAgentWithMonitor \/ RegisterWithStorage
    <3>1. CASE Destroy
      BY <2>2, <3>1 DEF Destroy
    <3>2. CASE UnregisterFromMonitor
      BY <2>2, <3>2 DEF UnregisterFromMonitor
    <3>3. CASE UnregisterUpdater \/ StopQueue
      BY <2>2, <3>3 DEF UnregisterUpdater, StopQueue
    <3>4. CASE RegisterAgentWithMonitor \/ RegisterWithStorage
      BY <2>2, <3>4 DEF RegisterAgentWithMonitor, RegisterWithStorage
    <3> QED BY <2>3, <3>1, <3>2, <3>3, <3>4 DEF EndAgent
  <2> QED BY <2>1, <2>3 DEF InitAgent
<1>5. agent' \in Phases
  BY PhaseNames DEF InitAgent, Destroy, EndAgent, RegisterAgentWithMonitor, RegisterUpdaterWithMonitor,
         RegisterWithStorage, UnregisterFromMonitor, UnregisterUpdater, StopQueue, Phase
<1>6. ListenersOf'
  <2>1. CASE RegisterAgentWithMonitor
    BY <2>1 DEF Typed, ListenersOf, RegisterAgentWithMonitor, Phase, storage
  <2>2. CASE RegisterUpdaterWithMonitor
    <3>1. Append(<<"agent">>, "updater") = <<"agent", "updater">>
      BY AppendTwo
    <3> QED BY <2>2, <3>1 DEF Typed, ListenersOf, RegisterUpdaterWithMonitor, Phase, storage
  <2>3. CASE RegisterWithStorage
    <3>1. /\ Append(<<>>, "updater") = <<"updater">>
          /\ Append(<<"updater">>, "agent") = <<"updater", "agent">>
      BY AppendTwo
    <3> QED BY <2>3, <3>1 DEF Typed, ListenersOf, RegisterWithStorage, Phase, monitor
  <2>4. CASE Destroy
    BY <2>4, RemoveOne DEF Typed, ListenersOf, Destroy, Phase, monitor
  <2>5. CASE UnregisterFromMonitor
    BY <2>5, RemoveOne DEF Typed, ListenersOf, UnregisterFromMonitor, Phase, storage
  <2>6. CASE UnregisterUpdater
    BY <2>6, RemoveOne DEF Typed, ListenersOf, UnregisterUpdater, Phase, monitor
  <2>7. CASE StopQueue
    BY <2>7 DEF Typed, ListenersOf, StopQueue, Phase, monitor, storage
  <2> QED BY <2>1, <2>2, <2>3, <2>4, <2>5, <2>6, <2>7 DEF InitAgent, EndAgent
<1>7. Locked'
  <2>1. UNCHANGED monitorListeners \/ bus.pc = "idle"
    BY DEF InitAgent, Destroy, EndAgent, RegisterAgentWithMonitor, RegisterUpdaterWithMonitor, RegisterWithStorage,
         UnregisterFromMonitor, UnregisterUpdater, StopQueue, monitor
  <2>2. UNCHANGED storageListeners \/ listenerLock = Nobody
    BY DEF InitAgent, Destroy, EndAgent, RegisterAgentWithMonitor, RegisterUpdaterWithMonitor, RegisterWithStorage,
         UnregisterFromMonitor, UnregisterUpdater, StopQueue, storage
  <2>3. listenerLock = Nobody => \A t \in Threads : th[t].pc # "tell"
    BY Rows DEF Typed, Locked
  <2> QED BY <1>1, <2>1, <2>2, <2>3 DEF Typed, Locked
<1>8. StorageTyped' /\ MonitorTyped' /\ AgentTyped' /\ ThreadsTyped'
  BY <1>1, <1>3, <1>4, <1>5 DEF Typed, StorageTyped, MonitorTyped, BusOf, AgentTyped, ThreadsTyped, WorkOf, NoWork
<1> QED BY <1>6, <1>7, <1>8 DEF Typed

LEMMA StutterTyped ==
  ASSUME Typed, UNCHANGED vars
  PROVE  Typed'
BY DEF vars, storage, monitor, Typed, StorageTyped, MonitorTyped, BusOf, AgentTyped, ThreadsTyped, WorkOf, NoWork,
       ListenersOf, Locked

LEMMA NextTyped ==
  ASSUME Typed, [Next]_vars
  PROVE  Typed'
<1>1. ASSUME NEW a \in Apps, AppStops(a) \/ AppStarts(a) \/ AppNeedsUpdate(a) \/ State(a) PROVE Typed'
  BY <1>1, AppTyped, StateTyped
<1>2. ASSUME NEW t \in Users, User(t) PROVE Typed'
  BY <1>2, UserTyped
<1>3. ASSUME NEW t \in Threads, Notifications(t) \/ UpdateApplication(t) PROVE Typed'
  BY <1>3, NotificationsTyped, UpdateTyped
<1>4. CASE Bus
  BY <1>4, BusTyped
<1>5. CASE TakeJob
  BY <1>5, TakeJobTyped
<1>6. CASE InitAgent \/ Destroy \/ EndAgent
  BY <1>6, LifeTyped
<1>7. CASE UNCHANGED vars
  BY <1>7, StutterTyped
<1> QED BY <1>1, <1>2, <1>3, <1>4, <1>5, <1>6, <1>7 DEF Next

LEMMA TypedMeans == Typed => TypeOK
<1> SUFFICES ASSUME Typed PROVE TypeOK
  OBVIOUS
<1>1. /\ {<<>>, <<"agent">>, <<"agent", "updater">>, <<"updater">>} \subseteq Seq({"agent", "updater"})
      /\ {<<>>, <<"updater">>, <<"updater", "agent">>} \subseteq Seq({"agent", "updater"})
  <2>1. /\ <<>> \in Seq({"agent", "updater"}) /\ <<"agent">> \in Seq({"agent", "updater"})
        /\ <<"updater">> \in Seq({"agent", "updater"})
    OBVIOUS
  <2>2. <<"agent", "updater">> \in Seq({"agent", "updater"})
    OBVIOUS
  <2>3. <<"updater", "agent">> \in Seq({"agent", "updater"})
    OBVIOUS
  <2> QED BY <2>1, <2>2, <2>3
<1>2. monitorListeners \in Seq({"agent", "updater"}) /\ storageListeners \in Seq({"agent", "updater"})
  BY <1>1, Listeners
<1> QED BY <1>2 DEF Typed, StorageTyped, MonitorTyped, AgentTyped, ThreadsTyped, TypeOK

\* Every variable of the model keeps its type, in every phase of the agent's life and for
\* calls at any time; among them the lists of listeners, which are those of the phase.
THEOREM TypeCorrect == Spec => []TypeOK
<1>1. Typed /\ [Next]_vars => Typed'
  BY NextTyped
<1> QED BY <1>1, InitTyped, TypedMeans, PTL DEF Spec

------------------------------------------------------------------------------
(* The end of an agent *)

LEMMA NothingEnters ==
  ASSUME Typed, [Next]_vars, agent = "gone"
  PROVE  UNCHANGED <<view, jobs>>
<1>1. bus.pc = "idle" /\ \A t \in Threads : th[t].pc # "tell"
  BY DEF Typed, ListenersOf, Locked
<1>2. ~Bus
  BY <1>1 DEF Bus, UpdateKnown, LookUp, Insert, AddJob, Calling
<1>3. ~TakeJob /\ ~InitAgent /\ ~Destroy /\ ~EndAgent
  BY DEF TakeJob, InitAgent, Destroy, EndAgent, RegisterAgentWithMonitor, RegisterUpdaterWithMonitor,
         RegisterWithStorage, UnregisterFromMonitor, UnregisterUpdater, StopQueue, Phase
<1>4. ASSUME NEW t \in Threads, Notifications(t) PROVE UNCHANGED <<view, jobs>>
  BY <1>1, <1>4 DEF Notifications, LockListeners, OnPendingChanges, OnStorageEvent, Telling
<1>5. ASSUME NEW t \in Threads, UpdateApplication(t) PROVE UNCHANGED <<view, jobs>>
  BY <1>5 DEF UpdateApplication, StartUpdates, Updated, ResetDone, UpdateFails, UpdatesCompleted
<1>6. ASSUME NEW t \in Users, User(t) PROVE UNCHANGED <<view, jobs>>
  BY <1>6 DEF User, ApplicationUpdated, ResetApplication, RemoveApplication, Claim, UpdateApplications,
         Wipe, ApplicationClaimed
<1>7. ASSUME NEW a \in Apps, AppStops(a) \/ AppStarts(a) \/ AppNeedsUpdate(a) \/ State(a)
      PROVE  UNCHANGED <<view, jobs>>
  BY <1>7 DEF AppStops, AppStarts, AppNeedsUpdate, State
<1>8. CASE UNCHANGED vars
  BY <1>8 DEF vars
<1> QED BY <1>2, <1>3, <1>4, <1>5, <1>6, <1>7, <1>8 DEF Next

\* Nothing enters an agent that is destroyed, whatever calls were under way when its
\* destruction began: whoever calls its listeners keeps the lock that it takes to
\* unregister them (UIStorageImpl.cc:250, ApplicationMonitor.cc:132).
THEOREM GoneAgentsAreQuiet == Spec => GoneIsQuiet
<1>1. Typed /\ [Next]_vars => Typed'
  BY NextTyped
<1>2. Typed /\ [Next]_vars => [agent = "gone" => UNCHANGED <<view, jobs>>]_vars
  BY NothingEnters
<1> QED BY <1>1, <1>2, InitTyped, PTL DEF Spec, GoneIsQuiet

------------------------------------------------------------------------------
(* What the agent knows *)

Begun == Range(Starting) \cup {"up"}

\* The bus is about to tell the agent of a.
Hears(a) == bus.pc # "idle" /\ bus.at = 1 /\ bus.app = a

HeardLast(a, n) == heard[a][n] # "none" /\ \A m \in Names : m > n => heard[a][m] = "none"
NeverHeard(a) == \A n \in Names : heard[a][n] = "none"

\* Names and states: what was signalled last is heard, and the agent knows what was
\* heard last, but for the news that the bus delivers to it.
News(a) ==
  /\ \A n \in Names : n > dev[a].name => heard[a][n] = "none"
  /\ dev[a].up /\ a \notin signals => heard[a][dev[a].name] = dev[a].state
  /\ Hears(a) =>
       /\ HeardLast(a, bus.name) /\ heard[a][bus.name] = bus.new
       /\ bus.name # view[a].name => bus.old = "none"
       /\ view[a].name = 0 => dev[a].state = "claimable" \/ bus.new # "claimable"
       /\ view[a].name # 0 => heard[a][view[a].name] # "none"
  /\ agent # "created" /\ ~Hears(a) =>
       IF view[a].name = 0 THEN NeverHeard(a)
       ELSE HeardLast(a, view[a].name) /\ heard[a][view[a].name] = view[a].state
  /\ agent = "created" => view[a].name = 0
  /\ bus.pc = "insert" /\ bus.app = a =>
       /\ bus.at = 1 /\ view[a].name = 0
       /\ bus.entry.name = bus.name /\ bus.entry.state = bus.new
       /\ bus.entry.sync = "unmanaged" => row[a] = "none"

\* Calls that are made alone: a claim, and what is said of a removal.
AloneOf(t) ==
  /\ th[t].pc = "store" =>
       /\ spent.alone
       /\ row[th[t].app] = "none" /\ dev[th[t].app].state # "claimable" /\ view[th[t].app].name # 0
       /\ \A u \in Threads \ {t} : th[u].app # th[t].app /\ th[u].event # "wiped"
  /\ th[t].event = "removed" => row[th[t].app] = "none"
  /\ th[t].event = "wiped" => \A a \in Apps : row[a] = "none"

\* A reset is not forgotten by those who update the application meanwhile.
ResetsOf(t) ==
  /\ th[t].tx <= counter
  /\ th[t].pc \in {"work", "report"} =>
       IF th[t].sync \in {"will_reset", "reset"}
       THEN row[th[t].app] \in {"will_reset", "none"}
       ELSE th[t].tx = counter => row[th[t].app] # "will_reset"
  /\ th[t].event = "pending" /\ row[th[t].app] \in {"ok", "pending"} =>
       heard[th[t].app][dev[th[t].app].name] # "claimable"

\* An update of a that was not begun, and that will do what the database says.
Fresh(x, a) ==
  /\ x.app = a /\ x.name = dev[a].name /\ x.old = "none"
  /\ x.new # "claimable" \/ row[a] = "will_reset"

Updates(t, a) ==
  /\ th[t].pc \in {"work", "report"} /\ th[t].app = a /\ th[t].name = dev[a].name
  /\ th[t].sync \in {"will_reset", "reset"} \/ th[t].state # "claimable"

\* Another update of a is to come: for a new name, for a job, or it is under way, or
\* the updater is to be told of a change.
NewName(a) == ~dev[a].up \/ heard[a][dev[a].name] = "none"
Asks(t, a) == th[t].event = "pending" /\ th[t].app = a /\ (th[t].pc = "notify" \/ th[t].at = 1)
Coming(a) ==
  \/ NewName(a)
  \/ bus.pc # "idle" /\ Fresh(bus, a)
  \/ \E i \in 1 .. Len(jobs) : Fresh(jobs[i], a)
  \/ \E t \in Threads : Updates(t, a) \/ Asks(t, a)

\* The agent says what is true of a, or will when it is told that all is applied.
Completes(t, a) == th[t].event \in {"completed", "added"} /\ th[t].app = a
Disturbs(t, a) == th[t].event = "pending" /\ th[t].app = a /\ th[t].pc = "tell" /\ th[t].at = 2
SaysOk(a) ==
  /\ view[a].name = 0 \/ view[a].sync = "ok"
  /\ \A t \in Threads : ~Disturbs(t, a)
Applied(a) == row[a] = "ok" /\ (SaysOk(a) \/ \E t \in Threads : Completes(t, a))

StillClaimed(a) == row[a] \in {"ok", "pending"} => dev[a].state # "claimable"
Followed(a) == row[a] # "none" => Coming(a) \/ Applied(a)
Adding(a) ==
  row[a] # "none" /\ view[a].name # 0 /\ view[a].sync = "unmanaged" =>
    \E t \in Threads : th[t].event = "added" /\ th[t].app = a
RowOf(a) == StillClaimed(a) /\ Followed(a) /\ Adding(a)

\* Before Init is done nothing is changed.
Quiet(a) ==
  /\ row[a] \in {"none", "ok"} /\ dev[a].up /\ dev[a].name = 1
  /\ view[a].name # 0 /\ row[a] = "ok" => view[a].sync = "ok"
  /\ bus.pc = "insert" /\ bus.app = a /\ row[a] = "ok" => bus.entry.sync = "ok"
StartsQuietly ==
  agent \in Range(Starting) =>
    /\ \A u \in Users : th[u].pc = "idle"
    /\ th[Updater].sync \notin {"will_reset", "reset"}
    /\ th[Updater].event \in {"none", "completed"}
    /\ \A a \in Apps : Quiet(a)

AppsOf == \A a \in Apps : News(a) /\ RowOf(a)
CallsOf == \A t \in Threads : AloneOf(t) /\ ResetsOf(t)

Core == AppsOf /\ CallsOf /\ StartsQuietly
Known == agent \in Begun => Core

\* Calls are made when Init is done, and for an application that is heard to be claimed,
\* and those that make or unmake a managed application are made alone.
Careful == ~EarlyUse /\ {"remove", "wipe", "claim"} \cap Calls \subseteq Alone

------------------------------------------------------------------------------
(* What a step leaves alone *)

Only(t) == \A u \in Threads \ {t} : th'[u] = th[u]
Still == UNCHANGED <<dev, signals, heard, bus, agent>>
SameNames == \A a \in Apps : view'[a].name = view[a].name /\ view'[a].state = view[a].state

\* No application becomes a managed one, none that is to be reset is changed to
\* another one, and one that is to be reset from now on is a change that is counted.
RowsFall ==
  \A a \in Apps :
    /\ row[a] = "none" => row'[a] = "none"
    /\ row'[a] \in {"ok", "pending"} => row[a] \in {"ok", "pending"}
    /\ row'[a] = "will_reset" => row[a] = "will_reset" \/ counter' = counter + 1

LEMMA BegunPhases ==
  /\ Begun = {"created", "monitored", "updater_monitored", "updater_stored", "up"}
  /\ Range(Starting) = {"created", "monitored", "updater_monitored", "updater_stored"}
BY PhaseNames DEF Begun

LEMMA SetsNoName ==
  ASSUME Typed, NEW a \in Apps, NEW s \in SyncStates, SetSyncState(a, s)
  PROVE  /\ SameNames
         /\ \A b \in Apps \ {a} : view'[b] = view[b]
         /\ view[a].name = 0 => view'[a] = view[a]
         /\ view[a].name # 0 => view'[a].sync = s
<1>1. view \in [Apps -> Views]
  BY DEF Typed, AgentTyped
<1>2. CASE view[a] = Unknown
  BY <1>1, <1>2, UnknownName DEF SetSyncState, SameNames
<1>3. CASE view[a] # Unknown
  <2>1. view[a] \in [name : Names, state : AppStates, sync : SyncStates] /\ view[a].name # 0
    BY <1>1, <1>3, UnknownName DEF Views
  <2>2. view' = [view EXCEPT ![a] = [view[a] EXCEPT !.sync = s]]
    BY <1>3 DEF SetSyncState
  <2>3. \A b \in Apps \ {a} : view'[b] = view[b]
    BY <1>1, <2>2
  <2>4. view'[a] = [view[a] EXCEPT !.sync = s]
    BY <1>1, <2>2
  <2>5. view'[a].name = view[a].name /\ view'[a].state = view[a].state /\ view'[a].sync = s
    BY <2>1, <2>4
  <2> QED BY <2>1, <2>3, <2>5 DEF SameNames
<1> QED BY <1>2, <1>3

LEMMA SetsNoNames ==
  ASSUME Typed, SetAllUnmanaged
  PROVE  SameNames
<1>1. view \in [Apps -> Views]
  BY DEF Typed, AgentTyped
<1>2. ASSUME NEW a \in Apps PROVE view'[a].name = view[a].name /\ view'[a].state = view[a].state
  <2>1. CASE view[a] = Unknown
    BY <2>1 DEF SetAllUnmanaged
  <2>2. CASE view[a] # Unknown
    <3>1. view'[a] = [view[a] EXCEPT !.sync = "unmanaged"]
      BY <2>2 DEF SetAllUnmanaged
    <3>2. view[a] \in [name : Names, state : AppStates, sync : SyncStates]
      BY <1>1, <2>2 DEF Views, Unknown
    <3> QED BY <3>1, <3>2
  <2> QED BY <2>1, <2>2
<1> QED BY <1>2 DEF SameNames

------------------------------------------------------------------------------
(* Names and states *)

LEMMA NewsStays ==
  ASSUME NEW a \in Apps, News(a), dev'[a] = dev[a], a \in signals' <=> a \in signals,
         heard'[a] = heard[a], bus' = bus, agent' = agent \/ (agent # "created" /\ agent' # "created"),
         view'[a].name = view[a].name, view'[a].state = view[a].state,
         row[a] = "none" /\ view[a].name = 0 => row'[a] = "none"
  PROVE  News(a)'
BY DEF News, Hears, HeardLast, NeverHeard

LEMMA AppNews ==
  ASSUME Typed, NEW a \in Apps, News(a), NEW b \in Apps, AppStops(b) \/ AppStarts(b) \/ AppNeedsUpdate(b)
  PROVE  News(a)'
<1>1. /\ UNCHANGED <<row, heard, bus, view, agent>> /\ dev[b].name \in Names
      /\ dev \in [Apps -> [up : BOOLEAN, name : Names, state : AppStates]]
  BY DEF AppStops, AppStarts, AppNeedsUpdate, storage, Typed, MonitorTyped
<1>2. CASE a # b
  <2>1. dev'[a] = dev[a] /\ (a \in signals' <=> a \in signals)
    BY <1>1, <1>2 DEF AppStops, AppStarts, AppNeedsUpdate
  <2> QED BY <1>1, <2>1, NewsStays
<1>3. CASE a = b /\ AppStops(b)
  <2>1. ~dev'[a].up /\ dev'[a].name = dev[a].name /\ dev'[a].state = dev[a].state
    BY <1>1, <1>3 DEF AppStops
  <2> QED BY <1>1, <2>1 DEF News, Hears, HeardLast, NeverHeard
<1>4. CASE a = b /\ AppStarts(b)
  <2>1. dev'[a].name = dev[a].name + 1 /\ dev'[a].state = dev[a].state /\ a \in signals'
    BY <1>1, <1>4 DEF AppStarts
  <2>2. \A n \in Names : n > dev[a].name + 1 => n > dev[a].name
    <3>1. dev[a].name \in Nat
      BY <1>1, <1>4, Names0
    <3>2. \A k \in Nat, n \in Nat : n > k + 1 => n > k
      OBVIOUS
    <3> QED BY <3>1, <3>2, Names0
  <2> QED BY <1>1, <2>1, <2>2 DEF News, Hears, HeardLast, NeverHeard
<1>5. CASE a = b /\ AppNeedsUpdate(b)
  <2>1. /\ dev'[a].name = dev[a].name /\ dev'[a].state = "need_update" /\ dev[a].state = "claimed"
        /\ a \in signals'
    BY <1>1, <1>5 DEF AppNeedsUpdate
  <2> QED BY <1>1, <2>1 DEF News, Hears, HeardLast, NeverHeard
<1> QED BY <1>2, <1>3, <1>4, <1>5

\* Once the agent has registered, it is the first to be called, and an agent that is up
\* has the updater after it.
LEMMA First ==
  ASSUME Typed, agent \in Begun
  PROVE  /\ bus.pc # "idle" => agent # "created" /\ bus.at \in {1, 2}
         /\ bus.pc # "idle" /\ bus.at = 2 => monitorListeners[bus.at] = "updater"
         /\ bus.pc # "idle" /\ bus.at = 1 => monitorListeners[bus.at] = "agent"
         /\ agent # "created" => monitorListeners # <<>>
         /\ agent = "up" => Len(monitorListeners) = 2
         /\ bus.pc = "insert" => bus.at = 1
<1>1. CASE agent = "created"
  BY <1>1 DEF Typed, ListenersOf, Locked
<1>2. CASE agent = "monitored"
  <2>1. monitorListeners = <<"agent">>
    BY <1>2 DEF Typed, ListenersOf
  <2> QED BY <1>2, <2>1 DEF Typed, Locked
<1>3. CASE agent \in {"updater_monitored", "updater_stored", "up"}
  <2>1. monitorListeners = <<"agent", "updater">>
    BY <1>3 DEF Typed, ListenersOf
  <2> QED BY <1>3, <2>1 DEF Typed, Locked
<1> QED BY <1>1, <1>2, <1>3, BegunPhases

LEMMA StateNews ==
  ASSUME Typed, NEW a \in Apps, News(a), NEW b \in Apps, State(b), agent \in Begun
  PROVE  News(a)'
<1>1. /\ UNCHANGED <<row, dev, view, agent>> /\ dev[b].name \in Names /\ bus.pc = "idle"
      /\ signals' = signals \ {b} /\ b \in signals
      /\ heard' = [heard EXCEPT ![b][dev[b].name] = dev[b].state]
      /\ heard \in [Apps -> [Names -> AppStates \cup {"none"}]]
      /\ dev[b].state \in AppStates
      /\ view[a] \in Views
  BY DEF State, storage, Typed, MonitorTyped, AgentTyped
<1>2. bus' = NoSignal \/ bus' = [NoSignal EXCEPT !.pc = "tell", !.at = 1, !.app = b, !.name = dev[b].name,
                                       !.old = heard[b][dev[b].name], !.new = dev[b].state]
  BY DEF State
<1>3. \/ bus'.pc = "idle"
      \/ /\ bus'.pc = "tell" /\ bus'.at = 1 /\ bus'.app = b /\ bus'.name = dev[b].name
         /\ bus'.old = heard[b][dev[b].name] /\ bus'.new = dev[b].state
  <2>1. CASE bus' = NoSignal
    BY <2>1 DEF NoSignal
  <2>2. CASE bus' # NoSignal
    BY <1>2, <2>2 DEF NoSignal
  <2> QED BY <2>1, <2>2
<1>4. CASE a # b
  <2>1. heard'[a] = heard[a] /\ (a \in signals' <=> a \in signals)
    BY <1>1, <1>4
  <2>2. ~Hears(a) /\ ~Hears(a)' /\ bus'.pc # "insert"
    BY <1>1, <1>3, <1>4 DEF Hears
  <2> QED BY <1>1, <2>1, <2>2 DEF News, HeardLast, NeverHeard
<1>5. CASE a = b
  <2>1. PICK n \in Names : n = dev[a].name
    BY <1>1, <1>5
  <2>2. /\ heard'[a][n] = dev[a].state /\ \A m \in Names : m # n => heard'[a][m] = heard[a][m]
        /\ dev[a].state # "none"
    BY <1>1, <1>5, <2>1 DEF AppStates
  <2>3. \A m \in Names : m > n => heard[a][m] = "none" /\ heard'[a][m] = "none"
    BY <2>1, <2>2, Names0 DEF News
  <2>4. ~Hears(a) /\ bus.pc # "insert"
    BY <1>1 DEF Hears
  <2>5. CASE agent = "created"
    <3>1. bus' = NoSignal
      <4>1. monitorListeners = <<>>
        BY <2>5 DEF Typed, ListenersOf
      <4> QED BY <4>1 DEF State
    <3>2. ~Hears(a)' /\ bus'.pc # "insert"
      BY <3>1 DEF Hears, NoSignal
    <3> QED BY <1>1, <1>5, <2>1, <2>2, <2>3, <2>5, <3>2 DEF News
  <2>6. CASE agent # "created"
    <3>1. /\ bus'.pc = "tell" /\ bus'.at = 1 /\ bus'.app = a /\ bus'.name = n
          /\ bus'.old = heard[a][n] /\ bus'.new = dev[a].state
      <4>1. monitorListeners # <<>>
        BY <2>6, First
      <4>2. bus' = [NoSignal EXCEPT !.pc = "tell", !.at = 1, !.app = b, !.name = dev[b].name,
                                       !.old = heard[b][dev[b].name], !.new = dev[b].state]
        BY <4>1 DEF State
      <4> QED BY <1>5, <2>1, <4>2 DEF NoSignal
    <3>2. HeardLast(a, n)'
      BY <2>1, <2>2, <2>3 DEF HeardLast
    <3>3. IF view[a].name = 0 THEN NeverHeard(a)
          ELSE HeardLast(a, view[a].name) /\ heard[a][view[a].name] = view[a].state
      BY <2>4, <2>6 DEF News
    <3>4. view[a].name = 0 \/ view[a].name \in Names
      BY <1>1, UnknownName
    <3>5. n # view[a].name => heard[a][n] = "none"
      <4>1. CASE view[a].name = 0
        BY <3>3, <4>1 DEF NeverHeard
      <4>2. CASE view[a].name # 0
        <5>1. ~(view[a].name > n)
          BY <2>3, <3>3, <3>4, <4>2 DEF HeardLast
        <5>2. n # view[a].name => n > view[a].name
          BY <3>4, <4>2, <5>1, Names0
        <5> QED BY <3>3, <4>2, <5>2 DEF HeardLast
      <4> QED BY <4>1, <4>2
    <3>6. view[a].name # 0 => heard'[a][view[a].name] # "none"
      BY <2>2, <3>3, <3>4 DEF HeardLast
    <3>7. Hears(a)'
      BY <3>1 DEF Hears
    <3> QED BY <1>1, <1>5, <2>1, <2>2, <2>3, <2>6, <3>1, <3>2, <3>5, <3>6, <3>7 DEF News
  <2> QED BY <2>5, <2>6
<1> QED BY <1>4, <1>5

LEMMA BusNews ==
  ASSUME Typed, NEW a \in Apps, News(a), Bus, agent \in Begun
  PROVE  News(a)'
<1>1. /\ UNCHANGED <<row, dev, signals, heard, agent>> /\ bus.pc # "idle" /\ bus.app \in Apps /\ bus.name \in Names
      /\ view \in [Apps -> Views]
      /\ bus \in [pc : {"idle", "tell", "insert"}, at : Nat,
                  app : Apps \cup {Nobody}, name : {0} \cup Names,
                  old : AppStates \cup {"none"}, new : AppStates, entry : Views]
  BY DEF Bus, UpdateKnown, LookUp, Insert, AddJob, storage, Calling, Typed, MonitorTyped, BusOf, AgentTyped
<1>2. Called => bus'.pc = "idle" \/ (bus'.pc = "tell" /\ bus'.at = bus.at + 1)
  BY <1>1 DEF Called, NoSignal
<1>3. Called => ~Hears(a)' /\ bus'.pc # "insert"
  BY <1>1, <1>2, First DEF Hears
<1>4. CASE a # bus.app
  <2>1. ~Hears(a) /\ ~Hears(a)'
    <3>1. CASE Called
      BY <1>3, <1>4, <3>1 DEF Hears
    <3>2. CASE LookUp
      BY <1>1, <1>4, <3>2 DEF Hears, LookUp
    <3> QED BY <3>1, <3>2 DEF Bus, UpdateKnown, LookUp, Insert, AddJob, Hears
  <2>2. bus'.pc = "insert" => bus'.app # a
    <3>1. CASE LookUp
      BY <1>1, <1>4, <3>1 DEF LookUp
    <3> QED BY <1>3, <3>1 DEF Bus, UpdateKnown, Insert, AddJob
  <2>3. view'[a] = view[a]
    BY <1>1, <1>4 DEF Bus, UpdateKnown, LookUp, Insert, AddJob
  <2> QED BY <1>1, <1>4, <2>1, <2>2, <2>3 DEF News, HeardLast, NeverHeard
<1>5. CASE a = bus.app /\ UpdateKnown
  <2>1. Hears(a) /\ Called /\ agent # "created"
    <3>1. bus.at = 1
      BY <1>5, First DEF UpdateKnown, Calling
    <3> QED BY <1>1, <1>5, <3>1, First DEF UpdateKnown, Hears
  <2>2. view'[a] = [view[a] EXCEPT !.name = bus.name, !.state = bus.new]
    BY <1>1, <1>5 DEF UpdateKnown
  <2>3. view'[a].name = bus.name /\ view'[a].state = bus.new
    <3>1. view[a] \in [name : Names, state : AppStates, sync : SyncStates]
      BY <1>1, <1>5 DEF UpdateKnown, Views, Unknown
    <3> QED BY <2>2, <3>1
  <2>4. bus.name # 0
    BY <1>1, Names0
  <2>5. ~Hears(a)' /\ bus'.pc # "insert" /\ agent' # "created"
    BY <1>1, <1>3, <2>1
  <2>6. PICK n \in Names : n = bus.name
    BY <1>1
  <2>7. HeardLast(a, n)' /\ heard'[a][n] = view'[a].state /\ view'[a].name = n
    BY <1>1, <2>1, <2>3, <2>6 DEF News, HeardLast
  <2> QED BY <1>1, <2>1, <2>4, <2>5, <2>6, <2>7 DEF News
<1>6. CASE a = bus.app /\ Insert
  <2>1. Hears(a) /\ Called /\ agent # "created" /\ bus.entry.name = bus.name /\ bus.entry.state = bus.new
    BY <1>1, <1>6, First DEF Insert, News, Hears
  <2>2. view'[a].name = bus.name /\ view'[a].state = bus.new
    BY <1>1, <1>6, <2>1 DEF Insert
  <2>3. bus.name # 0
    BY <1>1, Names0
  <2>4. ~Hears(a)' /\ bus'.pc # "insert" /\ agent' # "created"
    BY <1>1, <1>3, <2>1
  <2>5. PICK n \in Names : n = bus.name
    BY <1>1
  <2>6. HeardLast(a, n)' /\ heard'[a][n] = view'[a].state /\ view'[a].name = n
    BY <1>1, <2>1, <2>2, <2>5 DEF News, HeardLast
  <2> QED BY <1>1, <2>1, <2>3, <2>4, <2>5, <2>6 DEF News
<1>7. CASE a = bus.app /\ LookUp
  <2>1. view[a].name = 0 /\ UNCHANGED view /\ bus.at = 1 /\ bus.pc = "tell"
    BY <1>1, <1>7, First, UnknownName DEF LookUp, Calling
  <2>2. PICK v : v = [name |-> bus.name, state |-> bus.new,
                      sync |-> IF row[bus.app] = "none" THEN "unmanaged" ELSE row[bus.app]]
    OBVIOUS
  <2>3. bus' = [bus EXCEPT !.pc = "insert", !.entry = v]
    BY <1>7, <2>2 DEF LookUp
  <2>4. /\ bus'.app = bus.app /\ bus'.name = bus.name /\ bus'.old = bus.old /\ bus'.new = bus.new
        /\ bus'.at = bus.at /\ bus'.pc = "insert" /\ bus'.entry = v
    BY <1>1, <2>3
  <2>5. v.name = bus.name /\ v.state = bus.new /\ (v.sync = "unmanaged" => row[a] = "none")
    <3>1. row[a] # "unmanaged"
      BY <1>7 DEF Typed, StorageTyped, Stored
    <3> QED BY <1>7, <2>2, <3>1
  <2>6. Hears(a) /\ Hears(a)'
    BY <1>1, <1>7, <2>1, <2>4 DEF Hears
  <2> QED BY <1>1, <1>7, <2>1, <2>4, <2>5, <2>6 DEF News, HeardLast
<1>8. CASE a = bus.app /\ AddJob
  <2>1. bus.at = 2 /\ Called /\ UNCHANGED view
    BY <1>1, <1>8, First DEF AddJob, Calling
  <2>2. ~Hears(a)' /\ ~Hears(a) /\ bus'.pc # "insert"
    BY <1>3, <2>1 DEF Hears
  <2> QED BY <1>1, <2>1, <2>2 DEF News, HeardLast, NeverHeard
<1> QED BY <1>4, <1>5, <1>6, <1>7, <1>8 DEF Bus

LEMMA LifeNews ==
  ASSUME Typed, NEW a \in Apps, News(a), InitAgent, agent \in Range(Starting) => Quiet(a)
  PROVE  News(a)'
<1>1. CASE RegisterAgentWithMonitor
  <2>1. /\ UNCHANGED <<row, dev, signals, heard, bus>> /\ bus.pc = "idle" /\ agent' = "monitored"
        /\ agent = "created" /\ dev[a].name = 1
        /\ view' = [b \in Apps |->
                IF heard[b][1] = "none" THEN Unknown
                ELSE [name |-> 1, state |-> heard[b][1],
                      sync |-> IF row[b] = "none" THEN "unmanaged" ELSE row[b]]]
    BY <1>1, BegunPhases DEF RegisterAgentWithMonitor, Phase, storage, Quiet
  <2>2. \A n \in Names : n # 1 => heard[a][n] = "none"
    <3>1. \A n \in Names : n # 1 => n > 1
      BY Names0
    <3> QED BY <2>1, <3>1 DEF News
  <2>3. ~Hears(a) /\ ~Hears(a)' /\ bus'.pc # "insert"
    BY <2>1 DEF Hears
  <2>4. CASE heard[a][1] = "none"
    <3>1. view'[a].name = 0
      BY <2>1, <2>4, UnknownView
    <3>2. NeverHeard(a)'
      BY <2>1, <2>2, <2>4 DEF NeverHeard
    <3> QED BY <2>1, <2>3, <3>1, <3>2 DEF News
  <2>5. CASE heard[a][1] # "none"
    <3>1. view'[a].name = 1 /\ view'[a].state = heard[a][1]
      BY <2>1, <2>5
    <3>2. HeardLast(a, 1)'
      <4>1. \A n \in Names : n > 1 => n # 1
        BY Names0
      <4> QED BY <2>1, <2>2, <2>5, <4>1 DEF HeardLast
    <3> QED BY <2>1, <2>3, <3>1, <3>2 DEF News
  <2> QED BY <2>4, <2>5
<1>2. CASE RegisterUpdaterWithMonitor
  <2>1. UNCHANGED <<row, dev, signals, heard, bus, view>> /\ agent # "created" /\ agent' # "created"
    BY <1>2 DEF RegisterUpdaterWithMonitor, Phase, storage
  <2> QED BY <2>1, NewsStays
<1>3. CASE RegisterWithStorage
  <2>1. UNCHANGED <<row, dev, signals, heard, bus, view>> /\ agent # "created" /\ agent' # "created"
    BY <1>3 DEF RegisterWithStorage, Phase, monitor
  <2> QED BY <2>1, NewsStays
<1> QED BY <1>1, <1>2, <1>3 DEF InitAgent

\* Updates and claims change what an application signals, and the agent hears of it.
LEMMA ClaimNews ==
  ASSUME Typed, NEW a \in Apps, News(a), NEW t \in Users, NEW b \in Apps, Claim(t, b)
  PROVE  News(a)'
<1>1. /\ UNCHANGED <<row, heard, bus, view, agent>> /\ view[b].name = dev[b].name /\ dev[b].name \in Names
      /\ dev \in [Apps -> [up : BOOLEAN, name : Names, state : AppStates]]
      /\ dev' = [dev EXCEPT ![b].state = "claimed"] /\ signals' = signals \cup {b}
  BY DEF Claim, storage, Typed, MonitorTyped
<1>2. CASE a # b
  <2>1. dev'[a] = dev[a] /\ (a \in signals' <=> a \in signals)
    BY <1>1, <1>2
  <2> QED BY <1>1, <2>1, NewsStays
<1>3. CASE a = b
  <2>1. dev'[a].name = dev[a].name /\ a \in signals' /\ view[a].name # 0
    BY <1>1, <1>3, Names0
  <2> QED BY <1>1, <2>1 DEF News, Hears, HeardLast, NeverHeard
<1> QED BY <1>2, <1>3

LEMMA WorkNews ==
  ASSUME Typed, NEW a \in Apps, News(a), NEW t \in Threads, Updated(t) \/ ResetDone(t)
  PROVE  News(a)'
<1>1. /\ UNCHANGED <<row, heard, bus, view, agent>> /\ th[t].app \in Apps
      /\ dev \in [Apps -> [up : BOOLEAN, name : Names, state : AppStates]]
  BY DEF Updated, ResetDone, storage, Typed, MonitorTyped, ThreadsTyped, WorkOf
<1>2. PICK b \in Apps : b = th[t].app
  BY <1>1
<1>3. CASE UNCHANGED <<dev, signals>>
  BY <1>1, <1>3, NewsStays
<1>4. ASSUME NEW st \in {"claimed", "claimable"}, dev' = [dev EXCEPT ![b].state = st],
             signals' = signals \cup {b}, st = "claimable" \/ dev[b].state = "need_update"
      PROVE  News(a)'
  <2>1. CASE a # b
    <3>1. dev'[a] = dev[a] /\ (a \in signals' <=> a \in signals)
      BY <1>1, <1>4, <2>1
    <3> QED BY <1>1, <3>1, NewsStays
  <2>2. CASE a = b
    <3>1. dev'[a].name = dev[a].name /\ a \in signals' /\ dev'[a].state = st
      BY <1>1, <1>4, <2>2
    <3> QED BY <1>1, <1>4, <2>2, <3>1 DEF News, Hears, HeardLast, NeverHeard
  <2> QED BY <2>1, <2>2
<1> QED BY <1>2, <1>3, <1>4 DEF Updated, ResetDone

------------------------------------------------------------------------------
(* Calls that are made alone, and resets *)

LEMMA BeginsFacts ==
  ASSUME Careful, Typed, CallsOf, NEW t \in Users, NEW kind, Begins(t, kind)
  PROVE  /\ th[t] = NoWork /\ t \in Threads /\ agent = "up"
         /\ \A u \in Threads : th[u].pc # "store"
         /\ kind \in {"remove", "wipe", "claim"} => spent'.alone /\ \A u \in Threads : th[u] = NoWork
<1>1. th[t] = NoWork /\ t \in Threads /\ agent = "up" /\ kind \in Calls
  BY BeginsTyped DEF Begins, Careful
<1>2. (\A u \in Threads : th[u].pc = "idle") \/ (kind \notin Alone /\ ~spent.alone)
  BY DEF Begins
<1>3. \A u \in Threads : th[u].pc = "idle" => th[u] = NoWork
  BY DEF Typed, ThreadsTyped, WorkOf
<1>4. \A u \in Threads : th[u].pc # "store"
  BY <1>2 DEF CallsOf, AloneOf
<1>5. kind \in {"remove", "wipe", "claim"} => kind \in Alone
  BY <1>1 DEF Careful
<1>6. spent'.alone = (kind \in Alone)
  <2>1. spent \in [calls : 0..MaxCalls, events : 0..MaxEvents, alone : BOOLEAN]
    BY DEF Typed, AgentTyped
  <2>2. spent' = [spent EXCEPT !.calls = @ + 1, !.alone = kind \in Alone]
    BY DEF Begins
  <2> QED BY <2>1, <2>2
<1> QED BY <1>1, <1>2, <1>3, <1>4, <1>5, <1>6

\* The calls of the others.
LEMMA CallKeeps ==
  ASSUME Typed, Typed', CallsOf, NEW u \in Threads, th'[u] = th[u], RowsFall, counter' \in {counter, counter + 1},
         th[u].event = "pending" /\ row[th[u].app] \in {"ok", "pending"} =>
           heard'[th[u].app][dev'[th[u].app].name] # "claimable",
         th[u].pc = "store" =>
           /\ spent'.alone /\ dev'[th[u].app].state # "claimable" /\ view'[th[u].app].name # 0
           /\ \A v \in Threads \ {u} : th'[v].app # th[u].app /\ th'[v].event # "wiped"
  PROVE  AloneOf(u)' /\ ResetsOf(u)'
<1>1. AloneOf(u) /\ ResetsOf(u) /\ th[u] \in Work /\ WorkOf(th[u]) /\ counter \in Nat
  BY DEF CallsOf, Typed, ThreadsTyped, StorageTyped
<1>2. th[u].tx \in Nat
  BY <1>1 DEF Work
<1>3. /\ th[u].event \in {"removed", "pending"} => th[u].app \in Apps
      /\ th[u].pc \in {"store", "work", "report"} => th[u].app \in Apps
  <2>1. th[u].pc \in Pcs
    BY <1>1 DEF Work
  <2> QED BY <1>1, <2>1 DEF WorkOf, NoWork, Pcs
<1>4. AloneOf(u)'
  <2>1. th[u].pc = "store" => row'[th[u].app] = "none"
    BY <1>1, <1>3 DEF AloneOf, RowsFall
  <2>2. th[u].event = "removed" => row'[th[u].app] = "none"
    BY <1>1, <1>3 DEF AloneOf, RowsFall
  <2>3. th[u].event = "wiped" => \A a \in Apps : row'[a] = "none"
    BY <1>1 DEF AloneOf, RowsFall
  <2> QED BY <2>1, <2>2, <2>3 DEF AloneOf
<1>5. ResetsOf(u)'
  <2>1. th[u].tx <= counter' /\ (th[u].tx = counter' => counter' # counter + 1)
    <3>1. th[u].tx <= counter
      BY <1>1 DEF ResetsOf
    <3> QED BY <1>1, <1>2, <3>1
  <2>2. ASSUME th[u].pc \in {"work", "report"}, th[u].sync \in {"will_reset", "reset"}
        PROVE  row'[th[u].app] \in {"will_reset", "none"}
    <3>1. row[th[u].app] \in {"will_reset", "none"} /\ th[u].app \in Apps
      BY <1>1, <1>3, <2>2 DEF ResetsOf
    <3>2. row'[th[u].app] \notin {"ok", "pending"} \/ row[th[u].app] \in {"ok", "pending"}
      BY <3>1 DEF RowsFall
    <3>3. row[th[u].app] = "none" => row'[th[u].app] = "none"
      BY <3>1 DEF RowsFall
    <3>4. row'[th[u].app] \in Stored
      BY <3>1 DEF Typed, StorageTyped
    <3> QED BY <3>1, <3>2, <3>3, <3>4 DEF Stored
  <2>3. ASSUME th[u].pc \in {"work", "report"}, th[u].sync \notin {"will_reset", "reset"}, th[u].tx = counter'
        PROVE  row'[th[u].app] # "will_reset"
    <3>1. counter' = counter
      BY <2>1, <2>3
    <3> QED BY <1>1, <1>3, <2>1, <2>3, <3>1 DEF ResetsOf, RowsFall
  <2>4. th[u].event = "pending" /\ row'[th[u].app] \in {"ok", "pending"} => row[th[u].app] \in {"ok", "pending"}
    BY <1>3 DEF RowsFall
  <2> QED BY <2>1, <2>2, <2>3, <2>4 DEF ResetsOf
<1> QED BY <1>4, <1>5

\* Steps outside the threads.
LEMMA ThreadsRest ==
  ASSUME Typed, Typed', CallsOf, UNCHANGED <<th, row, counter>>,
         \A a \in Apps : /\ dev[a].state # "claimable" => dev'[a].state # "claimable"
                         /\ view[a].name # 0 => view'[a].name # 0,
         spent.alone => spent'.alone,
         \A a \in Apps : row[a] \in {"ok", "pending"} /\ heard[a][dev[a].name] # "claimable" =>
                           heard'[a][dev'[a].name] # "claimable"
  PROVE  CallsOf'
<1>1. RowsFall
  BY DEF RowsFall
<1>2. ASSUME NEW u \in Threads PROVE AloneOf(u)' /\ ResetsOf(u)'
  <2>1. AloneOf(u) /\ ResetsOf(u) /\ th[u] \in Work /\ WorkOf(th[u]) /\ counter \in Nat
    BY DEF CallsOf, Typed, ThreadsTyped, StorageTyped
  <2>2. th[u].pc = "store" => th[u].app \in Apps
    BY <2>1 DEF WorkOf
  <2>3. th[u].event = "pending" => th[u].app \in Apps
    <3>1. th[u].pc \in Pcs
      BY <2>1 DEF Work
    <3> QED BY <2>1, <3>1 DEF WorkOf, NoWork, Pcs
  <2>4. th[u].event = "pending" /\ row[th[u].app] \in {"ok", "pending"} =>
           heard'[th[u].app][dev'[th[u].app].name] # "claimable"
    BY <2>1, <2>3 DEF ResetsOf
  <2>5. th[u].pc = "store" =>
           /\ spent'.alone /\ dev'[th[u].app].state # "claimable" /\ view'[th[u].app].name # 0
           /\ \A v \in Threads \ {u} : th'[v].app # th[u].app /\ th'[v].event # "wiped"
    BY <2>1, <2>2 DEF AloneOf
  <2> QED BY <1>1, <2>1, <2>4, <2>5, CallKeeps
<1> QED BY <1>2 DEF CallsOf

LEMMA AppCalls ==
  ASSUME Typed, Typed', CallsOf, NEW b \in Apps, AppStops(b) \/ AppStarts(b) \/ AppNeedsUpdate(b),
         \A a \in Apps : News(a)
  PROVE  CallsOf'
<1>1. /\ UNCHANGED <<th, row, counter, view, heard>> /\ dev[b].name \in Names
      /\ dev \in [Apps -> [up : BOOLEAN, name : Names, state : AppStates]]
      /\ spent \in [calls : 0..MaxCalls, events : 0..MaxEvents, alone : BOOLEAN]
  BY DEF AppStops, AppStarts, AppNeedsUpdate, storage, Typed, MonitorTyped, AgentTyped
<1>2. spent'.alone = spent.alone
  BY <1>1 DEF AppStops, AppStarts, AppNeedsUpdate, Happens
<1>3. ASSUME NEW a \in Apps
      PROVE  /\ dev[a].state # "claimable" => dev'[a].state # "claimable"
             /\ heard[a][dev[a].name] # "claimable" => heard'[a][dev'[a].name] # "claimable"
  <2>1. CASE AppStarts(b)
    <3>1. dev'[a].state = dev[a].state /\ (a # b => dev'[a] = dev[a]) /\ (a = b => dev'[a].name = dev[a].name + 1)
      BY <1>1, <2>1 DEF AppStarts
    <3>2. a = b => dev'[a].name \in Names /\ dev'[a].name > dev[a].name
      <4>1. dev'[a].name \in Names
        BY DEF Typed, MonitorTyped
      <4>2. dev[a].name \in Nat
        BY Names0 DEF Typed, MonitorTyped
      <4> QED BY <3>1, <4>1, <4>2
    <3>3. a = b => heard[a][dev'[a].name] = "none"
      BY <3>2 DEF News
    <3> QED BY <1>1, <3>1, <3>3
  <2>2. CASE AppStops(b) \/ AppNeedsUpdate(b)
    <3>1. dev'[a].name = dev[a].name /\ (dev'[a].state = dev[a].state \/ dev'[a].state = "need_update")
      BY <1>1, <2>2 DEF AppStops, AppNeedsUpdate
    <3> QED BY <1>1, <3>1
  <2> QED BY <2>1, <2>2
<1> QED BY <1>1, <1>2, <1>3, ThreadsRest

LEMMA StateCalls ==
  ASSUME Typed, Typed', CallsOf, NEW b \in Apps, State(b), \A a \in Apps : RowOf(a)
  PROVE  CallsOf'
<1>1. /\ UNCHANGED <<th, row, counter, view, dev, spent>> /\ dev[b].name \in Names
      /\ heard' = [heard EXCEPT ![b][dev[b].name] = dev[b].state]
      /\ heard \in [Apps -> [Names -> AppStates \cup {"none"}]]
  BY DEF State, storage, Typed, MonitorTyped
<1>2. ASSUME NEW a \in Apps, row[a] \in {"ok", "pending"}, heard[a][dev[a].name] # "claimable"
      PROVE  heard'[a][dev'[a].name] # "claimable"
  <2>1. CASE a # b
    BY <1>1, <1>2, <2>1
  <2>2. CASE a = b
    <3>1. heard'[a][dev'[a].name] = dev[a].state
      BY <1>1, <2>2
    <3> QED BY <1>2, <3>1 DEF RowOf, StillClaimed
  <2> QED BY <2>1, <2>2
<1> QED BY <1>1, <1>2, ThreadsRest

LEMMA BusCalls ==
  ASSUME Typed, Typed', CallsOf, Bus, agent \in Begun, \A a \in Apps : News(a)
  PROVE  CallsOf'
<1>1. /\ UNCHANGED <<th, row, counter, dev, spent, heard>>
  BY DEF Bus, UpdateKnown, LookUp, Insert, AddJob, storage
<1>2. ASSUME NEW a \in Apps, view[a].name # 0 PROVE view'[a].name # 0
  <2>1. view \in [Apps -> Views] /\ (bus.pc # "idle" => bus.name # 0)
    BY Names0 DEF Typed, AgentTyped, MonitorTyped, BusOf
  <2>2. CASE UpdateKnown
    <3>1. view[a] \in [name : Names, state : AppStates, sync : SyncStates]
      BY <1>2, <2>1, UnknownName DEF Views
    <3>2. view' = [view EXCEPT ![bus.app] = [view[bus.app] EXCEPT !.name = bus.name, !.state = bus.new]]
      BY <2>2 DEF UpdateKnown
    <3> QED BY <1>2, <2>1, <2>2, <3>1, <3>2 DEF UpdateKnown, Calling
  <2>3. CASE Insert
    <3>1. bus.app = a => bus.entry.name = bus.name
      BY <2>3 DEF Insert, News
    <3> QED BY <1>2, <2>1, <2>3, <3>1 DEF Insert
  <2> QED BY <1>2, <2>2, <2>3 DEF Bus, LookUp, AddJob
<1> QED BY <1>1, <1>2, ThreadsRest

LEMMA LifeCalls ==
  ASSUME Typed, Typed', CallsOf, InitAgent, \A a \in Apps : News(a)
  PROVE  CallsOf'
<1>1. /\ UNCHANGED <<th, row, counter, dev, spent, heard>>
  BY DEF InitAgent, RegisterAgentWithMonitor, RegisterUpdaterWithMonitor, RegisterWithStorage, storage, monitor
<1>2. \A a \in Apps : view[a].name # 0 => view'[a].name # 0
  <2>1. UNCHANGED view \/ agent = "created"
    BY DEF InitAgent, RegisterAgentWithMonitor, RegisterUpdaterWithMonitor, RegisterWithStorage, Phase
  <2> QED BY <2>1 DEF News
<1> QED BY <1>1, <1>2, ThreadsRest

\* What a step of one thread has to leave to the others.
Leaves(t) ==
  /\ spent.alone => spent'.alone
  /\ \A a \in Apps : view[a].name # 0 => view'[a].name # 0
  /\ \A a \in Apps : dev[a].state # "claimable" /\ dev'[a].state = "claimable" => a = th[t].app
  /\ th'[t].app \in {th[t].app, Nobody} \/ (th'[t].app \in Apps /\ row[th'[t].app] # "none")
  /\ th'[t].event = "wiped" => th[t].event = "wiped"

LEMMA OthersKeep ==
  ASSUME Typed, Typed', CallsOf, NEW t \in Threads, Only(t), RowsFall, counter' \in {counter, counter + 1},
         heard' = heard, \A a \in Apps : dev'[a].name = dev[a].name,
         (\A u \in Threads : th[u].pc # "store") \/ Leaves(t)
  PROVE  \A u \in Threads \ {t} : AloneOf(u)' /\ ResetsOf(u)'
<1>1. SUFFICES ASSUME NEW u \in Threads \ {t} PROVE AloneOf(u)' /\ ResetsOf(u)'
  OBVIOUS
<1>2. AloneOf(u) /\ ResetsOf(u) /\ th[u] \in Work /\ WorkOf(th[u]) /\ th'[u] = th[u]
  BY DEF CallsOf, Typed, ThreadsTyped, Only
<1>3. /\ th[u].pc = "store" => th[u].app \in Apps
      /\ th[u].event = "pending" => th[u].app \in Apps
  <2>1. th[u].pc \in Pcs
    BY <1>2 DEF Work
  <2> QED BY <1>2, <2>1 DEF WorkOf, NoWork, Pcs
<1>4. th[u].event = "pending" /\ row[th[u].app] \in {"ok", "pending"} =>
        heard'[th[u].app][dev'[th[u].app].name] # "claimable"
  BY <1>2, <1>3 DEF ResetsOf
<1>5. ASSUME th[u].pc = "store"
      PROVE  /\ spent'.alone /\ dev'[th[u].app].state # "claimable" /\ view'[th[u].app].name # 0
             /\ \A v \in Threads \ {u} : th'[v].app # th[u].app /\ th'[v].event # "wiped"
  <2>1. Leaves(t)
    BY <1>5
  <2>2. /\ spent.alone /\ row[th[u].app] = "none" /\ dev[th[u].app].state # "claimable" /\ view[th[u].app].name # 0
        /\ \A v \in Threads \ {u} : th[v].app # th[u].app /\ th[v].event # "wiped"
    BY <1>2, <1>5 DEF AloneOf
  <2>3. th[u].app \in Apps /\ th[u].app # Nobody
    BY <1>3, <1>5, Rows
  <2>4. spent'.alone /\ dev'[th[u].app].state # "claimable" /\ view'[th[u].app].name # 0
    BY <2>1, <2>2, <2>3 DEF Leaves
  <2>5. th'[t].app # th[u].app /\ th'[t].event # "wiped"
    BY <2>1, <2>2, <2>3 DEF Leaves
  <2>6. ASSUME NEW v \in Threads \ {u} PROVE th'[v].app # th[u].app /\ th'[v].event # "wiped"
    BY <2>2, <2>5 DEF Only
  <2> QED BY <2>4, <2>6
<1> QED BY <1>2, <1>4, <1>5, CallKeeps

\* A thread whose own part holds, too.
LEMMA OwnAndOthers ==
  ASSUME Typed, Typed', CallsOf, NEW t \in Threads, Only(t), RowsFall, counter' \in {counter, counter + 1},
         heard' = heard, \A a \in Apps : dev'[a].name = dev[a].name,
         (\A u \in Threads : th[u].pc # "store") \/ Leaves(t),
         AloneOf(t)', ResetsOf(t)'
  PROVE  CallsOf'
BY OthersKeep DEF CallsOf

\* A thread that notifies or rests.
LEMMA NotifyCalls ==
  ASSUME Typed', NEW t \in Threads, th'[t].pc \notin {"store", "work", "report"}, th'[t].tx = 0,
         th'[t].event = "removed" => row'[th'[t].app] = "none",
         th'[t].event = "wiped" => \A a \in Apps : row'[a] = "none",
         th'[t].event = "pending" /\ row'[th'[t].app] \in {"ok", "pending"} =>
           heard'[th'[t].app][dev'[th'[t].app].name] # "claimable"
  PROVE  AloneOf(t)' /\ ResetsOf(t)'
<1>1. counter' \in Nat
  BY DEF Typed, StorageTyped
<1> QED BY <1>1 DEF AloneOf, ResetsOf

\* The fields of a thread that is to notify.
LEMMA Notifies ==
  ASSUME Typed, NEW t \in Threads, NEW a, NEW event, NEW sync, Notify(t, a, event, sync)
  PROVE  /\ Only(t)
         /\ th'[t].pc = "notify" /\ th'[t].app = a /\ th'[t].event = event /\ th'[t].sync = sync
         /\ th'[t].tx = 0 /\ th'[t].at = 0 /\ th'[t].name = 0
<1>1. th \in [Threads -> Work]
  BY DEF Typed, ThreadsTyped
<1>2. th'[t] = [NoWork EXCEPT !.pc = "notify", !.app = a, !.event = event, !.sync = sync]
  BY <1>1 DEF Notify
<1>3. Only(t)
  BY <1>1 DEF Notify, Only
<1> QED BY <1>2, <1>3 DEF NoWork

LEMMA UserCalls ==
  ASSUME Careful, Typed, Typed', CallsOf, \A a \in Apps : RowOf(a), NEW t \in Users, User(t)
  PROVE  CallsOf'
<1>1. t \in Threads /\ counter \in Nat /\ row \in [Apps -> Stored] /\ Nobody \notin Apps
  BY Rows DEF Typed, StorageTyped
<1>2. ASSUME NEW a \in Apps, ApplicationUpdated(t, a) \/ ResetApplication(t, a) PROVE CallsOf'
  <2>1. PICK kind \in {"change", "reset"} : Begins(t, kind)
    BY <1>2 DEF ApplicationUpdated, ResetApplication
  <2>2. \A u \in Threads : th[u].pc # "store"
    BY <2>1, BeginsFacts
  <2>3. /\ counter' = counter + 1 /\ UNCHANGED <<heard, dev>> /\ Notify(t, a, "pending", IF ResetApplication(t, a) THEN "will_reset" ELSE row'[a])
        /\ heard[a][dev[a].name] # "claimable"
    BY <1>2 DEF ApplicationUpdated, ResetApplication, monitor, HeardClaim, Careful
  <2>4. RowsFall
    BY <1>1, <1>2 DEF ApplicationUpdated, ResetApplication, RowsFall
  <2>5. /\ Only(t) /\ th'[t].pc = "notify" /\ th'[t].app = a /\ th'[t].event = "pending" /\ th'[t].tx = 0
    BY <1>1, <2>3, Notifies
  <2>6. AloneOf(t)' /\ ResetsOf(t)'
    BY <1>1, <2>3, <2>5, NotifyCalls
  <2> QED BY <1>1, <2>2, <2>3, <2>4, <2>5, <2>6, OwnAndOthers
<1>3. ASSUME NEW a \in Apps, RemoveApplication(t, a) PROVE CallsOf'
  <2>1. Begins(t, "remove")
    BY <1>3 DEF RemoveApplication
  <2>2. \A u \in Threads : th[u].pc # "store"
    BY <2>1, BeginsFacts
  <2>3. counter' = counter /\ UNCHANGED <<heard, dev>> /\ Notify(t, a, "removed", "none") /\ row'[a] = "none"
    BY <1>1, <1>3 DEF RemoveApplication, monitor
  <2>4. RowsFall
    BY <1>1, <1>3 DEF RemoveApplication, RowsFall
  <2>5. /\ Only(t) /\ th'[t].pc = "notify" /\ th'[t].app = a /\ th'[t].event = "removed" /\ th'[t].tx = 0
    BY <1>1, <2>3, Notifies
  <2>6. AloneOf(t)' /\ ResetsOf(t)'
    BY <1>1, <2>3, <2>5, NotifyCalls
  <2> QED BY <1>1, <2>2, <2>3, <2>4, <2>5, <2>6, OwnAndOthers
<1>4. ASSUME Wipe(t) PROVE CallsOf'
  <2>1. Begins(t, "wipe")
    BY <1>4 DEF Wipe
  <2>2. \A u \in Threads : th[u].pc # "store"
    BY <2>1, BeginsFacts
  <2>3. counter' = counter /\ UNCHANGED <<heard, dev>> /\ Notify(t, Nobody, "wiped", "none") /\ \A a \in Apps : row'[a] = "none"
    BY <1>4 DEF Wipe, monitor
  <2>4. RowsFall
    BY <2>3 DEF RowsFall
  <2>5. /\ Only(t) /\ th'[t].pc = "notify" /\ th'[t].app = Nobody /\ th'[t].event = "wiped" /\ th'[t].tx = 0
    BY <1>1, <2>3, Notifies
  <2>6. AloneOf(t)' /\ ResetsOf(t)'
    BY <1>1, <2>3, <2>5, NotifyCalls
  <2> QED BY <1>1, <2>2, <2>3, <2>4, <2>5, <2>6, OwnAndOthers
<1>5. ASSUME NEW a \in Apps, Claim(t, a) PROVE CallsOf'
  <2>1. Begins(t, "claim") /\ "claim" \in Alone
    BY <1>5 DEF Claim, Begins, Careful
  <2>2. spent'.alone /\ \A u \in Threads : th[u] = NoWork
    BY <2>1, BeginsFacts
  <2>3. /\ counter' = counter /\ UNCHANGED <<heard, row, view>> /\ dev' = [dev EXCEPT ![a].state = "claimed"]
        /\ th' = [th EXCEPT ![t] = [NoWork EXCEPT !.pc = "store", !.app = a]]
        /\ view[a].name = dev[a].name /\ view[a].sync = "unmanaged"
    BY <1>5, <2>1 DEF Claim, monitor, storage
  <2>4. dev \in [Apps -> [up : BOOLEAN, name : Names, state : AppStates]] /\ dev[a].name # 0 /\ th \in [Threads -> Work]
    BY Names0 DEF Typed, MonitorTyped, ThreadsTyped
  <2>5. row[a] = "none"
    BY <2>2, <2>3, <2>4 DEF RowOf, Adding, NoWork
  <2>6. /\ Only(t) /\ th'[t].pc = "store" /\ th'[t].app = a /\ th'[t].event = "none" /\ th'[t].tx = 0
    <3>1. th'[t] = [NoWork EXCEPT !.pc = "store", !.app = a]
      BY <1>1, <2>3, <2>4
    <3>2. Only(t)
      BY <2>3, <2>4 DEF Only
    <3> QED BY <3>1, <3>2 DEF NoWork
  <2>7. RowsFall
    BY <2>3 DEF RowsFall
  <2>8. dev'[a].state # "claimable" /\ \A b \in Apps : dev'[b].name = dev[b].name
    BY <2>3, <2>4
  <2>9. \A u \in Threads \ {t} : th'[u].app # a /\ th'[u].event # "wiped"
    BY <1>1, <2>2, <2>6 DEF NoWork, Only
  <2>10. AloneOf(t)'
    BY <2>2, <2>3, <2>4, <2>5, <2>6, <2>8, <2>9 DEF AloneOf
  <2>11. ResetsOf(t)'
    BY <1>1, <2>3, <2>6 DEF ResetsOf
  <2>12. \A u \in Threads : th[u].pc # "store"
    BY <2>2 DEF NoWork
  <2> QED BY <1>1, <2>3, <2>6, <2>7, <2>8, <2>10, <2>11, <2>12, OwnAndOthers
<1>6. ASSUME NEW a \in Apps, UpdateApplications(t, a) PROVE CallsOf'
  <2>1. Begins(t, "sync")
    BY <1>6 DEF UpdateApplications
  <2>2. \A u \in Threads : th[u].pc # "store"
    BY <2>1, BeginsFacts
  <2>3. /\ UNCHANGED <<heard, row, dev, counter>>
        /\ th' = [th EXCEPT ![t] = [NoWork EXCEPT !.pc = "start", !.app = a,
                                            !.name = view[a].name, !.state = view[a].state]]
    BY <1>6 DEF UpdateApplications, monitor, storage
  <2>4. th \in [Threads -> Work]
    BY DEF Typed, ThreadsTyped
  <2>5. /\ Only(t) /\ th'[t].pc = "start" /\ th'[t].event = "none" /\ th'[t].tx = 0
    <3>1. th'[t] = [NoWork EXCEPT !.pc = "start", !.app = a, !.name = view[a].name, !.state = view[a].state]
      BY <1>1, <2>3, <2>4
    <3>2. Only(t)
      BY <2>3, <2>4 DEF Only
    <3> QED BY <3>1, <3>2 DEF NoWork
  <2>6. RowsFall
    BY <2>3 DEF RowsFall
  <2>7. AloneOf(t)' /\ ResetsOf(t)'
    BY <1>1, <2>5, NotifyCalls
  <2> QED BY <1>1, <2>2, <2>3, <2>5, <2>6, <2>7, OwnAndOthers
<1>7. ASSUME ApplicationClaimed(t) PROVE CallsOf'
  <2>1. PICK a \in Apps : a = th[t].app
    BY <1>1, <1>7 DEF ApplicationClaimed, Typed, ThreadsTyped, WorkOf
  <2>2. /\ counter' = counter /\ UNCHANGED <<heard, dev, view, spent>> /\ Notify(t, a, "added", "ok")
        /\ row' = [row EXCEPT ![a] = "ok"] /\ th[t].pc = "store"
    BY <1>7, <2>1 DEF ApplicationClaimed, monitor
  <2>3. /\ Only(t) /\ th'[t].pc = "notify" /\ th'[t].app = a /\ th'[t].event = "added" /\ th'[t].tx = 0
    BY <1>1, <2>2, Notifies
  <2>4. AloneOf(t)' /\ ResetsOf(t)'
    BY <1>1, <2>3, NotifyCalls
  <2>5. \A u \in Threads \ {t} : th[u].app # a /\ th[u].event # "wiped" /\ th'[u] = th[u]
    BY <1>1, <2>1, <2>2, <2>3 DEF CallsOf, AloneOf, Only
  <2>6. ASSUME NEW u \in Threads \ {t} PROVE AloneOf(u)' /\ ResetsOf(u)'
    <3>1. AloneOf(u) /\ ResetsOf(u) /\ th[u] \in Work /\ WorkOf(th[u])
      BY DEF CallsOf, Typed, ThreadsTyped
    <3>2. /\ th[u].event \in {"removed", "pending"} => th[u].app \in Apps
          /\ th[u].pc \in {"store", "work", "report"} => th[u].app \in Apps
      <4>1. th[u].pc \in Pcs
        BY <3>1 DEF Work
      <4> QED BY <3>1, <4>1 DEF WorkOf, NoWork, Pcs
    <3>3. th[u].app \in Apps => row'[th[u].app] = row[th[u].app]
      BY <1>1, <2>2, <2>5
    <3>4. th[u].pc = "store" => \A v \in Threads \ {u} : th'[v].app # th[u].app /\ th'[v].event # "wiped"
      BY <2>3, <2>5, <3>1 DEF AloneOf
    <3>5. AloneOf(u)'
      BY <2>2, <2>5, <3>1, <3>2, <3>3, <3>4 DEF AloneOf
    <3>6. ResetsOf(u)'
      BY <2>2, <2>5, <3>1, <3>2, <3>3 DEF ResetsOf
    <3> QED BY <3>5, <3>6
  <2> QED BY <2>4, <2>6 DEF CallsOf
<1> QED BY <1>2, <1>3, <1>4, <1>5, <1>6, <1>7 DEF User

\* What a listener's callback leaves of the thread that calls it.
LEMMA NotificationMoves ==
  ASSUME Typed, Typed', NEW t \in Threads, Notifications(t)
  PROVE  /\ Only(t) /\ UNCHANGED <<row, counter, dev, heard, bus, signals, agent, spent>> /\ SameNames
         /\ \/ th'[t] = NoWork
            \/ /\ th'[t].pc = "tell" /\ th'[t].app = th[t].app /\ th'[t].event = th[t].event
               /\ th'[t].tx = th[t].tx /\ th'[t].sync = th[t].sync
         /\ th[t].pc \in {"notify", "tell"}
<1>1. th \in [Threads -> Work] /\ WorkOf(th[t]) /\ view \in [Apps -> Views]
  BY DEF Typed, ThreadsTyped, AgentTyped
<1>2. UNCHANGED <<row, counter, dev, heard, bus, signals, agent, spent>> /\ th[t].pc \in {"notify", "tell"}
  BY DEF Notifications, LockListeners, OnPendingChanges, OnStorageEvent, Telling, monitor
<1>3. Only(t)
  BY <1>1 DEF Only, Notifications, LockListeners, OnPendingChanges, OnStorageEvent, Returned
<1>4. \/ th'[t] = NoWork
      \/ th'[t] = [th[t] EXCEPT !.pc = "tell", !.at = 1]
      \/ th[t].pc = "tell" /\ th'[t] = [th[t] EXCEPT !.at = th[t].at + 1]
  <2>1. CASE LockListeners(t)
    BY <1>1, <2>1 DEF LockListeners
  <2>2. CASE OnPendingChanges(t) \/ OnStorageEvent(t)
    <3>1. Returned(t) /\ th[t].pc = "tell"
      BY <2>2 DEF OnPendingChanges, OnStorageEvent, Telling
    <3> QED BY <1>1, <3>1 DEF Returned
  <2> QED BY <2>1, <2>2 DEF Notifications
<1>5. \/ th'[t] = NoWork
      \/ /\ th'[t].pc = "tell" /\ th'[t].app = th[t].app /\ th'[t].event = th[t].event
         /\ th'[t].tx = th[t].tx /\ th'[t].sync = th[t].sync
  BY <1>1, <1>4 DEF Work
<1>6. SameNames
  <2>1. CASE OnStorageEvent(t)
    <3>1. CASE th[t].event = "wiped"
      BY <2>1, <3>1, SetsNoNames DEF OnStorageEvent
    <3>2. CASE th[t].event # "wiped"
      <4>1. th[t].app \in Apps /\ (th[t].event = "pending" => th[t].sync \in {"pending", "will_reset"})
        BY <1>1, <2>1, <3>2 DEF OnStorageEvent, Telling, WorkOf
      <4>2. th[t].event \in {"pending", "completed", "added", "removed"}
        BY <1>1, <2>1, <3>2 DEF OnStorageEvent, Telling, WorkOf, Work
      <4>3. \/ SetSyncState(th[t].app, "ok") \/ SetSyncState(th[t].app, "unmanaged")
            \/ th[t].event = "pending" /\ SetSyncState(th[t].app, th[t].sync)
        BY <2>1, <4>2 DEF OnStorageEvent
      <4>4. PICK s \in SyncStates : SetSyncState(th[t].app, s)
        BY <4>1, <4>3 DEF SyncStates
      <4> QED BY <4>1, <4>4, SetsNoName
    <3> QED BY <3>1, <3>2
  <2>2. CASE UNCHANGED view
    BY <2>2 DEF SameNames
  <2> QED BY <2>1, <2>2 DEF Notifications, LockListeners, OnPendingChanges
<1> QED BY <1>2, <1>3, <1>5, <1>6

LEMMA NotificationCalls ==
  ASSUME Typed, Typed', CallsOf, NEW t \in Threads, Notifications(t)
  PROVE  CallsOf'
<1>1. /\ Only(t) /\ UNCHANGED <<row, counter, dev, heard, spent>> /\ SameNames
      /\ \/ th'[t] = NoWork
         \/ /\ th'[t].pc = "tell" /\ th'[t].app = th[t].app /\ th'[t].event = th[t].event
            /\ th'[t].tx = th[t].tx
  BY NotificationMoves
<1>2. RowsFall
  BY <1>1 DEF RowsFall
<1>3. Leaves(t)
  <2>1. NoWork.app = Nobody /\ NoWork.event = "none"
    BY DEF NoWork
  <2> QED BY <1>1, <2>1 DEF Leaves, SameNames
<1>4. AloneOf(t) /\ ResetsOf(t) /\ counter \in Nat
  BY DEF CallsOf, Typed, StorageTyped
<1>5. AloneOf(t)' /\ ResetsOf(t)'
  <2>1. CASE th'[t] = NoWork
    <3>1. th'[t].pc = "idle" /\ th'[t].event = "none" /\ th'[t].tx = 0
      BY <2>1 DEF NoWork
    <3> QED BY <3>1, NotifyCalls
  <2>2. CASE th'[t] # NoWork
    BY <1>1, <1>4, <2>2 DEF AloneOf, ResetsOf
  <2> QED BY <2>1, <2>2
<1> QED BY <1>1, <1>2, <1>3, <1>5, OwnAndOthers

\* An update that begins does so for a managed application.
LEMMA Starts ==
  ASSUME Typed, NEW t \in Threads, NEW a \in Apps, NEW n \in Names, NEW s \in AppStates,
         StartsUpdates(t, a, n, s)
  PROVE  /\ Only(t)
         /\ row[a] = "none" => th'[t] = NoWork
         /\ row[a] # "none" =>
              /\ th'[t].pc = "work" /\ th'[t].app = a /\ th'[t].name = n /\ th'[t].state = s
              /\ th'[t].sync = row[a] /\ th'[t].tx = counter /\ th'[t].event = "none" /\ th'[t].at = 0
<1>1. th \in [Threads -> Work]
  BY DEF Typed, ThreadsTyped
<1>2. Only(t)
  BY <1>1 DEF StartsUpdates, Only
<1>3. row[a] = "none" => th'[t] = NoWork
  BY <1>1 DEF StartsUpdates
<1>4. row[a] # "none" => th'[t] = [NoWork EXCEPT !.pc = "work", !.app = a, !.name = n, !.state = s,
                                                  !.sync = row[a], !.tx = counter]
  BY <1>1 DEF StartsUpdates
<1>5. row[a] # "none" =>
              /\ th'[t].pc = "work" /\ th'[t].app = a /\ th'[t].name = n /\ th'[t].state = s
              /\ th'[t].sync = row[a] /\ th'[t].tx = counter /\ th'[t].event = "none" /\ th'[t].at = 0
  BY <1>4 DEF NoWork
<1> QED BY <1>2, <1>3, <1>5

LEMMA StartsCalls ==
  ASSUME Typed, Typed', CallsOf, NEW t \in Threads, NEW a \in Apps, NEW n \in Names, NEW s \in AppStates,
         StartsUpdates(t, a, n, s), UNCHANGED <<row, counter, dev, heard, view, spent>>
  PROVE  CallsOf'
<1>1. /\ Only(t)
      /\ row[a] = "none" => th'[t] = NoWork
      /\ row[a] # "none" => /\ th'[t].pc = "work" /\ th'[t].app = a /\ th'[t].event = "none"
                            /\ th'[t].sync = row[a] /\ th'[t].tx = counter
  BY Starts
<1>2. RowsFall
  BY DEF RowsFall
<1>3. NoWork.app = Nobody /\ NoWork.event = "none" /\ NoWork.pc = "idle" /\ NoWork.tx = 0
  BY DEF NoWork
<1>4. Leaves(t)
  BY <1>1, <1>3 DEF Leaves
<1>5. row[a] \in Stored /\ counter \in Nat
  BY DEF Typed, StorageTyped
<1>6. AloneOf(t)' /\ ResetsOf(t)'
  <2>1. CASE row[a] = "none"
    BY <1>1, <1>3, <2>1, NotifyCalls
  <2>2. CASE row[a] # "none"
    BY <1>1, <1>5, <2>2 DEF AloneOf, ResetsOf, Stored
  <2> QED BY <2>1, <2>2
<1> QED BY <1>1, <1>2, <1>4, <1>6, OwnAndOthers

LEMMA TakeJobCalls ==
  ASSUME Typed, Typed', CallsOf, TakeJob
  PROVE  CallsOf'
<1>1. UNCHANGED <<row, counter, dev, heard, view, spent>> /\ Head(jobs) \in Jobs
  BY DEF TakeJob, storage, monitor, Typed, AgentTyped
<1>2. CASE UNCHANGED th
  BY <1>1, <1>2, ThreadsRest
<1>3. PICK j \in Jobs : j = Head(jobs)
  BY <1>1
<1>4. CASE StartsUpdates(Updater, j.app, j.name, j.new)
  <2>1. j.app \in Apps /\ j.name \in Names /\ j.new \in AppStates /\ Updater \in Threads
    BY Rows DEF Jobs
  <2> QED BY <1>1, <1>4, <2>1, StartsCalls
<1> QED BY <1>2, <1>3, <1>4 DEF TakeJob

\* What ends in a report.
LEMMA WorkMoves ==
  ASSUME Typed, NEW t \in Threads, Updated(t) \/ ResetDone(t)
  PROVE  /\ Only(t) /\ UNCHANGED <<row, counter, heard, bus, jobs, view, agent, spent, storageListeners>>
         /\ th[t].pc = "work" /\ th'[t].pc = "report" /\ th[t].app \in Apps
         /\ th'[t].app = th[t].app /\ th'[t].name = th[t].name /\ th'[t].state = th[t].state
         /\ th'[t].tx = th[t].tx /\ th'[t].event = th[t].event /\ th'[t].at = th[t].at
         /\ Updated(t) => th[t].sync # "will_reset" /\ th'[t].sync = "ok" /\ th[t].state # "claimable"
         /\ ResetDone(t) => th[t].sync = "will_reset" /\ th'[t].sync = "reset"
<1>1. th \in [Threads -> Work] /\ WorkOf(th[t])
  BY DEF Typed, ThreadsTyped
<1>2. /\ UNCHANGED <<row, counter, heard, bus, jobs, view, agent, spent, storageListeners>> /\ th[t].pc = "work"
      /\ Updated(t) => th[t].sync # "will_reset" /\ th[t].state # "claimable"
      /\ ResetDone(t) => th[t].sync = "will_reset"
  BY DEF Updated, ResetDone, storage
<1>3. Only(t)
  BY <1>1 DEF Updated, ResetDone, Only
<1>4. th'[t] = [th[t] EXCEPT !.pc = "report", !.sync = IF th[t].sync = "will_reset" THEN "reset" ELSE "ok"]
  BY <1>1, <1>2 DEF Updated, ResetDone
<1>5. /\ th'[t].pc = "report" /\ th'[t].app = th[t].app /\ th'[t].name = th[t].name /\ th'[t].state = th[t].state
      /\ th'[t].tx = th[t].tx /\ th'[t].event = th[t].event /\ th'[t].at = th[t].at
      /\ th'[t].sync = IF th[t].sync = "will_reset" THEN "reset" ELSE "ok"
  BY <1>1, <1>4 DEF Work
<1> QED BY <1>1, <1>2, <1>3, <1>5 DEF WorkOf

LEMMA WorkCalls ==
  ASSUME Typed, Typed', CallsOf, NEW t \in Threads, Updated(t) \/ ResetDone(t)
  PROVE  CallsOf'
<1>1. /\ Only(t) /\ UNCHANGED <<row, counter, heard, view, spent>>
      /\ th[t].pc = "work" /\ th'[t].pc = "report" /\ th[t].app \in Apps
      /\ th'[t].app = th[t].app /\ th'[t].tx = th[t].tx /\ th'[t].event = th[t].event
      /\ Updated(t) => th[t].sync # "will_reset" /\ th'[t].sync = "ok"
      /\ ResetDone(t) => th[t].sync = "will_reset" /\ th'[t].sync = "reset"
  BY WorkMoves
<1>2. RowsFall
  BY <1>1 DEF RowsFall
<1>3. /\ \A a \in Apps : dev'[a].name = dev[a].name
      /\ \A a \in Apps : dev'[a].state = dev[a].state \/ a = th[t].app
  <2>1. dev \in [Apps -> [up : BOOLEAN, name : Names, state : AppStates]]
    BY DEF Typed, MonitorTyped
  <2>2. UNCHANGED dev \/ \E st \in {"claimed", "claimable"} : dev' = [dev EXCEPT ![th[t].app].state = st]
    BY DEF Updated, ResetDone
  <2> QED BY <2>1, <2>2
<1>4. Leaves(t)
  BY <1>1, <1>3 DEF Leaves
<1>5. AloneOf(t) /\ ResetsOf(t) /\ counter \in Nat /\ WorkOf(th[t])
  BY DEF CallsOf, Typed, StorageTyped, ThreadsTyped
<1>6. AloneOf(t)'
  BY <1>1, <1>5 DEF AloneOf, WorkOf
<1>7. ResetsOf(t)'
  <2>1. th[t].event = "none" /\ th[t].sync \notin {"reset"}
    BY <1>1, <1>5 DEF WorkOf
  <2> QED BY <1>1, <1>5, <2>1 DEF ResetsOf
<1> QED BY <1>1, <1>2, <1>3, <1>4, <1>6, <1>7, OwnAndOthers

\* The four ends of a report.
ReportsReset(t) == th[t].sync = "reset" /\ row' = [row EXCEPT ![th[t].app] = "none"]
                   /\ Notify(t, th[t].app, "removed", "none")
ReportsNothing(t) == row[th[t].app] = "none" /\ th' = [th EXCEPT ![t] = NoWork] /\ UNCHANGED row
ReportsAgain(t) ==
  /\ th[t].sync = "ok" /\ row[th[t].app] # "none" /\ th[t].tx # counter /\ UNCHANGED row
  /\ th' = [th EXCEPT ![t].pc = "work", ![t].sync = row[th[t].app], ![t].tx = counter]
ReportsOk(t) ==
  /\ th[t].sync = "ok" /\ row[th[t].app] # "none" /\ th[t].tx = counter
  /\ row' = [row EXCEPT ![th[t].app] = "ok"] /\ Notify(t, th[t].app, "completed", "ok")

LEMMA Reports ==
  ASSUME Typed, NEW t \in Threads, UpdatesCompleted(t)
  PROVE  /\ Only(t) /\ UNCHANGED <<counter, dev, heard, bus, jobs, view, agent, spent, signals, storageListeners>>
         /\ th[t].pc = "report" /\ th[t].app \in Apps /\ th[t].event = "none"
         /\ ReportsReset(t) \/ ReportsNothing(t) \/ ReportsAgain(t) \/ ReportsOk(t)
<1>1. th \in [Threads -> Work] /\ WorkOf(th[t])
  BY DEF Typed, ThreadsTyped
<1>2. UNCHANGED <<counter, dev, heard, bus, jobs, view, agent, spent, signals, storageListeners>> /\ th[t].pc = "report"
  BY DEF UpdatesCompleted, monitor
<1>3. th[t].app \in Apps /\ th[t].event = "none" /\ th[t].sync \in {"reset", "ok"}
  BY <1>1, <1>2 DEF WorkOf
<1>4. ReportsReset(t) \/ ReportsNothing(t) \/ ReportsAgain(t) \/ ReportsOk(t)
  BY <1>3 DEF UpdatesCompleted, ReportsReset, ReportsNothing, ReportsAgain, ReportsOk
<1>5. Only(t)
  BY <1>1, <1>4 DEF Only, ReportsReset, ReportsNothing, ReportsAgain, ReportsOk, Notify
<1> QED BY <1>2, <1>3, <1>4, <1>5

LEMMA WorksAgain ==
  ASSUME Typed, NEW t \in Threads, ReportsAgain(t)
  PROVE  /\ th'[t].pc = "work" /\ th'[t].sync = row[th[t].app] /\ th'[t].tx = counter
         /\ th'[t].app = th[t].app /\ th'[t].name = th[t].name /\ th'[t].state = th[t].state
         /\ th'[t].event = th[t].event /\ th'[t].at = th[t].at
<1>1. th \in [Threads -> Work]
  BY DEF Typed, ThreadsTyped
<1>2. th'[t] = [th[t] EXCEPT !.pc = "work", !.sync = row[th[t].app], !.tx = counter]
  BY <1>1 DEF ReportsAgain
<1> QED BY <1>1, <1>2 DEF Work

LEMMA ReportCalls ==
  ASSUME Typed, Typed', CallsOf, NEW t \in Threads, UpdatesCompleted(t)
  PROVE  CallsOf'
<1>1. /\ Only(t) /\ UNCHANGED <<counter, dev, heard, view, spent>>
      /\ th[t].pc = "report" /\ th[t].app \in Apps /\ th[t].event = "none"
      /\ ReportsReset(t) \/ ReportsNothing(t) \/ ReportsAgain(t) \/ ReportsOk(t)
  BY Reports
<1>2. AloneOf(t) /\ ResetsOf(t) /\ counter \in Nat /\ row \in [Apps -> Stored] /\ th \in [Threads -> Work]
  BY DEF CallsOf, Typed, StorageTyped, ThreadsTyped
<1>3. NoWork.app = Nobody /\ NoWork.event = "none" /\ NoWork.pc = "idle" /\ NoWork.tx = 0
  BY DEF NoWork
<1>4. CASE ReportsReset(t)
  <2>1. RowsFall /\ row'[th[t].app] = "none"
    BY <1>1, <1>2, <1>4 DEF RowsFall, ReportsReset
  <2>2. th'[t].pc = "notify" /\ th'[t].app = th[t].app /\ th'[t].event = "removed" /\ th'[t].tx = 0
    BY <1>4, Notifies DEF ReportsReset
  <2>3. Leaves(t)
    BY <1>1, <2>2 DEF Leaves
  <2>4. AloneOf(t)' /\ ResetsOf(t)'
    BY <2>1, <2>2, NotifyCalls
  <2> QED BY <1>1, <2>1, <2>3, <2>4, OwnAndOthers
<1>5. CASE ReportsNothing(t)
  <2>1. RowsFall /\ th'[t] = NoWork
    BY <1>2, <1>5 DEF RowsFall, ReportsNothing
  <2>2. Leaves(t)
    BY <1>1, <1>3, <2>1 DEF Leaves
  <2>3. AloneOf(t)' /\ ResetsOf(t)'
    BY <1>3, <2>1, NotifyCalls
  <2> QED BY <1>1, <2>1, <2>2, <2>3, OwnAndOthers
<1>6. CASE ReportsAgain(t)
  <2>1. RowsFall /\ UNCHANGED row
    BY <1>6 DEF RowsFall, ReportsAgain
  <2>2. th'[t].pc = "work" /\ th'[t].sync = row[th[t].app] /\ th'[t].tx = counter /\ th'[t].app = th[t].app
        /\ th'[t].event = "none"
    BY <1>1, <1>6, WorksAgain
  <2>3. Leaves(t)
    BY <1>1, <2>2 DEF Leaves
  <2>4. AloneOf(t)' /\ ResetsOf(t)'
    BY <1>1, <1>2, <2>1, <2>2 DEF AloneOf, ResetsOf, Stored
  <2> QED BY <1>1, <2>1, <2>3, <2>4, OwnAndOthers
<1>7. CASE ReportsOk(t)
  <2>1. row[th[t].app] \in {"ok", "pending"}
    BY <1>1, <1>2, <1>7 DEF ReportsOk, ResetsOf, Stored
  <2>2. RowsFall
    BY <1>1, <1>2, <1>7, <2>1 DEF RowsFall, ReportsOk
  <2>3. th'[t].pc = "notify" /\ th'[t].app = th[t].app /\ th'[t].event = "completed" /\ th'[t].tx = 0
    BY <1>7, Notifies DEF ReportsOk
  <2>4. Leaves(t)
    BY <1>1, <2>3 DEF Leaves
  <2>5. AloneOf(t)' /\ ResetsOf(t)'
    BY <2>3, NotifyCalls
  <2> QED BY <1>1, <2>2, <2>4, <2>5, OwnAndOthers
<1> QED BY <1>1, <1>4, <1>5, <1>6, <1>7

LEMMA UpdateCalls ==
  ASSUME Typed, Typed', CallsOf, NEW t \in Threads, UpdateApplication(t)
  PROVE  CallsOf'
<1>1. CASE StartUpdates(t)
  <2>1. UNCHANGED <<row, counter, dev, heard, view, spent>> /\ th[t].app \in Apps /\ th[t].name \in Names
        /\ th[t].state \in AppStates
    BY <1>1 DEF StartUpdates, storage, monitor, Typed, ThreadsTyped, WorkOf, AppStates
  <2>2. StartsUpdates(t, th[t].app, th[t].name, th[t].state)
    BY <1>1 DEF StartUpdates
  <2> QED BY <2>1, <2>2, StartsCalls
<1>2. CASE UpdateFails(t)
  <2>1. /\ th' = [th EXCEPT ![t] = NoWork] /\ UNCHANGED <<row, counter, dev, heard, view, spent>>
        /\ th \in [Threads -> Work]
    BY <1>2 DEF UpdateFails, storage, monitor, Typed, ThreadsTyped
  <2>2. Only(t) /\ th'[t] = NoWork /\ RowsFall
    BY <2>1 DEF Only, RowsFall
  <2>3. NoWork.app = Nobody /\ NoWork.event = "none" /\ NoWork.pc = "idle" /\ NoWork.tx = 0
    BY DEF NoWork
  <2>4. Leaves(t)
    BY <2>1, <2>2, <2>3 DEF Leaves
  <2>5. AloneOf(t)' /\ ResetsOf(t)'
    BY <2>2, <2>3, NotifyCalls
  <2> QED BY <2>1, <2>2, <2>4, <2>5, OwnAndOthers
<1> QED BY <1>1, <1>2, WorkCalls, ReportCalls DEF UpdateApplication

------------------------------------------------------------------------------
(* Managed applications are claimed *)

LEMMA ClaimedStays ==
  ASSUME NEW a \in Apps, StillClaimed(a), row'[a] \in {"ok", "pending"} => row[a] \in {"ok", "pending"},
         dev[a].state # "claimable" => dev'[a].state # "claimable"
  PROVE  StillClaimed(a)'
BY DEF StillClaimed

LEMMA UserClaimed ==
  ASSUME Careful, Typed, CallsOf, NEW a \in Apps, StillClaimed(a), NEW t \in Users, User(t)
  PROVE  StillClaimed(a)'
<1>1. t \in Threads /\ row \in [Apps -> Stored] /\ dev \in [Apps -> [up : BOOLEAN, name : Names, state : AppStates]]
  BY Rows DEF Typed, StorageTyped, MonitorTyped
<1>2. CASE \E b \in Apps : ApplicationUpdated(t, b) \/ ResetApplication(t, b) \/ RemoveApplication(t, b)
  <2>1. UNCHANGED dev /\ (row'[a] \in {"ok", "pending"} => row[a] \in {"ok", "pending"})
    BY <1>1, <1>2 DEF ApplicationUpdated, ResetApplication, RemoveApplication
  <2> QED BY <2>1, ClaimedStays
<1>3. CASE Wipe(t)
  BY <1>3 DEF Wipe, StillClaimed
<1>4. CASE \E b \in Apps : Claim(t, b)
  <2>1. UNCHANGED row /\ (dev[a].state # "claimable" => dev'[a].state # "claimable")
    BY <1>1, <1>4 DEF Claim, storage
  <2> QED BY <2>1, ClaimedStays
<1>5. CASE \E b \in Apps : UpdateApplications(t, b)
  BY <1>5, ClaimedStays DEF UpdateApplications, storage
<1>6. CASE ApplicationClaimed(t)
  <2>1. UNCHANGED dev /\ row' = [row EXCEPT ![th[t].app] = "ok"] /\ dev[th[t].app].state # "claimable"
    BY <1>1, <1>6 DEF ApplicationClaimed, CallsOf, AloneOf
  <2> QED BY <1>1, <2>1 DEF StillClaimed
<1> QED BY <1>2, <1>3, <1>4, <1>5, <1>6 DEF User

LEMMA UpdateClaimed ==
  ASSUME Typed, CallsOf, NEW a \in Apps, StillClaimed(a), NEW t \in Threads, UpdateApplication(t)
  PROVE  StillClaimed(a)'
<1>1. /\ row \in [Apps -> Stored] /\ dev \in [Apps -> [up : BOOLEAN, name : Names, state : AppStates]]
      /\ ResetsOf(t)
  BY DEF Typed, StorageTyped, MonitorTyped, CallsOf
<1>2. CASE StartUpdates(t) \/ UpdateFails(t)
  BY <1>2, ClaimedStays DEF StartUpdates, UpdateFails, storage
<1>3. CASE Updated(t)
  <2>1. UNCHANGED row /\ (dev[a].state # "claimable" => dev'[a].state # "claimable")
    BY <1>1, <1>3 DEF Updated, storage
  <2> QED BY <2>1, ClaimedStays
<1>4. CASE ResetDone(t)
  <2>1. UNCHANGED row /\ (a # th[t].app => dev'[a] = dev[a])
    BY <1>1, <1>4 DEF ResetDone, storage
  <2>2. row[th[t].app] \in {"will_reset", "none"}
    BY <1>1, <1>4 DEF ResetDone, ResetsOf
  <2> QED BY <2>1, <2>2 DEF StillClaimed
<1>5. CASE UpdatesCompleted(t)
  <2>1. UNCHANGED dev /\ th[t].pc = "report" /\ th[t].app \in Apps
        /\ (ReportsReset(t) \/ ReportsNothing(t) \/ ReportsAgain(t) \/ ReportsOk(t))
    BY <1>5, Reports
  <2>2. CASE ReportsOk(t)
    <3>1. row[th[t].app] \in {"ok", "pending"}
      BY <1>1, <2>1, <2>2 DEF ReportsOk, ResetsOf, Stored
    <3> QED BY <1>1, <2>1, <2>2, <3>1 DEF ReportsOk, StillClaimed
  <2>3. CASE ReportsReset(t) \/ ReportsNothing(t) \/ ReportsAgain(t)
    <3>1. row'[a] \in {"ok", "pending"} => row[a] \in {"ok", "pending"}
      BY <1>1, <2>3 DEF ReportsReset, ReportsNothing, ReportsAgain
    <3> QED BY <2>1, <3>1, ClaimedStays
  <2> QED BY <2>1, <2>2, <2>3
<1> QED BY <1>2, <1>3, <1>4, <1>5 DEF UpdateApplication

------------------------------------------------------------------------------
(* What is still to come for an application *)

\* A step of one thread that leaves an application and what is heard of it alone.
Nearby(t, a) ==
  /\ Only(t)
  /\ dev'[a].up = dev[a].up /\ dev'[a].name = dev[a].name /\ heard'[a] = heard[a] /\ bus' = bus
  /\ row[a] = "will_reset" => row'[a] = "will_reset"
  /\ Len(jobs) <= Len(jobs') /\ \A i \in 1 .. Len(jobs) : jobs'[i] = jobs[i]

LEMMA ComingStays ==
  ASSUME Typed, Typed', NEW a \in Apps, NEW t \in Threads, Nearby(t, a), Coming(a),
         Updates(t, a) \/ Asks(t, a) => Coming(a)'
  PROVE  Coming(a)'
<1>1. CASE NewName(a)
  BY <1>1 DEF Nearby, Coming, NewName
<1>2. CASE bus.pc # "idle" /\ Fresh(bus, a)
  BY <1>2 DEF Nearby, Coming, Fresh
<1>3. ASSUME NEW i \in 1 .. Len(jobs), Fresh(jobs[i], a) PROVE Coming(a)'
  <2>1. i \in 1 .. Len(jobs')
    <3>1. Len(jobs) \in Nat /\ Len(jobs') \in Nat
      BY DEF Typed, AgentTyped
    <3> QED BY <1>3, <3>1 DEF Nearby
  <2>2. Fresh(jobs[i], a)'
    BY <1>3 DEF Nearby, Fresh
  <2> QED BY <2>1, <2>2 DEF Coming
<1>4. ASSUME NEW u \in Threads \ {t}, Updates(u, a) \/ Asks(u, a) PROVE Coming(a)'
  <2>1. th'[u] = th[u]
    BY DEF Nearby, Only
  <2>2. Updates(u, a)' \/ Asks(u, a)'
    BY <1>4, <2>1 DEF Nearby, Updates, Asks
  <2> QED BY <2>2 DEF Coming
<1> QED BY <1>1, <1>2, <1>3, <1>4 DEF Coming

LEMMA AppliedStays ==
  ASSUME NEW a \in Apps, NEW t \in Threads, Only(t), row'[a] = row[a], Applied(a),
         view[a].name = 0 \/ view[a].sync = "ok" => view'[a].name = 0 \/ view'[a].sync = "ok",
         ~Disturbs(t, a)', Completes(t, a) => Applied(a)'
  PROVE  Applied(a)'
<1>1. CASE SaysOk(a)
  <2>1. \A u \in Threads \ {t} : ~Disturbs(u, a)'
    BY <1>1 DEF SaysOk, Disturbs, Only
  <2> QED BY <1>1, <2>1 DEF SaysOk, Applied
<1>2. ASSUME NEW u \in Threads \ {t}, Completes(u, a) PROVE Applied(a)'
  BY <1>2 DEF Completes, Only, Applied
<1> QED BY <1>1, <1>2 DEF Applied

\* A thread that was not concerned with an application changes nothing for it.
LEMMA FollowedStays ==
  ASSUME Typed, Typed', NEW a \in Apps, NEW t \in Threads, Nearby(t, a), Followed(a),
         row'[a] = row[a] \/ row'[a] = "none",
         view[a].name = 0 \/ view[a].sync = "ok" => view'[a].name = 0 \/ view'[a].sync = "ok",
         ~Disturbs(t, a)', Completes(t, a) => Followed(a)', Updates(t, a) \/ Asks(t, a) => Followed(a)'
  PROVE  Followed(a)'
<1>1. CASE row'[a] = "none" \/ Followed(a)'
  BY <1>1 DEF Followed
<1>2. CASE row'[a] = row[a] /\ row'[a] # "none" /\ ~Completes(t, a) /\ ~Updates(t, a) /\ ~Asks(t, a)
  <2>1. Coming(a) => Coming(a)'
    BY <1>2, ComingStays
  <2>2. Applied(a) => Applied(a)'
    BY <1>2, AppliedStays DEF Nearby
  <2> QED BY <1>2, <2>1, <2>2 DEF Followed
<1> QED BY <1>1, <1>2

\* A thread that does not tell of a claim.
LEMMA AddingStays ==
  ASSUME NEW a \in Apps, NEW t \in Threads, Only(t), Adding(a), row'[a] = row[a] \/ row'[a] = "none" \/ row[a] # "none",
         view'[a].name # 0 /\ view'[a].sync = "unmanaged" => view[a].name # 0 /\ view[a].sync = "unmanaged",
         th[t].event = "added" /\ th[t].app = a => Adding(a)'
  PROVE  Adding(a)'
<1>1. \A u \in Threads \ {t} : th'[u] = th[u]
  BY DEF Only
<1> QED BY <1>1 DEF Adding

\* A name that was signalled since the last start is the one that was heard last.
LEMMA LastName ==
  ASSUME Typed, NEW a \in Apps, News(a), ~NewName(a), NEW n \in Names, HeardLast(a, n)
  PROVE  n = dev[a].name
<1>1. PICK d \in Names : d = dev[a].name
  BY DEF Typed, MonitorTyped
<1>2. heard[a][d] # "none" /\ \A m \in Names : m > d => heard[a][m] = "none"
  BY <1>1 DEF NewName, News
<1>3. ~(n > d) /\ ~(d > n)
  BY <1>2 DEF HeardLast
<1> QED BY <1>1, <1>3, Names0

LEMMA AppFollowed ==
  ASSUME Typed, Typed', NEW a \in Apps, News(a), Followed(a), Adding(a),
         NEW b \in Apps, AppStops(b) \/ AppStarts(b) \/ AppNeedsUpdate(b)
  PROVE  Followed(a)' /\ Adding(a)'
<1>1. /\ UNCHANGED <<row, th, view, heard, bus, jobs>> /\ dev[b].name \in Names
      /\ dev \in [Apps -> [up : BOOLEAN, name : Names, state : AppStates]]
  BY DEF AppStops, AppStarts, AppNeedsUpdate, storage, Typed, MonitorTyped
<1>2. Adding(a)'
  BY <1>1 DEF Adding
<1>3. Applied(a) => Applied(a)'
  BY <1>1 DEF Applied, SaysOk, Completes, Disturbs
<1>4. CASE dev'[a].up = dev[a].up /\ dev'[a].name = dev[a].name
  <2>1. Coming(a) => Coming(a)'
    BY <1>1, <1>4 DEF Coming, NewName, Fresh, Updates, Asks
  <2> QED BY <1>1, <1>2, <1>3, <2>1 DEF Followed
<1>5. CASE ~dev'[a].up
  BY <1>2, <1>5 DEF Followed, Coming, NewName
<1>6. CASE dev'[a].name = dev[a].name + 1
  <2>1. dev'[a].name \in Names /\ dev[a].name \in Nat
    BY Names0 DEF Typed, MonitorTyped
  <2>2. dev'[a].name > dev[a].name
    BY <1>6, <2>1
  <2>3. heard'[a][dev'[a].name] = "none"
    BY <1>1, <2>1, <2>2 DEF News
  <2> QED BY <1>2, <2>3 DEF Followed, Coming, NewName
<1>7. \/ dev'[a].up = dev[a].up /\ dev'[a].name = dev[a].name
      \/ ~dev'[a].up
      \/ dev'[a].name = dev[a].name + 1
  BY <1>1 DEF AppStops, AppStarts, AppNeedsUpdate
<1> QED BY <1>4, <1>5, <1>6, <1>7

LEMMA StateFollowed ==
  ASSUME Typed, Typed', agent = "up", NEW a \in Apps, RowOf(a), NEW b \in Apps, State(b)
  PROVE  Followed(a)' /\ Adding(a)'
<1>1. /\ UNCHANGED <<row, th, view, dev, jobs>> /\ dev[b].name \in Names /\ bus.pc = "idle"
      /\ heard' = [heard EXCEPT ![b][dev[b].name] = dev[b].state]
      /\ heard \in [Apps -> [Names -> AppStates \cup {"none"}]] /\ row[a] \in Stored
  BY DEF State, storage, Typed, MonitorTyped, StorageTyped
<1>2. Adding(a)'
  BY <1>1 DEF RowOf, Adding
<1>3. Applied(a) => Applied(a)'
  BY <1>1 DEF Applied, SaysOk, Completes, Disturbs
<1>4. Coming(a) => NewName(a) \/ Coming(a)'
  BY <1>1 DEF Coming, Fresh, Updates, Asks
<1>5. ASSUME NewName(a), row[a] # "none" PROVE Coming(a)'
  <2>1. CASE a # b
    BY <1>1, <1>5, <2>1 DEF NewName, Coming
  <2>2. CASE a = b /\ ~dev[a].up
    BY <1>1, <2>2 DEF NewName, Coming
  <2>3. CASE a = b /\ dev[a].up
    <3>1. heard[a][dev[a].name] = "none"
      BY <1>5, <2>3 DEF NewName
    <3>2. monitorListeners # <<>>
      BY First, BegunPhases
    <3>3. bus' = [NoSignal EXCEPT !.pc = "tell", !.at = 1, !.app = b, !.name = dev[b].name,
                                       !.old = heard[b][dev[b].name], !.new = dev[b].state]
      BY <3>2 DEF State
    <3>4. bus'.pc = "tell" /\ bus'.app = a /\ bus'.name = dev[a].name /\ bus'.old = "none" /\ bus'.new = dev[a].state
      BY <2>3, <3>1, <3>3 DEF NoSignal
    <3>5. row[a] \in {"ok", "pending"} => dev[a].state # "claimable"
      BY DEF RowOf, StillClaimed
    <3>6. Fresh(bus, a)'
      BY <1>1, <1>5, <3>4, <3>5 DEF Fresh, Stored
    <3> QED BY <3>4, <3>6 DEF Coming
  <2> QED BY <2>1, <2>2, <2>3
<1> QED BY <1>1, <1>2, <1>3, <1>4, <1>5 DEF RowOf, Followed

LEMMA BusFollowed ==
  ASSUME Typed, Typed', agent = "up", NEW a \in Apps, News(a), RowOf(a), Bus
  PROVE  Followed(a)' /\ Adding(a)'
<1>1. /\ UNCHANGED <<row, th, dev, heard>> /\ bus.pc # "idle" /\ bus.app \in Apps /\ bus.name \in Names
      /\ view \in [Apps -> Views] /\ jobs \in Seq(Jobs) /\ row[a] \in Stored
      /\ bus \in [pc : {"idle", "tell", "insert"}, at : Nat,
                  app : Apps \cup {Nobody}, name : {0} \cup Names,
                  old : AppStates \cup {"none"}, new : AppStates, entry : Views]
  BY DEF Bus, UpdateKnown, LookUp, Insert, AddJob, storage, Calling, Typed, MonitorTyped, BusOf, AgentTyped,
         StorageTyped
<1>2. /\ Len(monitorListeners) = 2
      /\ bus.at = 1 \/ bus.at = 2
      /\ bus.at = 2 => monitorListeners[bus.at] = "updater"
      /\ bus.at = 1 => monitorListeners[bus.at] = "agent"
      /\ bus.pc = "insert" => bus.at = 1
  BY <1>1, First, BegunPhases
<1>3. /\ \A i \in 1 .. Len(jobs) : i \in 1 .. Len(jobs') /\ jobs'[i] = jobs[i]
  BY <1>1 DEF Bus, UpdateKnown, LookUp, Insert, AddJob
<1>4. Coming(a) => Coming(a)' \/ (Fresh(bus, a) /\ ~(bus'.pc # "idle" /\ Fresh(bus, a)'))
  BY <1>1, <1>3 DEF Coming, NewName, Fresh, Updates, Asks
<1>5. Called /\ bus.at = 1 =>
        bus'.pc = "tell" /\ bus'.app = bus.app /\ bus'.name = bus.name /\ bus'.old = bus.old /\ bus'.new = bus.new
  BY <1>1, <1>2 DEF Called
<1>6. CASE UpdateKnown
  <2>1. bus.at = 1 /\ Called
    BY <1>2, <1>6 DEF UpdateKnown, Calling
  <2>2. Fresh(bus, a) => bus'.pc # "idle" /\ Fresh(bus, a)'
    BY <1>1, <1>5, <2>1 DEF Fresh
  <2>3. view'[a].sync = view[a].sync /\ (view[a].name = 0 <=> view'[a].name = 0)
    <3>1. CASE a # bus.app
      BY <1>1, <1>6, <3>1 DEF UpdateKnown
    <3>2. CASE a = bus.app
      <4>1. view[a] \in [name : Names, state : AppStates, sync : SyncStates] /\ view[a].name # 0
        BY <1>1, <1>6, <3>2, UnknownName DEF UpdateKnown, Views
      <4>2. view' = [view EXCEPT ![a] = [view[a] EXCEPT !.name = bus.name, !.state = bus.new]]
        BY <1>6, <3>2 DEF UpdateKnown
      <4>3. view'[a] = [view[a] EXCEPT !.name = bus.name, !.state = bus.new]
        BY <1>1, <4>2
      <4> QED BY <1>1, <4>1, <4>3, Names0
    <3> QED BY <3>1, <3>2
  <2>4. Applied(a) => Applied(a)'
    BY <1>1, <2>3 DEF Applied, SaysOk, Completes, Disturbs
  <2>5. Adding(a)'
    BY <1>1, <2>3 DEF RowOf, Adding
  <2> QED BY <1>1, <1>4, <2>2, <2>4, <2>5 DEF RowOf, Followed
<1>7. CASE LookUp
  <2>1. UNCHANGED view /\ bus'.pc = "insert" /\ bus'.app = bus.app /\ bus'.name = bus.name /\ bus'.old = bus.old
        /\ bus'.new = bus.new
    BY <1>1, <1>7 DEF LookUp
  <2>2. Fresh(bus, a) => bus'.pc # "idle" /\ Fresh(bus, a)'
    BY <1>1, <2>1 DEF Fresh
  <2>3. Applied(a) => Applied(a)'
    BY <1>1, <2>1 DEF Applied, SaysOk, Completes, Disturbs
  <2>4. Adding(a)'
    BY <1>1, <2>1 DEF RowOf, Adding
  <2> QED BY <1>1, <1>4, <2>2, <2>3, <2>4 DEF RowOf, Followed
<1>8. CASE AddJob
  <2>1. UNCHANGED view /\ jobs' = Append(jobs, [app |-> bus.app, name |-> bus.name, old |-> bus.old, new |-> bus.new])
    BY <1>8 DEF AddJob
  <2>2. PICK x \in Jobs : x = [app |-> bus.app, name |-> bus.name, old |-> bus.old, new |-> bus.new]
    BY <1>1 DEF Jobs
  <2>3. Len(jobs') = Len(jobs) + 1 /\ jobs'[Len(jobs) + 1] = x
    BY <1>1, <2>1, <2>2
  <2>4. Fresh(bus, a) => \E i \in 1 .. Len(jobs') : x = jobs'[i] /\ x.app = a /\ x.name = dev[a].name /\ x.old = "none"
                           /\ (x.new # "claimable" \/ row[a] = "will_reset")
    <3>1. Len(jobs) + 1 \in 1 .. Len(jobs')
      BY <1>1, <2>3
    <3> QED BY <2>2, <2>3, <3>1 DEF Fresh
  <2>5. Fresh(bus, a) => Coming(a)'
    BY <1>1, <2>4 DEF Coming, Fresh
  <2>6. Applied(a) => Applied(a)'
    BY <1>1, <2>1 DEF Applied, SaysOk, Completes, Disturbs
  <2>7. Adding(a)'
    BY <1>1, <2>1 DEF RowOf, Adding
  <2> QED BY <1>1, <1>4, <2>5, <2>6, <2>7 DEF RowOf, Followed
<1>9. CASE Insert
  <2>1. bus.at = 1 /\ Called /\ view' = [view EXCEPT ![bus.app] = bus.entry] /\ bus.pc = "insert"
    BY <1>2, <1>9 DEF Insert
  <2>2. Fresh(bus, a) => bus'.pc # "idle" /\ Fresh(bus, a)'
    BY <1>1, <1>5, <2>1 DEF Fresh
  <2>3. CASE a # bus.app
    <3>1. view'[a] = view[a]
      BY <1>1, <2>1, <2>3
    <3>2. Applied(a) => Applied(a)'
      BY <1>1, <3>1 DEF Applied, SaysOk, Completes, Disturbs
    <3>3. Adding(a)'
      BY <1>1, <3>1 DEF RowOf, Adding
    <3> QED BY <1>1, <1>4, <2>2, <3>2, <3>3 DEF RowOf, Followed
  <2>4. CASE a = bus.app
    <3>1. view'[a] = bus.entry /\ Hears(a)
      BY <1>1, <2>1, <2>4 DEF Hears
    <3>2. Adding(a)'
      BY <1>1, <2>1, <2>4, <3>1 DEF News, Adding
    <3>3. ASSUME row[a] # "none", ~NewName(a) PROVE Fresh(bus, a)
      <4>1. HeardLast(a, bus.name) /\ bus.old = "none" /\ (dev[a].state = "claimable" \/ bus.new # "claimable")
        BY <1>1, <2>1, <2>4, <3>1, Names0 DEF News
      <4>2. bus.name = dev[a].name
        BY <1>1, <3>3, <4>1, LastName
      <4>3. bus.new # "claimable" \/ row[a] = "will_reset"
        BY <1>1, <3>3, <4>1 DEF RowOf, StillClaimed, Stored
      <4> QED BY <2>4, <4>1, <4>2, <4>3 DEF Fresh
    <3>4. row[a] # "none" => Coming(a)'
      <4>1. NewName(a) => NewName(a)'
        BY <1>1 DEF NewName
      <4> QED BY <2>2, <3>3, <4>1 DEF Coming
    <3> QED BY <1>1, <3>2, <3>4 DEF Followed
  <2> QED BY <2>3, <2>4
<1> QED BY <1>6, <1>7, <1>8, <1>9 DEF Bus

\* A call that begins has told nothing yet.
LEMMA NewCall ==
  ASSUME Typed, NEW a \in Apps, NEW t \in Threads, th[t] = NoWork
  PROVE  ~Updates(t, a) /\ ~Asks(t, a) /\ ~Completes(t, a) /\ ~Disturbs(t, a) /\ th[t].event # "added"
BY DEF NoWork, Updates, Asks, Completes, Disturbs

LEMMA UserFollowed ==
  ASSUME Careful, Typed, Typed', CallsOf, NEW a \in Apps, RowOf(a), NEW t \in Users, User(t)
  PROVE  Followed(a)' /\ Adding(a)'
<1>1. t \in Threads /\ row \in [Apps -> Stored] /\ th \in [Threads -> Work] /\ Len(jobs) \in Nat /\ Nobody \notin Apps
      /\ Followed(a) /\ Adding(a)
  BY Rows DEF Typed, StorageTyped, ThreadsTyped, AgentTyped, RowOf
<1>2. ASSUME NEW b \in Apps, ApplicationUpdated(t, b) \/ ResetApplication(t, b) PROVE Followed(a)' /\ Adding(a)'
  <2>1. PICK kind \in {"change", "reset"} : Begins(t, kind)
    BY <1>2 DEF ApplicationUpdated, ResetApplication
  <2>2. th[t] = NoWork
    BY <2>1, BeginsFacts
  <2>3. /\ UNCHANGED <<heard, dev, bus, view, jobs>> /\ row[b] # "none"
        /\ Notify(t, b, "pending", IF ResetApplication(t, b) THEN "will_reset" ELSE row'[b])
    BY <1>2 DEF ApplicationUpdated, ResetApplication, monitor
  <2>4. /\ Only(t) /\ th'[t].pc = "notify" /\ th'[t].app = b /\ th'[t].event = "pending"
    BY <1>1, <2>3, Notifies
  <2>5. (a # b => row'[a] = row[a]) /\ (row[a] = "will_reset" => row'[a] = "will_reset")
    BY <1>1, <1>2 DEF ApplicationUpdated, ResetApplication
  <2>6. Nearby(t, a)
    BY <1>1, <2>3, <2>4, <2>5 DEF Nearby
  <2>7. Adding(a)'
    <3>1. row'[a] = row[a] \/ row[a] # "none"
      BY <2>3, <2>5
    <3> QED BY <1>1, <2>2, <2>3, <2>4, <3>1, NewCall, AddingStays
  <2>8. CASE a = b
    <3>1. Asks(t, a)'
      BY <2>4, <2>8 DEF Asks
    <3> QED BY <1>1, <2>7, <3>1 DEF Followed, Coming
  <2>9. CASE a # b
    <3>1. ~Disturbs(t, a)'
      BY <2>4 DEF Disturbs
    <3> QED BY <1>1, <2>2, <2>3, <2>5, <2>6, <2>7, <2>9, <3>1, NewCall, FollowedStays
  <2> QED BY <2>8, <2>9
<1>3. ASSUME NEW b \in Apps, RemoveApplication(t, b) PROVE Followed(a)' /\ Adding(a)'
  <2>1. Begins(t, "remove")
    BY <1>3 DEF RemoveApplication
  <2>2. th[t] = NoWork
    BY <2>1, BeginsFacts
  <2>3. UNCHANGED <<heard, dev, bus, view, jobs>> /\ Notify(t, b, "removed", "none") /\ row' = [row EXCEPT ![b] = "none"]
    BY <1>3 DEF RemoveApplication, monitor
  <2>4. /\ Only(t) /\ th'[t].pc = "notify"
    BY <1>1, <2>3, Notifies
  <2>5. CASE a = b
    BY <1>1, <2>3, <2>5 DEF Followed, Adding
  <2>6. CASE a # b
    <3>1. row'[a] = row[a]
      BY <1>1, <2>3, <2>6
    <3>2. Nearby(t, a) /\ ~Disturbs(t, a)'
      BY <1>1, <2>3, <2>4, <3>1 DEF Nearby, Disturbs
    <3>3. Followed(a)'
      BY <1>1, <2>2, <2>3, <3>1, <3>2, NewCall, FollowedStays
    <3>4. Adding(a)'
      BY <1>1, <2>2, <2>3, <2>4, <3>1, NewCall, AddingStays
    <3> QED BY <3>3, <3>4
  <2> QED BY <2>5, <2>6
<1>4. ASSUME Wipe(t) PROVE Followed(a)' /\ Adding(a)'
  BY <1>4 DEF Wipe, Followed, Adding
<1>5. ASSUME NEW b \in Apps, Claim(t, b) PROVE Followed(a)' /\ Adding(a)'
  <2>1. Begins(t, "claim")
    BY <1>5 DEF Claim
  <2>2. th[t] = NoWork
    BY <2>1, BeginsFacts
  <2>3. /\ UNCHANGED <<heard, row, view, bus, jobs>> /\ dev' = [dev EXCEPT ![b].state = "claimed"]
        /\ th' = [th EXCEPT ![t] = [NoWork EXCEPT !.pc = "store", !.app = b]]
    BY <1>5 DEF Claim, storage
  <2>4. /\ Only(t) /\ th'[t].event = "none"
    <3>1. th'[t] = [NoWork EXCEPT !.pc = "store", !.app = b]
      BY <1>1, <2>3
    <3>2. Only(t)
      BY <1>1, <2>3 DEF Only
    <3> QED BY <3>1, <3>2 DEF NoWork
  <2>5. dev'[a].up = dev[a].up /\ dev'[a].name = dev[a].name
    BY <2>3 DEF Typed, MonitorTyped
  <2>6. Nearby(t, a) /\ ~Disturbs(t, a)'
    BY <1>1, <2>3, <2>4, <2>5 DEF Nearby, Disturbs
  <2>7. Followed(a)'
    BY <1>1, <2>2, <2>3, <2>6, NewCall, FollowedStays
  <2>8. Adding(a)'
    BY <1>1, <2>2, <2>3, <2>4, NewCall, AddingStays
  <2> QED BY <2>7, <2>8
<1>6. ASSUME NEW b \in Apps, UpdateApplications(t, b) PROVE Followed(a)' /\ Adding(a)'
  <2>1. Begins(t, "sync")
    BY <1>6 DEF UpdateApplications
  <2>2. th[t] = NoWork
    BY <2>1, BeginsFacts
  <2>3. /\ UNCHANGED <<heard, row, dev, bus, jobs>> /\ SetSyncState(b, "ok")
        /\ th' = [th EXCEPT ![t] = [NoWork EXCEPT !.pc = "start", !.app = b,
                                            !.name = view[b].name, !.state = view[b].state]]
    BY <1>6 DEF UpdateApplications, storage, monitor
  <2>4. /\ Only(t) /\ th'[t].event = "none"
    <3>1. th'[t] = [NoWork EXCEPT !.pc = "start", !.app = b, !.name = view[b].name, !.state = view[b].state]
      BY <1>1, <2>3
    <3>2. Only(t)
      BY <1>1, <2>3 DEF Only
    <3> QED BY <3>1, <3>2 DEF NoWork
  <2>5. /\ view'[a].name = view[a].name
        /\ view[a].name # 0 => view'[a].sync = "ok" \/ view'[a].sync = view[a].sync
    BY <2>3, SetsNoName DEF SyncStates, SameNames
  <2>6. Nearby(t, a) /\ ~Disturbs(t, a)'
    BY <1>1, <2>3, <2>4 DEF Nearby, Disturbs
  <2>7. Followed(a)'
    BY <1>1, <2>2, <2>3, <2>5, <2>6, NewCall, FollowedStays
  <2>8. Adding(a)'
    BY <1>1, <2>2, <2>3, <2>4, <2>5, NewCall, AddingStays
  <2> QED BY <2>7, <2>8
<1>7. ASSUME ApplicationClaimed(t) PROVE Followed(a)' /\ Adding(a)'
  <2>1. /\ UNCHANGED <<heard, dev, bus, view, jobs>> /\ Notify(t, th[t].app, "added", "ok")
        /\ row' = [row EXCEPT ![th[t].app] = "ok"] /\ th[t].pc = "store"
    BY <1>7 DEF ApplicationClaimed, monitor
  <2>2. /\ Only(t) /\ th'[t].pc = "notify" /\ th'[t].app = th[t].app /\ th'[t].event = "added"
    BY <1>1, <2>1, Notifies
  <2>3. th[t].event = "none"
    BY <1>1, <2>1 DEF Typed, ThreadsTyped, WorkOf
  <2>4. CASE a = th[t].app
    <3>1. Completes(t, a)' /\ row'[a] = "ok"
      BY <1>1, <2>1, <2>2, <2>4 DEF Completes
    <3> QED BY <1>1, <2>2, <2>4, <3>1 DEF Followed, Applied, Adding
  <2>5. CASE a # th[t].app
    <3>1. row'[a] = row[a]
      BY <1>1, <2>1, <2>5
    <3>2. Nearby(t, a) /\ ~Disturbs(t, a)'
      BY <1>1, <2>1, <2>2, <3>1 DEF Nearby, Disturbs
    <3>3. ~Updates(t, a) /\ ~Asks(t, a) /\ ~Completes(t, a)
      BY <2>1, <2>3 DEF Updates, Asks, Completes
    <3>4. Followed(a)'
      BY <1>1, <2>1, <3>1, <3>2, <3>3, FollowedStays
    <3>5. Adding(a)'
      BY <1>1, <2>1, <2>2, <2>3, <3>1, AddingStays
    <3> QED BY <3>4, <3>5
  <2> QED BY <2>4, <2>5
<1> QED BY <1>2, <1>3, <1>4, <1>5, <1>6, <1>7 DEF User

\* An agent that is up has two listeners at the storage, the updater first.
LEMMA Second ==
  ASSUME Typed, agent = "up", NEW t \in Threads
  PROVE  /\ storageListeners = <<"updater", "agent">> /\ Len(storageListeners) = 2
         /\ Telling(t, "updater") => th[t].at = 1
         /\ Telling(t, "agent") => th[t].at = 2
         /\ th[t].pc = "tell" => listenerLock = t
<1>1. storageListeners = <<"updater", "agent">>
  BY DEF Typed, ListenersOf
<1>2. th[t].pc = "tell" => listenerLock = t /\ th[t].at \in 1 .. 2
  BY <1>1 DEF Typed, Locked
<1>3. th[t].pc = "tell" => th[t].at = 1 \/ th[t].at = 2
  BY <1>2
<1> QED BY <1>1, <1>2, <1>3 DEF Telling

LEMMA LockFollowed ==
  ASSUME Typed, Typed', agent = "up", NEW a \in Apps, RowOf(a), NEW t \in Threads, LockListeners(t)
  PROVE  Followed(a)' /\ Adding(a)'
<1>1. th \in [Threads -> Work] /\ Len(jobs) \in Nat /\ Followed(a) /\ Adding(a) /\ th[t].pc = "notify"
      /\ UNCHANGED <<row, dev, heard, bus, jobs, view>>
  BY DEF Typed, ThreadsTyped, AgentTyped, RowOf, LockListeners, monitor
<1>2. Only(t)
  BY NotificationMoves DEF Notifications
<1>3. th'[t] = [th[t] EXCEPT !.pc = "tell", !.at = 1]
  <2>1. storageListeners # <<>>
    BY Second
  <2> QED BY <1>1, <2>1 DEF LockListeners
<1>4. th'[t].pc = "tell" /\ th'[t].at = 1 /\ th'[t].app = th[t].app /\ th'[t].event = th[t].event
  BY <1>1, <1>3 DEF Work
<1>5. Nearby(t, a) /\ ~Disturbs(t, a)' /\ ~Updates(t, a)
  BY <1>1, <1>2, <1>4 DEF Nearby, Disturbs, Updates
<1>6. Asks(t, a) => Followed(a)'
  BY <1>4 DEF Asks, Followed, Coming
<1>7. Completes(t, a) => Completes(t, a)'
  BY <1>4 DEF Completes
<1>8. Followed(a)'
  <2>1. Coming(a) => Coming(a)'
    BY <1>4, <1>5, ComingStays DEF Asks, Coming
  <2>2. Applied(a) => Applied(a)'
    BY <1>1, <1>2, <1>5, <1>7, AppliedStays DEF Applied
  <2> QED BY <1>1, <2>1, <2>2 DEF Followed
<1>9. Adding(a)'
  <2>1. th[t].event = "added" /\ th[t].app = a => Adding(a)'
    BY <1>4 DEF Adding
  <2> QED BY <1>1, <1>2, <2>1, AddingStays
<1> QED BY <1>8, <1>9

\* The updater is told of a change: there is a job for it, or the signal of another
\* name is still to be heard or to be passed on.
LEMMA PendingIsAsked ==
  ASSUME Typed, Typed', agent = "up", NEW a \in Apps, News(a), row[a] # "none", CallsOf,
         NEW t \in Threads, OnPendingChanges(t), th[t].event = "pending", th[t].app = a
  PROVE  Coming(a)'
<1>1. UNCHANGED <<row, dev, heard, bus, view>> /\ jobs \in Seq(Jobs) /\ row[a] \in Stored /\ view[a] \in Views
      /\ dev[a].name \in Names /\ heard \in [Apps -> [Names -> AppStates \cup {"none"}]]
      /\ (bus.pc # "idle" => bus.name \in Names)
  BY DEF OnPendingChanges, Typed, AgentTyped, StorageTyped, MonitorTyped, BusOf, monitor
<1>2. CASE NewName(a)
  BY <1>1, <1>2 DEF NewName, Coming
<1>3. ASSUME ~NewName(a), Hears(a), bus.name # view[a].name PROVE Coming(a)'
  <2>1. HeardLast(a, bus.name) /\ heard[a][bus.name] = bus.new /\ bus.old = "none" /\ bus.app = a /\ bus.pc # "idle"
    BY <1>3 DEF News, Hears
  <2>2. bus.name = dev[a].name
    BY <1>1, <1>3, <2>1, LastName
  <2>3. bus.new # "claimable" \/ row[a] = "will_reset"
    BY <1>1, <2>1, <2>2 DEF CallsOf, ResetsOf, Stored
  <2>4. Fresh(bus, a)'
    BY <1>1, <2>1, <2>2, <2>3 DEF Fresh
  <2> QED BY <1>1, <2>1, <2>4 DEF Coming
<1>4. ASSUME ~NewName(a), ~Hears(a) \/ bus.name = view[a].name PROVE Coming(a)'
  <2>1. view[a].name = dev[a].name
    <3>1. CASE Hears(a)
      <4>1. HeardLast(a, bus.name) /\ bus.name \in Names
        BY <1>1, <3>1 DEF News, Hears
      <4> QED BY <1>4, <3>1, <4>1, LastName
    <3>2. CASE ~Hears(a)
      <4>1. heard[a][dev[a].name] # "none"
        BY <1>4 DEF NewName
      <4>2. view[a].name # 0 /\ HeardLast(a, view[a].name)
        BY <1>1, <3>2, <4>1 DEF News, NeverHeard
      <4>3. view[a].name \in Names
        BY <1>1, <4>2 DEF Views
      <4> QED BY <1>4, <4>2, <4>3, LastName
    <3> QED BY <3>1, <3>2
  <2>2. heard[a][view[a].name] # "none" /\ view[a] # Unknown
    BY <1>1, <1>4, <2>1, UnknownName, Names0 DEF NewName
  <2>3. PICK x : x = [app |-> a, name |-> view[a].name, old |-> "none", new |-> heard[a][view[a].name]]
    OBVIOUS
  <2>4. jobs' = Append(jobs, x)
    BY <2>2, <2>3 DEF OnPendingChanges
  <2>5. x \in Jobs
    BY <1>1, <2>1, <2>2, <2>3 DEF Jobs
  <2>6. Len(jobs') = Len(jobs) + 1 /\ jobs'[Len(jobs) + 1] = x /\ Len(jobs) \in Nat
    BY <1>1, <2>4, <2>5
  <2>7. x.app = a /\ x.name = dev[a].name /\ x.old = "none" /\ (x.new # "claimable" \/ row[a] = "will_reset")
    BY <1>1, <2>1, <2>3 DEF CallsOf, ResetsOf, Stored
  <2>8. Len(jobs) + 1 \in 1 .. Len(jobs')
    BY <2>6
  <2> QED BY <1>1, <2>6, <2>7, <2>8 DEF Coming, Fresh
<1> QED BY <1>2, <1>3, <1>4

LEMMA PendingFollowed ==
  ASSUME Typed, Typed', agent = "up", NEW a \in Apps, News(a), RowOf(a), CallsOf, NEW t \in Threads, OnPendingChanges(t)
  PROVE  Followed(a)' /\ Adding(a)'
<1>1. th \in [Threads -> Work] /\ jobs \in Seq(Jobs) /\ Followed(a) /\ Adding(a) /\ th[t].pc = "tell"
      /\ UNCHANGED <<row, dev, heard, bus, view>> /\ th[t].at = 1 /\ Len(storageListeners) = 2
  BY Second DEF Typed, ThreadsTyped, AgentTyped, RowOf, OnPendingChanges, Telling, monitor
<1>2. Only(t)
  BY NotificationMoves DEF Notifications
<1>3. th'[t] = [th[t] EXCEPT !.at = 2]
  BY <1>1 DEF OnPendingChanges, Returned
<1>4. th'[t].pc = "tell" /\ th'[t].at = 2 /\ th'[t].app = th[t].app /\ th'[t].event = th[t].event
  BY <1>1, <1>3 DEF Work
<1>5. Len(jobs) <= Len(jobs') /\ \A i \in 1 .. Len(jobs) : jobs'[i] = jobs[i]
  <2>1. CASE UNCHANGED jobs
    BY <1>1, <2>1
  <2>2. ASSUME NEW x, jobs' = Append(jobs, x) PROVE Len(jobs) <= Len(jobs') /\ \A i \in 1 .. Len(jobs) : jobs'[i] = jobs[i]
    <3>1. jobs' \in Seq(Jobs)
      BY DEF Typed, AgentTyped
    <3> QED BY <1>1, <2>2, <3>1
  <2> QED BY <2>1, <2>2 DEF OnPendingChanges
<1>6. Nearby(t, a) /\ ~Updates(t, a)
  BY <1>1, <1>2, <1>5 DEF Nearby, Updates
<1>7. th[t].event = "pending" /\ th[t].app = a => Followed(a)'
  BY <1>1, PendingIsAsked DEF Followed
<1>8. ASSUME ~(th[t].event = "pending" /\ th[t].app = a) PROVE Followed(a)'
  <2>1. ~Asks(t, a) /\ ~Disturbs(t, a)'
    BY <1>4, <1>8 DEF Asks, Disturbs
  <2>2. Coming(a) => Coming(a)'
    BY <1>6, <2>1, ComingStays
  <2>3. Completes(t, a) => Completes(t, a)'
    BY <1>4 DEF Completes
  <2>4. Applied(a) => Applied(a)'
    BY <1>1, <1>2, <2>1, <2>3, AppliedStays DEF Applied
  <2> QED BY <1>1, <2>2, <2>4 DEF Followed
<1>9. Adding(a)'
  <2>1. th[t].event = "added" /\ th[t].app = a => Adding(a)'
    BY <1>4 DEF Adding
  <2> QED BY <1>1, <1>2, <2>1, AddingStays
<1> QED BY <1>7, <1>8, <1>9

\* What a callback of the agent does to a managed application.
LEMMA TellsAgent ==
  ASSUME Typed, CallsOf, NEW a \in Apps, row[a] # "none", NEW t \in Threads, OnStorageEvent(t)
  PROVE  /\ th[t].app # a => view'[a] = view[a]
         /\ th[t].app = a =>
              \/ th[t].event = "pending" /\ th[t].sync \in {"pending", "will_reset"}
                 /\ (view[a].name # 0 => view'[a].sync = th[t].sync)
              \/ th[t].event \in {"completed", "added"} /\ (view[a].name # 0 => view'[a].sync = "ok")
         /\ view'[a].name = view[a].name
<1>1. th \in [Threads -> Work] /\ WorkOf(th[t]) /\ AloneOf(t) /\ th[t].pc = "tell"
  BY DEF Typed, ThreadsTyped, CallsOf, OnStorageEvent, Telling
<1>2. th[t].event \in {"pending", "completed", "added", "removed"}
  <2>1. th[t].event # "wiped"
    BY <1>1 DEF AloneOf
  <2> QED BY <1>1, <2>1 DEF WorkOf, Work
<1>3. th[t].app \in Apps /\ (th[t].event = "pending" => th[t].sync \in {"pending", "will_reset"})
  BY <1>1, <1>2 DEF WorkOf
<1>4. th[t].app = a => th[t].event # "removed"
  BY <1>1 DEF AloneOf
<1>5. \/ th[t].event = "pending" /\ SetSyncState(th[t].app, th[t].sync)
      \/ th[t].event \in {"completed", "added"} /\ SetSyncState(th[t].app, "ok")
      \/ th[t].event = "removed" /\ SetSyncState(th[t].app, "unmanaged")
  BY <1>2 DEF OnStorageEvent
<1>6. CASE th[t].event = "pending"
  <2>1. SetSyncState(th[t].app, th[t].sync) /\ th[t].sync \in SyncStates
    BY <1>3, <1>5, <1>6 DEF SyncStates
  <2> QED BY <1>3, <1>6, <2>1, SetsNoName DEF SameNames
<1>7. CASE th[t].event \in {"completed", "added"}
  <2>1. SetSyncState(th[t].app, "ok") /\ "ok" \in SyncStates
    BY <1>5, <1>7 DEF SyncStates
  <2> QED BY <1>3, <1>7, <2>1, SetsNoName DEF SameNames
<1>8. CASE th[t].event = "removed"
  <2>1. SetSyncState(th[t].app, "unmanaged") /\ "unmanaged" \in SyncStates
    BY <1>5, <1>8 DEF SyncStates
  <2> QED BY <1>3, <1>4, <1>8, <2>1, SetsNoName DEF SameNames
<1> QED BY <1>2, <1>6, <1>7, <1>8

LEMMA EventFollowed ==
  ASSUME Typed, Typed', agent = "up", NEW a \in Apps, RowOf(a), CallsOf, NEW t \in Threads, OnStorageEvent(t)
  PROVE  Followed(a)' /\ Adding(a)'
<1>1. /\ UNCHANGED <<row, dev, heard, bus, jobs>> /\ th[t].pc = "tell" /\ th[t].at = 2 /\ Len(jobs) \in Nat
      /\ th \in [Threads -> Work] /\ Followed(a) /\ Adding(a)
  BY Second DEF OnStorageEvent, Telling, monitor, Typed, AgentTyped, ThreadsTyped, RowOf
<1>2. Only(t) /\ th'[t] = NoWork
  <2>1. Only(t)
    BY NotificationMoves DEF Notifications
  <2>2. Len(storageListeners) = 2 /\ th[t].at = 2
    BY <1>1, Second
  <2>3. th' = [th EXCEPT ![t] = NoWork]
    <3>1. ~(th[t].at < Len(storageListeners))
      BY <2>2
    <3> QED BY <3>1 DEF OnStorageEvent, Returned
  <2>4. th'[t] = NoWork
    BY <1>1, <2>3
  <2> QED BY <2>1, <2>4
<1>3. Nearby(t, a) /\ ~Updates(t, a) /\ ~Asks(t, a)
  BY <1>1, <1>2 DEF Nearby, Updates, Asks
<1>4. ~Disturbs(t, a)'
  BY <1>2 DEF NoWork, Disturbs
<1>5. CASE row[a] = "none"
  BY <1>1, <1>5 DEF Followed, Adding
<1>6. CASE row[a] # "none"
  <2>1. /\ th[t].app # a => view'[a] = view[a]
        /\ th[t].app = a =>
              \/ th[t].event = "pending" /\ th[t].sync \in {"pending", "will_reset"}
                 /\ (view[a].name # 0 => view'[a].sync = th[t].sync)
              \/ th[t].event \in {"completed", "added"} /\ (view[a].name # 0 => view'[a].sync = "ok")
        /\ view'[a].name = view[a].name
    BY <1>6, TellsAgent
  <2>2. \A u \in Threads \ {t} : ~Disturbs(u, a)'
    <3>1. \A u \in Threads \ {t} : th[u].pc # "tell"
      BY <1>1 DEF Typed, Locked
    <3> QED BY <1>2, <3>1 DEF Only, Disturbs
  <2>3. Completes(t, a) /\ row[a] = "ok" => Applied(a)'
    BY <1>1, <1>4, <2>1, <2>2 DEF Completes, Applied, SaysOk
  <2>4. Coming(a) => Coming(a)'
    BY <1>3, ComingStays
  <2>5. ASSUME Applied(a), ~Completes(t, a) PROVE Applied(a)'
    <3>1. CASE SaysOk(a)
      <4>1. ~Disturbs(t, a)
        BY <3>1 DEF SaysOk
      <4>2. ~(th[t].app = a)
        BY <1>1, <2>1, <2>5, <4>1 DEF Disturbs, Completes
      <4> QED BY <1>1, <1>2, <1>4, <2>1, <2>5, <4>2, AppliedStays
    <3>2. ASSUME NEW u \in Threads \ {t}, Completes(u, a) PROVE Applied(a)'
      BY <1>1, <1>2, <2>5, <3>2 DEF Only, Completes, Applied
    <3> QED BY <2>5, <3>1, <3>2 DEF Applied
  <2>6. Followed(a)'
    BY <1>1, <1>6, <2>3, <2>4, <2>5 DEF Followed, Applied
  <2>7. Adding(a)'
    <3>1. view'[a].name # 0 /\ view'[a].sync = "unmanaged" => view[a] = view'[a] /\ th[t].app # a
      BY <2>1
    <3>2. th[t].event = "added" /\ th[t].app = a => Adding(a)'
      BY <3>1 DEF Adding
    <3> QED BY <1>1, <1>2, <3>1, <3>2, AddingStays
  <2> QED BY <2>6, <2>7
<1> QED BY <1>5, <1>6

LEMMA NotificationFollowed ==
  ASSUME Typed, Typed', agent = "up", NEW a \in Apps, News(a), RowOf(a), CallsOf, NEW t \in Threads, Notifications(t)
  PROVE  Followed(a)' /\ Adding(a)'
BY LockFollowed, PendingFollowed, EventFollowed DEF Notifications

LEMMA TakeJobFollowed ==
  ASSUME Typed, Typed', NEW a \in Apps, RowOf(a), TakeJob
  PROVE  Followed(a)' /\ Adding(a)'
<1>1. /\ UNCHANGED <<row, dev, heard, bus, view>> /\ jobs' = Tail(jobs) /\ jobs # <<>> /\ jobs \in Seq(Jobs)
      /\ th[Updater] = NoWork /\ Followed(a) /\ Adding(a) /\ Updater \in Threads
  BY Rows DEF TakeJob, storage, monitor, Typed, AgentTyped, ThreadsTyped, WorkOf, RowOf
<1>2. PICK j \in Jobs : j = Head(jobs)
  BY <1>1
<1>3. j.app \in Apps /\ j.name \in Names /\ j.new \in AppStates
  BY DEF Jobs
<1>4. UNCHANGED th \/ StartsUpdates(Updater, j.app, j.name, j.new)
  BY <1>2 DEF TakeJob
<1>5. Only(Updater) /\ (th'[Updater] = NoWork \/ (th'[Updater].pc = "work" /\ th'[Updater].event = "none"))
  <2>1. CASE UNCHANGED th
    BY <1>1, <2>1 DEF Only
  <2>2. CASE StartsUpdates(Updater, j.app, j.name, j.new)
    BY <1>1, <1>3, <2>2, Starts
  <2> QED BY <1>4, <2>1, <2>2
<1>6. ~Disturbs(Updater, a)'
  BY <1>5 DEF NoWork, Disturbs
<1>7. Applied(a) => Applied(a)'
  BY <1>1, <1>5, <1>6, NewCall, AppliedStays
<1>8. ASSUME Coming(a), row[a] # "none" PROVE Coming(a)'
  <2>1. CASE NewName(a)
    BY <1>1, <2>1 DEF Coming, NewName
  <2>2. CASE bus.pc # "idle" /\ Fresh(bus, a)
    BY <1>1, <2>2 DEF Coming, Fresh
  <2>3. ASSUME NEW u \in Threads, Updates(u, a) \/ Asks(u, a) PROVE Coming(a)'
    <3>1. u # Updater
      BY <1>1, <2>3, NewCall
    <3>2. th'[u] = th[u]
      BY <1>5, <3>1 DEF Only
    <3>3. Updates(u, a)' \/ Asks(u, a)'
      BY <1>1, <2>3, <3>2 DEF Updates, Asks
    <3> QED BY <3>3 DEF Coming
  <2>4. ASSUME NEW i \in 1 .. Len(jobs), Fresh(jobs[i], a) PROVE Coming(a)'
    <3>1. CASE i = 1
      <4>1. j = jobs[i]
        BY <1>1, <1>2, <3>1
      <4>2. j.app = a /\ j.name = dev[a].name /\ j.old = "none" /\ (j.new # "claimable" \/ row[a] = "will_reset")
        BY <2>4, <4>1 DEF Fresh
      <4>3. StartsUpdates(Updater, j.app, j.name, j.new)
        BY <1>2, <4>2 DEF TakeJob, Acts
      <4>4. th'[Updater].pc = "work" /\ th'[Updater].app = a /\ th'[Updater].name = dev[a].name /\ th'[Updater].state = j.new
            /\ th'[Updater].sync = row[a]
        BY <1>1, <1>3, <1>8, <4>2, <4>3, Starts
      <4>5. Updates(Updater, a)'
        BY <1>1, <4>2, <4>4 DEF Updates
      <4> QED BY <1>1, <4>5 DEF Coming
    <3>2. CASE i # 1
      <4>1. i - 1 \in 1 .. Len(jobs') /\ jobs'[i - 1] = jobs[i]
        BY <1>1, <3>2
      <4>2. Fresh(jobs'[i - 1], a)
        BY <2>4, <4>1
      <4> QED BY <1>1, <4>1, <4>2 DEF Coming, Fresh
    <3> QED BY <3>1, <3>2
  <2> QED BY <1>8, <2>1, <2>2, <2>3, <2>4 DEF Coming
<1>9. Followed(a)'
  BY <1>1, <1>7, <1>8 DEF Followed
<1>10. Adding(a)'
  BY <1>1, <1>5, NewCall, AddingStays
<1> QED BY <1>9, <1>10

LEMMA StartFollowed ==
  ASSUME Typed, Typed', NEW a \in Apps, RowOf(a), NEW t \in Threads, StartUpdates(t)
  PROVE  Followed(a)' /\ Adding(a)'
<1>1. /\ UNCHANGED <<row, dev, heard, bus, view, jobs>> /\ Len(jobs) \in Nat /\ th[t].pc = "start"
      /\ Followed(a) /\ Adding(a)
  BY DEF StartUpdates, storage, monitor, Typed, AgentTyped, RowOf
<1>2. th[t].app \in Apps /\ th[t].name \in Names /\ th[t].state \in AppStates /\ th[t].event = "none"
  BY <1>1 DEF Typed, ThreadsTyped, WorkOf, AppStates
<1>3. StartsUpdates(t, th[t].app, th[t].name, th[t].state)
  BY DEF StartUpdates
<1>4. Only(t) /\ (th'[t] = NoWork \/ (th'[t].pc = "work" /\ th'[t].event = "none"))
  BY <1>2, <1>3, Starts
<1>5. ~Updates(t, a) /\ ~Asks(t, a) /\ ~Completes(t, a)
  BY <1>1, <1>2 DEF Updates, Asks, Completes
<1>6. Nearby(t, a) /\ ~Disturbs(t, a)'
  BY <1>1, <1>4 DEF Nearby, Disturbs, NoWork
<1>7. Followed(a)'
  BY <1>1, <1>5, <1>6, FollowedStays
<1>8. Adding(a)'
  BY <1>1, <1>2, <1>4, AddingStays
<1> QED BY <1>7, <1>8

LEMMA WorkFollowed ==
  ASSUME Typed, Typed', NEW a \in Apps, RowOf(a), NEW t \in Threads, Updated(t) \/ ResetDone(t)
  PROVE  Followed(a)' /\ Adding(a)'
<1>1. /\ Only(t) /\ UNCHANGED <<row, heard, bus, jobs, view>> /\ Len(jobs) \in Nat
      /\ th[t].pc = "work" /\ th'[t].pc = "report" /\ Followed(a) /\ Adding(a)
      /\ th'[t].app = th[t].app /\ th'[t].name = th[t].name /\ th'[t].state = th[t].state
      /\ th'[t].event = th[t].event
      /\ Updated(t) => th[t].state # "claimable"
      /\ ResetDone(t) => th'[t].sync = "reset"
  BY WorkMoves DEF Typed, AgentTyped, RowOf
<1>2. th[t].event = "none"
  BY <1>1 DEF Typed, ThreadsTyped, WorkOf
<1>3. dev'[a].up = dev[a].up /\ dev'[a].name = dev[a].name
  <2>1. dev \in [Apps -> [up : BOOLEAN, name : Names, state : AppStates]]
    BY DEF Typed, MonitorTyped
  <2>2. UNCHANGED dev \/ \E st \in {"claimed", "claimable"} : dev' = [dev EXCEPT ![th[t].app].state = st]
    BY DEF Updated, ResetDone
  <2> QED BY <2>1, <2>2
<1>4. Updates(t, a) => Updates(t, a)'
  BY <1>1, <1>3 DEF Updates
<1>5. ~Asks(t, a) /\ ~Completes(t, a) /\ ~Disturbs(t, a)'
  BY <1>1, <1>2 DEF Asks, Completes, Disturbs
<1>6. Nearby(t, a)
  BY <1>1, <1>3 DEF Nearby
<1>7. Updates(t, a) => Followed(a)'
  BY <1>4 DEF Followed, Coming
<1>8. Followed(a)'
  BY <1>1, <1>5, <1>6, <1>7, FollowedStays
<1>9. Adding(a)'
  BY <1>1, <1>2, AddingStays
<1> QED BY <1>8, <1>9

LEMMA FailFollowed ==
  ASSUME Typed, Typed', NEW a \in Apps, RowOf(a), NEW t \in Threads, UpdateFails(t)
  PROVE  Followed(a)' /\ Adding(a)'
<1>1. /\ UNCHANGED <<row, dev, heard, bus, view, jobs>> /\ Len(jobs) \in Nat /\ th[t].pc = "work"
      /\ Followed(a) /\ Adding(a) /\ th \in [Threads -> Work] /\ WorkOf(th[t])
  BY DEF UpdateFails, storage, monitor, Typed, AgentTyped, ThreadsTyped, RowOf
<1>2. Only(t) /\ th'[t] = NoWork
  BY <1>1 DEF UpdateFails, Only
<1>3. th[t].event = "none" /\ th[t].sync \in {"ok", "pending", "will_reset"}
  BY <1>1 DEF WorkOf
<1>4. ~Asks(t, a) /\ ~Completes(t, a) /\ ~Disturbs(t, a)'
  BY <1>1, <1>2, <1>3 DEF Asks, Completes, Disturbs, NoWork
<1>5. Updates(t, a) => Followed(a)'
  <2>1. ASSUME Updates(t, a) PROVE ~dev[a].up
    <3>1. th[t].app = a /\ th[t].name = dev[a].name /\ (th[t].sync = "will_reset" \/ th[t].state # "claimable")
      BY <1>3, <2>1 DEF Updates
    <3>2. ~Reachable(t)
      BY <3>1 DEF UpdateFails
    <3> QED BY <3>1, <3>2 DEF Reachable
  <2> QED BY <1>1, <2>1 DEF Followed, Coming, NewName
<1>6. Nearby(t, a)
  BY <1>1, <1>2 DEF Nearby
<1>7. Followed(a)'
  BY <1>1, <1>4, <1>5, <1>6, FollowedStays
<1>8. Adding(a)'
  BY <1>1, <1>2, <1>3, AddingStays
<1> QED BY <1>7, <1>8

LEMMA ReportFollowed ==
  ASSUME Typed, Typed', NEW a \in Apps, RowOf(a), CallsOf, NEW t \in Threads, UpdatesCompleted(t)
  PROVE  Followed(a)' /\ Adding(a)'
<1>1. /\ Only(t) /\ UNCHANGED <<dev, heard, bus, jobs, view>> /\ Len(jobs) \in Nat
      /\ th[t].pc = "report" /\ th[t].app \in Apps /\ th[t].event = "none"
      /\ ReportsReset(t) \/ ReportsNothing(t) \/ ReportsAgain(t) \/ ReportsOk(t)
      /\ Followed(a) /\ Adding(a)
  BY Reports DEF Typed, AgentTyped, RowOf
<1>2. row \in [Apps -> Stored] /\ th \in [Threads -> Work] /\ WorkOf(th[t])
  BY DEF Typed, StorageTyped, ThreadsTyped
<1>3. ~Asks(t, a) /\ ~Completes(t, a)
  BY <1>1 DEF Asks, Completes
<1>4. ~Disturbs(t, a)'
  <2>1. CASE ReportsReset(t)
    <3>1. th'[t].event = "removed"
      BY <2>1, Notifies DEF ReportsReset
    <3> QED BY <3>1 DEF Disturbs
  <2>2. CASE ReportsNothing(t)
    <3>1. th'[t] = NoWork
      BY <1>2, <2>2 DEF ReportsNothing
    <3> QED BY <3>1 DEF Disturbs, NoWork
  <2>3. CASE ReportsAgain(t)
    BY <1>1, <2>3, WorksAgain DEF Disturbs
  <2>4. CASE ReportsOk(t)
    <3>1. th'[t].event = "completed"
      BY <2>4, Notifies DEF ReportsOk
    <3> QED BY <3>1 DEF Disturbs
  <2> QED BY <1>1, <2>1, <2>2, <2>3, <2>4
<1>6. Adding(a)'
  <2>1. row'[a] = row[a] \/ row'[a] = "none" \/ row[a] # "none"
    BY <1>1, <1>2 DEF ReportsReset, ReportsNothing, ReportsAgain, ReportsOk
  <2> QED BY <1>1, <2>1, AddingStays
<1>7. CASE th[t].app # a
  <2>1. row'[a] = row[a] /\ ~Updates(t, a)
    BY <1>1, <1>2, <1>7 DEF ReportsReset, ReportsNothing, ReportsAgain, ReportsOk, Updates
  <2>2. Nearby(t, a)
    BY <1>1, <2>1 DEF Nearby
  <2> QED BY <1>1, <1>3, <1>4, <1>6, <2>1, <2>2, FollowedStays
<1>8. CASE th[t].app = a /\ (ReportsReset(t) \/ ReportsNothing(t))
  <2>1. row'[a] = "none"
    BY <1>1, <1>2, <1>8 DEF ReportsReset, ReportsNothing
  <2> QED BY <1>6, <2>1 DEF Followed
<1>9. CASE th[t].app = a /\ ReportsAgain(t)
  <2>1. UNCHANGED row /\ th[t].state # "claimable"
    BY <1>1, <1>2, <1>9 DEF ReportsAgain, WorkOf
  <2>2. th'[t].pc = "work" /\ th'[t].app = a /\ th'[t].name = th[t].name /\ th'[t].state = th[t].state
    BY <1>9, WorksAgain
  <2>3. Updates(t, a) => Followed(a)'
    BY <1>1, <2>1, <2>2 DEF Updates, Followed, Coming
  <2>4. Nearby(t, a)
    BY <1>1, <2>1 DEF Nearby
  <2> QED BY <1>1, <1>3, <1>4, <1>6, <2>1, <2>3, <2>4, FollowedStays
<1>10. CASE th[t].app = a /\ ReportsOk(t)
  <2>1. row'[a] = "ok" /\ th'[t].event = "completed" /\ th'[t].app = a
    BY <1>1, <1>2, <1>10, Notifies DEF ReportsOk
  <2> QED BY <1>6, <2>1 DEF Followed, Applied, Completes
<1> QED BY <1>1, <1>7, <1>8, <1>9, <1>10

LEMMA UpdateFollowed ==
  ASSUME Typed, Typed', NEW a \in Apps, RowOf(a), CallsOf, NEW t \in Threads, UpdateApplication(t)
  PROVE  Followed(a)' /\ Adding(a)'
BY StartFollowed, WorkFollowed, FailFollowed, ReportFollowed DEF UpdateApplication

------------------------------------------------------------------------------
(* The time before Init is done *)

LEMMA QuietlyFollowed ==
  ASSUME Typed, StartsQuietly, agent \in Range(Starting), NEW a \in Apps
  PROVE  Followed(a) /\ Adding(a)
<1>1. row[a] \in {"none", "ok"} /\ (view[a].name # 0 /\ row[a] = "ok" => view[a].sync = "ok")
  BY DEF StartsQuietly, Quiet
<1>2. \A t \in Threads : th[t].event # "pending"
  <2>1. \A u \in Users : th[u].event = "none"
    BY Rows DEF StartsQuietly, Typed, ThreadsTyped, WorkOf, NoWork
  <2>2. th[Updater].event # "pending"
    BY DEF StartsQuietly
  <2> QED BY <2>1, <2>2 DEF Threads
<1> QED BY <1>1, <1>2 DEF Followed, Adding, Applied, SaysOk, Disturbs

\* The same of the state after a step.
LEMMA QuietlyFollowedNext ==
  ASSUME NEW a \in Apps
  PROVE  (Typed /\ StartsQuietly /\ agent \in Range(Starting) => Followed(a) /\ Adding(a))'
<1>1. Typed /\ StartsQuietly /\ agent \in Range(Starting) => Followed(a) /\ Adding(a)
  BY QuietlyFollowed
<1> QED BY <1>1, PTL

\* Steps outside the threads.
LEMMA QuietOutside ==
  ASSUME StartsQuietly, agent \in Range(Starting), UNCHANGED <<row, th>>,
         \A a \in Apps : dev'[a].up = dev[a].up /\ dev'[a].name = dev[a].name,
         \A a \in Apps : row[a] = "ok" =>
           /\ view'[a].name # 0 => view'[a].sync = "ok"
           /\ bus'.pc = "insert" /\ bus'.app = a => bus'.entry.sync = "ok"
  PROVE  StartsQuietly'
BY DEF StartsQuietly, Quiet

LEMMA QuietState ==
  ASSUME Typed, StartsQuietly, agent \in Range(Starting), NEW b \in Apps, State(b)
  PROVE  StartsQuietly'
<1>1. UNCHANGED <<row, th, dev, view>>
  BY DEF State, storage
<1>2. bus'.pc # "insert"
  <2>1. CASE bus' = NoSignal
    BY <2>1 DEF NoSignal
  <2>2. CASE bus' # NoSignal
    BY <2>2 DEF State, NoSignal
  <2> QED BY <2>1, <2>2
<1>3. \A a \in Apps : view[a].name # 0 /\ row[a] = "ok" => view[a].sync = "ok"
  BY DEF StartsQuietly, Quiet
<1> QED BY <1>1, <1>2, <1>3, QuietOutside

LEMMA QuietBus ==
  ASSUME Typed, StartsQuietly, agent \in Range(Starting), Bus
  PROVE  StartsQuietly'
<1>1. /\ UNCHANGED <<row, th, dev>> /\ bus.app \in Apps /\ view \in [Apps -> Views]
      /\ bus \in [pc : {"idle", "tell", "insert"}, at : Nat,
                  app : Apps \cup {Nobody}, name : {0} \cup Names,
                  old : AppStates \cup {"none"}, new : AppStates, entry : Views]
  BY DEF Bus, UpdateKnown, LookUp, Insert, AddJob, storage, Calling, Typed, MonitorTyped, BusOf, AgentTyped
<1>2. \A a \in Apps : row[a] = "ok" =>
         /\ view[a].name # 0 => view[a].sync = "ok"
         /\ bus.pc = "insert" /\ bus.app = a => bus.entry.sync = "ok"
  BY DEF StartsQuietly, Quiet
<1>3. Called => bus'.pc # "insert"
  BY <1>1 DEF Called, NoSignal
<1>4. CASE UpdateKnown
  <2>1. ASSUME NEW a \in Apps PROVE view'[a].sync = view[a].sync /\ (view[a].name = 0 => view'[a].name = 0)
    <3>1. CASE a # bus.app
      BY <1>1, <1>4, <3>1 DEF UpdateKnown
    <3>2. CASE a = bus.app
      <4>1. view[a] \in [name : Names, state : AppStates, sync : SyncStates] /\ view[a].name # 0
        BY <1>1, <1>4, <3>2, UnknownName DEF UpdateKnown, Views
      <4>2. view' = [view EXCEPT ![a] = [view[a] EXCEPT !.name = bus.name, !.state = bus.new]]
        BY <1>4, <3>2 DEF UpdateKnown
      <4>3. view'[a] = [view[a] EXCEPT !.name = bus.name, !.state = bus.new]
        BY <1>1, <4>2
      <4> QED BY <4>1, <4>3
    <3> QED BY <3>1, <3>2
  <2> QED BY <1>1, <1>2, <1>3, <1>4, <2>1, QuietOutside DEF UpdateKnown
<1>5. CASE LookUp
  <2>1. UNCHANGED view /\ bus'.app = bus.app /\ bus'.entry.sync = (IF row[bus.app] = "none" THEN "unmanaged" ELSE row[bus.app])
    <3>1. PICK v : v = [name |-> bus.name, state |-> bus.new,
                        sync |-> IF row[bus.app] = "none" THEN "unmanaged" ELSE row[bus.app]]
      OBVIOUS
    <3>2. bus' = [bus EXCEPT !.pc = "insert", !.entry = v]
      BY <1>5, <3>1 DEF LookUp
    <3>3. bus'.app = bus.app /\ bus'.entry = v
      BY <1>1, <3>2
    <3> QED BY <1>5, <3>1, <3>3 DEF LookUp
  <2> QED BY <1>1, <1>2, <2>1, QuietOutside
<1>6. CASE Insert
  <2>1. Called /\ bus.pc = "insert" /\ view' = [view EXCEPT ![bus.app] = bus.entry]
    BY <1>6 DEF Insert
  <2>2. \A a \in Apps : view'[a] = IF a = bus.app THEN bus.entry ELSE view[a]
    BY <1>1, <2>1
  <2> QED BY <1>1, <1>2, <1>3, <2>1, <2>2, QuietOutside
<1>7. CASE AddJob
  BY <1>1, <1>2, <1>3, <1>7, QuietOutside DEF AddJob
<1> QED BY <1>4, <1>5, <1>6, <1>7 DEF Bus

LEMMA QuietLife ==
  ASSUME Typed, StartsQuietly, agent \in Range(Starting), InitAgent
  PROVE  StartsQuietly'
<1>1. UNCHANGED <<row, th, dev, bus>>
  BY DEF InitAgent, RegisterAgentWithMonitor, RegisterUpdaterWithMonitor, RegisterWithStorage, storage, monitor
<1>2. \A a \in Apps : row[a] = "ok" =>
         /\ view[a].name # 0 => view[a].sync = "ok"
         /\ bus.pc = "insert" /\ bus.app = a => bus.entry.sync = "ok"
  BY DEF StartsQuietly, Quiet
<1>3. CASE UNCHANGED view
  BY <1>1, <1>2, <1>3, QuietOutside
<1>4. CASE RegisterAgentWithMonitor
  <2>1. \A a \in Apps : view'[a] = IF heard[a][1] = "none" THEN Unknown
                                   ELSE [name |-> 1, state |-> heard[a][1],
                                         sync |-> IF row[a] = "none" THEN "unmanaged" ELSE row[a]]
    BY <1>4 DEF RegisterAgentWithMonitor
  <2>2. ASSUME NEW a \in Apps, row[a] = "ok", view'[a].name # 0 PROVE view'[a].sync = "ok"
    <3>1. heard[a][1] # "none"
      BY <2>1, <2>2, UnknownView
    <3>2. view'[a] = [name |-> 1, state |-> heard[a][1], sync |-> row[a]]
      BY <2>1, <2>2, <3>1
    <3> QED BY <2>2, <3>2
  <2> QED BY <1>1, <1>2, <2>2, QuietOutside
<1> QED BY <1>3, <1>4 DEF InitAgent, RegisterUpdaterWithMonitor, RegisterWithStorage, monitor

\* Steps of the updater: nobody else does anything.
LEMMA QuietUpdater ==
  ASSUME StartsQuietly, agent \in Range(Starting), Updater \notin Users, Only(Updater), Users \subseteq Threads,
         th'[Updater].sync \notin {"will_reset", "reset"}, th'[Updater].event \in {"none", "completed"},
         \A a \in Apps : row'[a] = row[a] /\ dev'[a].up = dev[a].up /\ dev'[a].name = dev[a].name,
         bus' = bus, view' = view
  PROVE  StartsQuietly'
<1>1. \A u \in Users : th'[u] = th[u]
  BY DEF Only
<1> QED BY <1>1 DEF StartsQuietly, Quiet

LEMMA QuietIdle == NoWork.sync \notin {"will_reset", "reset"} /\ NoWork.event \in {"none", "completed"}
BY DEF NoWork

LEMMA QuietStarts ==
  ASSUME Typed, StartsQuietly, agent \in Range(Starting), NEW a \in Apps, NEW n \in Names, NEW s \in AppStates,
         StartsUpdates(Updater, a, n, s), UNCHANGED <<row, dev, bus, view>>
  PROVE  StartsQuietly'
<1>1. Updater \in Threads /\ Updater \notin Users /\ Users \subseteq Threads
  BY Rows, AgentViewAssumption
<1>2. row[a] \in {"none", "ok"}
  BY DEF StartsQuietly, Quiet
<1>3. /\ Only(Updater)
      /\ row[a] = "none" => th'[Updater] = NoWork
      /\ row[a] # "none" => th'[Updater].sync = row[a] /\ th'[Updater].event = "none"
  BY <1>1, Starts
<1>4. th'[Updater].sync \notin {"will_reset", "reset"} /\ th'[Updater].event \in {"none", "completed"}
  BY <1>2, <1>3, QuietIdle
<1> QED BY <1>1, <1>3, <1>4, QuietUpdater

LEMMA QuietUpdate ==
  ASSUME Typed, StartsQuietly, agent \in Range(Starting), UpdateApplication(Updater)
  PROVE  StartsQuietly'
<1>1. Updater \in Threads /\ Updater \notin Users /\ Users \subseteq Threads
  BY Rows, AgentViewAssumption
<1>2. th \in [Threads -> Work] /\ WorkOf(th[Updater]) /\ row \in [Apps -> Stored]
  BY <1>1 DEF Typed, ThreadsTyped, StorageTyped
<1>3. /\ \A a \in Apps : row[a] \in {"none", "ok"}
      /\ th[Updater].sync \notin {"will_reset", "reset"} /\ th[Updater].event \in {"none", "completed"}
  BY DEF StartsQuietly, Quiet
<1>4. CASE StartUpdates(Updater)
  <2>1. /\ UNCHANGED <<row, dev, bus, view>>
        /\ th[Updater].app \in Apps /\ th[Updater].name \in Names /\ th[Updater].state \in AppStates
    BY <1>2, <1>4 DEF StartUpdates, WorkOf, storage, monitor, AppStates
  <2>2. StartsUpdates(Updater, th[Updater].app, th[Updater].name, th[Updater].state)
    BY <1>4 DEF StartUpdates
  <2> QED BY <2>1, <2>2, QuietStarts
<1>5. CASE Updated(Updater)
  <2>1. dev \in [Apps -> [up : BOOLEAN, name : Names, state : AppStates]]
    BY DEF Typed, MonitorTyped
  <2>2. \A a \in Apps : dev'[a].up = dev[a].up /\ dev'[a].name = dev[a].name
    <3>1. UNCHANGED dev \/ dev' = [dev EXCEPT ![th[Updater].app].state = "claimed"]
      BY <1>5 DEF Updated
    <3> QED BY <2>1, <3>1
  <2>3. Only(Updater) /\ UNCHANGED <<row, bus, view>> /\ th'[Updater].sync = "ok" /\ th'[Updater].event = th[Updater].event
    BY <1>1, <1>5, WorkMoves
  <2> QED BY <1>1, <1>3, <2>2, <2>3, QuietUpdater
<1>6. CASE ResetDone(Updater)
  BY <1>3, <1>6 DEF ResetDone
<1>7. CASE UpdateFails(Updater)
  <2>1. Only(Updater) /\ th'[Updater] = NoWork /\ UNCHANGED <<row, dev, bus, view>>
    BY <1>1, <1>2, <1>7 DEF UpdateFails, Only, storage, monitor
  <2> QED BY <1>1, <2>1, QuietIdle, QuietUpdater
<1>8. CASE UpdatesCompleted(Updater)
  <2>1. /\ Only(Updater) /\ UNCHANGED <<dev, bus, view>> /\ th[Updater].app \in Apps /\ th[Updater].event = "none"
        /\ ReportsReset(Updater) \/ ReportsNothing(Updater) \/ ReportsAgain(Updater) \/ ReportsOk(Updater)
    BY <1>1, <1>8, Reports
  <2>2. \A a \in Apps : row'[a] = row[a]
    BY <1>2, <1>3, <2>1 DEF ReportsReset, ReportsNothing, ReportsAgain, ReportsOk
  <2>3. th'[Updater].sync \notin {"will_reset", "reset"} /\ th'[Updater].event \in {"none", "completed"}
    <3>1. CASE ReportsReset(Updater)
      BY <1>3, <3>1 DEF ReportsReset
    <3>2. CASE ReportsNothing(Updater)
      <4>1. th'[Updater] = NoWork
        BY <1>1, <1>2, <3>2 DEF ReportsNothing
      <4> QED BY <4>1, QuietIdle
    <3>3. CASE ReportsAgain(Updater)
      BY <1>1, <1>3, <2>1, <3>3, WorksAgain
    <3>4. CASE ReportsOk(Updater)
      <4>1. th'[Updater].event = "completed" /\ th'[Updater].sync = "ok"
        BY <1>1, <3>4, Notifies DEF ReportsOk
      <4> QED BY <4>1
    <3> QED BY <2>1, <3>1, <3>2, <3>3, <3>4
  <2> QED BY <1>1, <2>1, <2>2, <2>3, QuietUpdater
<1> QED BY <1>4, <1>5, <1>6, <1>7, <1>8 DEF UpdateApplication

LEMMA QuietNotifications ==
  ASSUME Typed, Typed', StartsQuietly, agent \in Range(Starting), Notifications(Updater)
  PROVE  StartsQuietly'
<1>1. Updater \in Threads /\ Updater \notin Users /\ Users \subseteq Threads
  BY Rows, AgentViewAssumption
<1>2. th[Updater].sync \notin {"will_reset", "reset"} /\ th[Updater].event \in {"none", "completed"}
  BY DEF StartsQuietly
<1>3. /\ Only(Updater) /\ UNCHANGED <<row, dev, bus>>
      /\ th'[Updater] = NoWork \/ (th'[Updater].event = th[Updater].event /\ th'[Updater].sync = th[Updater].sync)
  BY <1>1, NotificationMoves
<1>4. UNCHANGED view
  <2>1. ~Telling(Updater, "agent")
    <3>1. storageListeners = <<>> \/ storageListeners = <<"updater">>
      BY BegunPhases DEF Typed, ListenersOf
    <3>2. th[Updater].pc = "tell" => th[Updater].at \in 1 .. Len(storageListeners)
      BY <1>1 DEF Typed, Locked
    <3> QED BY <3>1, <3>2 DEF Telling
  <2> QED BY <2>1 DEF Notifications, LockListeners, OnPendingChanges, OnStorageEvent
<1>5. th'[Updater].sync \notin {"will_reset", "reset"} /\ th'[Updater].event \in {"none", "completed"}
  BY <1>2, <1>3, QuietIdle
<1> QED BY <1>1, <1>3, <1>4, <1>5, QuietUpdater

LEMMA QuietJob ==
  ASSUME Typed, StartsQuietly, agent \in Range(Starting), TakeJob
  PROVE  StartsQuietly'
<1>1. UNCHANGED <<row, dev, bus, view>> /\ Head(jobs) \in Jobs
  BY DEF TakeJob, storage, monitor, Typed, AgentTyped
<1>2. CASE UNCHANGED th
  <2>1. \A a \in Apps : row[a] = "ok" =>
           /\ view[a].name # 0 => view[a].sync = "ok"
           /\ bus.pc = "insert" /\ bus.app = a => bus.entry.sync = "ok"
    BY DEF StartsQuietly, Quiet
  <2> QED BY <1>1, <1>2, <2>1, QuietOutside
<1>3. PICK j \in Jobs : j = Head(jobs)
  BY <1>1
<1>4. CASE StartsUpdates(Updater, j.app, j.name, j.new)
  <2>1. j.app \in Apps /\ j.name \in Names /\ j.new \in AppStates
    BY DEF Jobs
  <2> QED BY <1>1, <1>4, <2>1, QuietStarts
<1> QED BY <1>2, <1>3, <1>4 DEF TakeJob

LEMMA QuietNext ==
  ASSUME Careful, Typed, Typed', StartsQuietly, agent \in Range(Starting), Next
  PROVE  StartsQuietly'
<1>1. agent # "up" /\ ~EarlyUse
  BY BegunPhases DEF Careful
<1>2. \A u \in Users : th[u].pc = "idle"
  BY DEF StartsQuietly
<1>3. ASSUME NEW b \in Apps, AppStops(b) \/ AppStarts(b) \/ AppNeedsUpdate(b) PROVE FALSE
  <2>1. dev[b].up
    BY DEF StartsQuietly, Quiet
  <2> QED BY <1>1, <1>3, <2>1 DEF AppStops, AppStarts, AppNeedsUpdate, Happens
<1>4. ASSUME NEW t \in Users, User(t) PROVE FALSE
  <2>1. \A kind : ~Begins(t, kind)
    BY <1>1 DEF Begins
  <2>2. ~ApplicationClaimed(t)
    BY <1>2 DEF ApplicationClaimed
  <2> QED BY <1>4, <2>1, <2>2 DEF User, ApplicationUpdated, ResetApplication, RemoveApplication, Wipe, Claim,
                                  UpdateApplications
<1>5. ASSUME NEW t \in Threads, Notifications(t) \/ UpdateApplication(t) PROVE StartsQuietly'
  <2>1. th[t].pc # "idle"
    BY <1>5 DEF Notifications, LockListeners, OnPendingChanges, OnStorageEvent, Telling, UpdateApplication,
                StartUpdates, Updated, ResetDone, UpdateFails, UpdatesCompleted
  <2>2. t = Updater
    BY <1>2, <2>1 DEF Threads
  <2> QED BY <1>5, <2>2, QuietNotifications, QuietUpdate
<1>6. ~Destroy /\ ~EndAgent
  BY BegunPhases DEF Destroy, EndAgent, UnregisterFromMonitor, UnregisterUpdater, StopQueue, Phase
<1>7. Bus => StartsQuietly'
  BY QuietBus
<1>8. InitAgent => StartsQuietly'
  BY QuietLife
<1>9. \A b \in Apps : State(b) => StartsQuietly'
  BY QuietState
<1>10. TakeJob => StartsQuietly'
  BY QuietJob
<1> QED BY <1>3, <1>4, <1>5, <1>6, <1>7, <1>8, <1>9, <1>10 DEF Next

------------------------------------------------------------------------------
(* All together *)

LEMMA UserNews ==
  ASSUME Typed, CallsOf, NEW a \in Apps, News(a), NEW t \in Users, User(t)
  PROVE  News(a)'
<1>1. t \in Threads /\ row \in [Apps -> Stored]
  BY Rows DEF Typed, StorageTyped
<1>2. CASE \E b \in Apps : ApplicationUpdated(t, b) \/ ResetApplication(t, b) \/ RemoveApplication(t, b)
  <2>1. UNCHANGED <<dev, signals, heard, bus, view, agent>> /\ (row[a] = "none" => row'[a] = "none")
    BY <1>1, <1>2 DEF ApplicationUpdated, ResetApplication, RemoveApplication, monitor
  <2> QED BY <2>1, NewsStays
<1>3. CASE Wipe(t)
  <2>1. UNCHANGED <<dev, signals, heard, bus, view, agent>> /\ row'[a] = "none"
    BY <1>3 DEF Wipe, monitor
  <2> QED BY <2>1, NewsStays
<1>4. CASE \E b \in Apps : Claim(t, b)
  BY <1>4, ClaimNews
<1>5. ASSUME NEW b \in Apps, UpdateApplications(t, b) PROVE News(a)'
  <2>1. UNCHANGED <<row, dev, signals, heard, bus, agent>> /\ SetSyncState(b, "ok") /\ "ok" \in SyncStates
    BY <1>5 DEF UpdateApplications, storage, monitor, SyncStates
  <2>2. view'[a].name = view[a].name /\ view'[a].state = view[a].state
    BY <2>1, SetsNoName DEF SameNames
  <2> QED BY <2>1, <2>2, NewsStays
<1>6. CASE ApplicationClaimed(t)
  <2>1. /\ UNCHANGED <<dev, signals, heard, bus, view, agent>> /\ row' = [row EXCEPT ![th[t].app] = "ok"]
        /\ view[th[t].app].name # 0
    BY <1>1, <1>6 DEF ApplicationClaimed, monitor, CallsOf, AloneOf
  <2>2. row[a] = "none" /\ view[a].name = 0 => row'[a] = "none"
    BY <1>1, <2>1
  <2> QED BY <2>1, <2>2, NewsStays
<1> QED BY <1>2, <1>3, <1>4, <1>5, <1>6 DEF User

LEMMA ThreadNews ==
  ASSUME Typed, Typed', NEW a \in Apps, News(a), NEW t \in Threads, Notifications(t) \/ UpdateApplication(t)
  PROVE  News(a)'
<1>1. CASE Notifications(t)
  <2>1. UNCHANGED <<row, dev, signals, heard, bus, agent>> /\ SameNames
    BY <1>1, NotificationMoves
  <2> QED BY <2>1, NewsStays DEF SameNames
<1>2. CASE StartUpdates(t) \/ UpdateFails(t)
  <2>1. UNCHANGED <<row, dev, signals, heard, bus, view, agent>>
    BY <1>2 DEF StartUpdates, UpdateFails, storage, monitor
  <2> QED BY <2>1, NewsStays
<1>3. CASE Updated(t) \/ ResetDone(t)
  BY <1>3, WorkNews
<1>4. CASE UpdatesCompleted(t)
  <2>1. /\ UNCHANGED <<dev, signals, heard, bus, view, agent>>
        /\ ReportsReset(t) \/ ReportsNothing(t) \/ ReportsAgain(t) \/ ReportsOk(t)
    BY <1>4, Reports
  <2>2. row[a] = "none" => row'[a] = "none"
    BY <2>1 DEF ReportsReset, ReportsNothing, ReportsAgain, ReportsOk, Typed, StorageTyped
  <2> QED BY <2>1, <2>2, NewsStays
<1> QED BY <1>1, <1>2, <1>3, <1>4 DEF UpdateApplication

LEMMA TakeJobNews ==
  ASSUME NEW a \in Apps, News(a), TakeJob
  PROVE  News(a)'
<1>1. UNCHANGED <<row, dev, signals, heard, bus, view, agent>>
  BY DEF TakeJob, storage, monitor
<1> QED BY <1>1, NewsStays

\* What happens to the names and states that an agent knows.
LEMMA NextNews ==
  ASSUME Typed, Typed', Core, agent \in Begun, agent' \in Begun, Next, NEW a \in Apps
  PROVE  News(a)'
<1>1. News(a) /\ CallsOf /\ (agent \in Range(Starting) => Quiet(a))
  BY DEF Core, AppsOf, StartsQuietly
<1>2. ~Destroy /\ ~EndAgent
  BY BegunPhases DEF Destroy, EndAgent, UnregisterFromMonitor, UnregisterUpdater, StopQueue, Phase
<1>3. \A b \in Apps : AppStops(b) \/ AppStarts(b) \/ AppNeedsUpdate(b) => News(a)'
  BY <1>1, AppNews
<1>4. \A b \in Apps : State(b) => News(a)'
  BY <1>1, StateNews
<1>5. Bus => News(a)'
  BY <1>1, BusNews
<1>6. \A t \in Users : User(t) => News(a)'
  BY <1>1, UserNews
<1>7. \A t \in Threads : Notifications(t) \/ UpdateApplication(t) => News(a)'
  BY <1>1, ThreadNews
<1>8. TakeJob => News(a)'
  BY <1>1, TakeJobNews
<1>9. InitAgent => News(a)'
  BY <1>1, LifeNews
<1> QED BY <1>2, <1>3, <1>4, <1>5, <1>6, <1>7, <1>8, <1>9 DEF Next

LEMMA NextCalls ==
  ASSUME Careful, Typed, Typed', Core, agent \in Begun, agent' \in Begun, Next
  PROVE  CallsOf'
<1>1. CallsOf /\ \A a \in Apps : News(a) /\ RowOf(a)
  BY DEF Core, AppsOf
<1>2. ~Destroy /\ ~EndAgent
  BY BegunPhases DEF Destroy, EndAgent, UnregisterFromMonitor, UnregisterUpdater, StopQueue, Phase
<1>3. \A b \in Apps : AppStops(b) \/ AppStarts(b) \/ AppNeedsUpdate(b) => CallsOf'
  BY <1>1, AppCalls
<1>4. \A b \in Apps : State(b) => CallsOf'
  BY <1>1, StateCalls
<1>5. Bus => CallsOf'
  BY <1>1, BusCalls
<1>6. \A t \in Users : User(t) => CallsOf'
  BY <1>1, UserCalls
<1>7. \A t \in Threads : Notifications(t) \/ UpdateApplication(t) => CallsOf'
  BY <1>1, NotificationCalls, UpdateCalls
<1>8. TakeJob => CallsOf'
  BY <1>1, TakeJobCalls
<1>9. InitAgent => CallsOf'
  BY <1>1, LifeCalls
<1> QED BY <1>2, <1>3, <1>4, <1>5, <1>6, <1>7, <1>8, <1>9 DEF Next

LEMMA NextClaimed ==
  ASSUME Careful, Typed, Typed', Core, agent \in Begun, agent' \in Begun, Next, NEW a \in Apps
  PROVE  StillClaimed(a)'
<1>1. StillClaimed(a) /\ CallsOf
  BY DEF Core, AppsOf, RowOf
<1>2. ~Destroy /\ ~EndAgent
  BY BegunPhases DEF Destroy, EndAgent, UnregisterFromMonitor, UnregisterUpdater, StopQueue, Phase
<1>3. ASSUME NEW b \in Apps, AppStops(b) \/ AppStarts(b) \/ AppNeedsUpdate(b) PROVE StillClaimed(a)'
  <2>1. UNCHANGED row /\ (dev'[a].state = dev[a].state \/ dev'[a].state = "need_update")
    BY <1>3 DEF AppStops, AppStarts, AppNeedsUpdate, storage, Typed, MonitorTyped
  <2> QED BY <1>1, <2>1 DEF StillClaimed
<1>4. ASSUME UNCHANGED <<row, dev>> PROVE StillClaimed(a)'
  BY <1>1, <1>4 DEF StillClaimed
<1>5. \A b \in Apps : State(b) => UNCHANGED <<row, dev>>
  BY DEF State, storage
<1>6. Bus => UNCHANGED <<row, dev>>
  BY DEF Bus, UpdateKnown, LookUp, Insert, AddJob, storage
<1>7. \A t \in Users : User(t) => StillClaimed(a)'
  BY <1>1, UserClaimed
<1>8. \A t \in Threads : UpdateApplication(t) => StillClaimed(a)'
  BY <1>1, UpdateClaimed
<1>9. \A t \in Threads : Notifications(t) => UNCHANGED <<row, dev>>
  BY NotificationMoves
<1>10. TakeJob => UNCHANGED <<row, dev>>
  BY DEF TakeJob, storage
<1>11. InitAgent => UNCHANGED <<row, dev>>
  BY DEF InitAgent, RegisterAgentWithMonitor, RegisterUpdaterWithMonitor, RegisterWithStorage, storage
<1> QED BY <1>2, <1>3, <1>4, <1>5, <1>6, <1>7, <1>8, <1>9, <1>10, <1>11 DEF Next

\* While the agent is up.
LEMMA UpFollowed ==
  ASSUME Careful, Typed, Typed', Core, agent = "up", agent' = "up", Next, NEW a \in Apps
  PROVE  Followed(a)' /\ Adding(a)'
<1>1. CallsOf /\ News(a) /\ RowOf(a) /\ Followed(a) /\ Adding(a)
  BY DEF Core, AppsOf, RowOf
<1>2. ~Destroy /\ ~EndAgent /\ ~InitAgent
  BY DEF Destroy, EndAgent, UnregisterFromMonitor, UnregisterUpdater, StopQueue, Phase, InitAgent,
         RegisterAgentWithMonitor, RegisterUpdaterWithMonitor, RegisterWithStorage
<1>3. \A b \in Apps : AppStops(b) \/ AppStarts(b) \/ AppNeedsUpdate(b) => Followed(a)' /\ Adding(a)'
  BY <1>1, AppFollowed
<1>4. \A b \in Apps : State(b) => Followed(a)' /\ Adding(a)'
  BY <1>1, StateFollowed
<1>5. Bus => Followed(a)' /\ Adding(a)'
  BY <1>1, BusFollowed
<1>6. \A t \in Users : User(t) => Followed(a)' /\ Adding(a)'
  BY <1>1, UserFollowed
<1>7. \A t \in Threads : Notifications(t) \/ UpdateApplication(t) => Followed(a)' /\ Adding(a)'
  BY <1>1, NotificationFollowed, UpdateFollowed
<1>8. TakeJob => Followed(a)' /\ Adding(a)'
  BY <1>1, TakeJobFollowed
<1> QED BY <1>2, <1>3, <1>4, <1>5, <1>6, <1>7, <1>8 DEF Next

\* Only the life of the agent itself changes its phase.
LEMMA PhaseStays ==
  ASSUME Next
  PROVE  agent' = agent \/ InitAgent \/ Destroy \/ EndAgent
<1>1. \A b \in Apps : AppStops(b) \/ AppStarts(b) \/ AppNeedsUpdate(b) \/ State(b) => agent' = agent
  BY DEF AppStops, AppStarts, AppNeedsUpdate, State
<1>2. \A t \in Users : User(t) => agent' = agent
  BY DEF User, ApplicationUpdated, ResetApplication, RemoveApplication, Claim, UpdateApplications, Wipe,
         ApplicationClaimed
<1>3. \A t \in Threads : Notifications(t) => agent' = agent
  BY DEF Notifications, LockListeners, OnPendingChanges, OnStorageEvent
<1>4. \A t \in Threads : UpdateApplication(t) => agent' = agent
  BY DEF UpdateApplication, StartUpdates, Updated, ResetDone, UpdateFails, UpdatesCompleted
<1>5. Bus \/ TakeJob => agent' = agent
  BY DEF Bus, UpdateKnown, LookUp, Insert, AddJob, TakeJob
<1> QED BY <1>1, <1>2, <1>3, <1>4, <1>5 DEF Next

\* The agent is up from its last registration on.
LEMMA GoesUp ==
  ASSUME Typed, Core, agent \in Begun, agent # "up", agent' = "up", Next
  PROVE  RegisterWithStorage /\ agent \in Range(Starting) /\ UNCHANGED <<row, counter, dev, monitor, jobs, view, th>>
<1>1. agent \in Range(Starting)
  BY BegunPhases
<1>2. InitAgent
  BY PhaseStays DEF Destroy, EndAgent, UnregisterFromMonitor, UnregisterUpdater, StopQueue, Phase
<1>3. RegisterWithStorage
  BY <1>2 DEF InitAgent, RegisterAgentWithMonitor, RegisterUpdaterWithMonitor, Phase
<1> QED BY <1>1, <1>3 DEF RegisterWithStorage

\* An agent that was up does not start again.
LEMMA StartsOnce ==
  ASSUME Typed, agent \in Begun, agent' \in Range(Starting), Next
  PROVE  agent \in Range(Starting)
<1>1. SUFFICES ASSUME agent = "up" PROVE FALSE
  BY BegunPhases
<1>2. agent' = "up" \/ agent' = "unstored"
  BY <1>1, PhaseStays DEF Destroy, EndAgent, UnregisterFromMonitor, UnregisterUpdater, StopQueue, Phase, InitAgent,
                          RegisterAgentWithMonitor, RegisterUpdaterWithMonitor, RegisterWithStorage
<1> QED BY <1>2, BegunPhases

\* An agent that is being destroyed is not used any more.
LEMMA EndsForGood ==
  ASSUME Typed, agent \notin Begun, Next
  PROVE  agent' \notin Begun
<1>1. agent' = agent \/ agent' \in {"unmonitored", "updater_unstored", "updater_unmonitored", "gone"}
  BY PhaseStays, BegunPhases DEF Destroy, EndAgent, UnregisterFromMonitor, UnregisterUpdater, StopQueue, Phase, InitAgent,
                                 RegisterAgentWithMonitor, RegisterUpdaterWithMonitor, RegisterWithStorage
<1> QED BY <1>1, BegunPhases

LEMMA InitKnown == Init => Known
<1> SUFFICES ASSUME Init PROVE Core
  BY DEF Known
<1>1. Typed
  BY InitTyped
<1>2. /\ counter = 0 /\ signals = Apps /\ bus = NoSignal /\ agent = "created" /\ agent \in Range(Starting)
      /\ th = [t \in Threads |-> NoWork] /\ view = [a \in Apps |-> Unknown]
      /\ heard = [a \in Apps |-> [n \in Names |-> "none"]]
  BY BegunPhases DEF Init
<1>3. ASSUME NEW a \in Apps
      PROVE  /\ row[a] \in {"none", "ok"} /\ dev[a].up /\ dev[a].name = 1
             /\ row[a] = "ok" => dev[a].state = "claimed"
  <2>1. PICK claimed \in SUBSET Apps :
          /\ row = [b \in Apps |-> IF b \in claimed THEN "ok" ELSE "none"]
          /\ dev = [b \in Apps |-> [up |-> TRUE, name |-> 1,
                                    state |-> IF b \in claimed THEN "claimed" ELSE "claimable"]]
    BY DEF Init
  <2> QED BY <2>1
<1>4. \A t \in Threads : th[t] = NoWork
  BY <1>2
<1>5. bus.pc = "idle"
  BY <1>2 DEF NoSignal
<1>6. \A a \in Apps : view[a].name = 0
  BY <1>2, UnknownView
<1>7. StartsQuietly
  <2>1. \A u \in Users : th[u].pc = "idle"
    BY <1>4, Rows DEF NoWork
  <2>2. th[Updater].sync \notin {"will_reset", "reset"} /\ th[Updater].event \in {"none", "completed"}
    BY <1>4, Rows, QuietIdle
  <2>3. \A a \in Apps : Quiet(a)
    BY <1>3, <1>5, <1>6 DEF Quiet
  <2> QED BY <2>1, <2>2, <2>3 DEF StartsQuietly
<1>8. CallsOf
  <2>1. ASSUME NEW t \in Threads PROVE AloneOf(t) /\ ResetsOf(t)
    <3>1. th[t].pc = "idle" /\ th[t].event = "none" /\ th[t].tx = 0
      BY <1>4 DEF NoWork
    <3> QED BY <1>2, <3>1 DEF AloneOf, ResetsOf
  <2> QED BY <2>1 DEF CallsOf
<1>9. \A a \in Apps : News(a)
  BY <1>2, <1>5, <1>6 DEF News, Hears
<1>10. \A a \in Apps : RowOf(a)
  <2>1. \A a \in Apps : StillClaimed(a)
    BY <1>3 DEF StillClaimed
  <2>2. \A a \in Apps : Followed(a) /\ Adding(a)
    BY <1>1, <1>2, <1>7, QuietlyFollowed
  <2> QED BY <2>1, <2>2 DEF RowOf
<1> QED BY <1>7, <1>8, <1>9, <1>10 DEF Core, AppsOf

LEMMA NextKnown ==
  ASSUME Careful, Typed, Typed', Known, Next
  PROVE  Known'
<1>1. CASE agent \notin Begun
  BY <1>1, EndsForGood DEF Known
<1>2. CASE agent' \notin Begun
  BY <1>2 DEF Known
<1>3. CASE agent \in Begun /\ agent' \in Begun
  <2>1. Core
    BY <1>3 DEF Known
  <2>2. \A a \in Apps : News(a)'
    BY <1>3, <2>1, NextNews
  <2>3. CallsOf'
    BY <1>3, <2>1, NextCalls
  <2>4. \A a \in Apps : StillClaimed(a)'
    BY <1>3, <2>1, NextClaimed
  <2>5. StartsQuietly'
    <3>1. CASE agent' \notin Range(Starting)
      BY <3>1 DEF StartsQuietly
    <3>2. CASE agent' \in Range(Starting)
      BY <1>3, <2>1, <3>2, StartsOnce, QuietNext DEF Core
    <3> QED BY <3>1, <3>2
  <2>6. ASSUME NEW a \in Apps PROVE Followed(a)' /\ Adding(a)'
    <3>1. CASE agent' \in Range(Starting)
      BY <2>5, <3>1, QuietlyFollowedNext
    <3>2. CASE agent = "up" /\ agent' = "up"
      BY <2>1, <3>2, UpFollowed
    <3>3. CASE agent # "up" /\ agent' = "up"
      <4>1. agent \in Range(Starting) /\ UNCHANGED <<row, counter, dev, monitor, jobs, view, th>>
        BY <1>3, <2>1, <3>3, GoesUp
      <4>2. Followed(a) /\ Adding(a)
        BY <2>1, <4>1, QuietlyFollowed DEF Core
      <4>3. UNCHANGED <<row, dev, heard, bus, jobs, view, th>>
        BY <4>1 DEF monitor
      <4>4. Coming(a) => Coming(a)'
        BY <4>3 DEF Coming, NewName, Fresh, Updates, Asks
      <4>5. Applied(a) => Applied(a)'
        BY <4>3 DEF Applied, SaysOk, Completes, Disturbs
      <4>6. Adding(a)'
        BY <4>2, <4>3 DEF Adding
      <4> QED BY <4>2, <4>3, <4>4, <4>5, <4>6 DEF Followed
    <3> QED BY <1>3, <3>1, <3>2, <3>3, BegunPhases
  <2> QED BY <2>2, <2>3, <2>4, <2>5, <2>6 DEF Known, Core, AppsOf, RowOf
<1> QED BY <1>1, <1>2, <1>3

LEMMA StutterKnown ==
  ASSUME Known, UNCHANGED vars
  PROVE  Known'
BY DEF vars, storage, monitor, Known, Core, AppsOf, CallsOf, StartsQuietly, Quiet, AloneOf, ResetsOf, News, Hears,
       HeardLast, NeverHeard, RowOf, StillClaimed, Followed, Adding, Coming, NewName, Fresh, Updates, Asks, Applied,
       SaysOk, Completes, Disturbs

\* The invariant, for an agent that is used with care.
LEMMA AlwaysKnown ==
  ASSUME Careful
  PROVE  Spec => [](Typed /\ Known)
<1>1. Init => Typed /\ Known
  BY InitTyped, InitKnown
<1>2. Typed /\ Known /\ [Next]_vars => Typed' /\ Known'
  <2>1. Typed /\ [Next]_vars => Typed'
    BY NextTyped, StutterTyped
  <2> QED BY <2>1, NextKnown, StutterKnown
<1> QED BY <1>1, <1>2, PTL DEF Spec

\* When nothing is under way, the news are known.
LEMMA RestNews ==
  ASSUME Typed, Core, AtRest, NEW a \in Apps
  PROVE  view[a].name = dev[a].name /\ view[a].state = dev[a].state /\ ~NewName(a)
<1>1. News(a) /\ dev[a].up /\ signals = {} /\ bus.pc = "idle" /\ agent = "up"
  BY DEF Core, AppsOf, AtRest
<1>2. heard[a][dev[a].name] = dev[a].state /\ dev[a].state # "none" /\ dev[a].name \in Names /\ view[a] \in Views
  BY <1>1 DEF News, Typed, MonitorTyped, AgentTyped, AppStates
<1>3. view[a].name # 0 /\ HeardLast(a, view[a].name) /\ heard[a][view[a].name] = view[a].state
  BY <1>1, <1>2 DEF News, Hears, NeverHeard
<1>4. ~NewName(a)
  BY <1>1, <1>2 DEF NewName
<1>5. view[a].name = dev[a].name
  <2>1. view[a].name \in Names
    BY <1>2, <1>3 DEF Views
  <2> QED BY <1>1, <1>3, <1>4, <2>1, LastName
<1> QED BY <1>2, <1>3, <1>4, <1>5

\* Nor is an update still to come.
LEMMA RestRows ==
  ASSUME Typed, Core, AtRest, NEW a \in Apps, row[a] # "none"
  PROVE  row[a] = "ok" /\ view[a].sync = "ok"
<1>1. \A t \in Threads : th[t] = NoWork
  BY DEF AtRest, Typed, ThreadsTyped, WorkOf
<1>2. \A t \in Threads : ~Updates(t, a) /\ ~Asks(t, a) /\ ~Completes(t, a)
  BY <1>1, NewCall
<1>3. ~Coming(a)
  BY <1>2, RestNews DEF Coming, AtRest
<1>4. row[a] = "ok" /\ SaysOk(a)
  BY <1>2, <1>3 DEF Core, AppsOf, RowOf, Followed, Applied
<1>5. view[a].name # 0
  BY RestNews, Names0 DEF Typed, MonitorTyped
<1> QED BY <1>4, <1>5 DEF SaysOk

\* SettledViewIsTrue: whatever notifications, signals and updates have overtaken one
\* another, in the end the agent says of every application what is true.
THEOREM SettledViewsAreTrue == Careful => (Spec => []SettledViewIsTrue)
<1> SUFFICES ASSUME Careful PROVE Spec => []SettledViewIsTrue
  OBVIOUS
<1>1. Typed /\ Known => SettledViewIsTrue
  <2>1. SUFFICES ASSUME Typed, Core, AtRest PROVE \A a \in Apps : /\ view[a].name = dev[a].name
                                                                  /\ view[a].state = dev[a].state
                                                                  /\ row[a] # "none" => view[a].sync = row[a]
    BY BegunPhases DEF SettledViewIsTrue, AtRest, Known
  <2> QED BY <2>1, RestNews, RestRows
<1> QED BY <1>1, AlwaysKnown, PTL

\* SettledIsApplied: a change, or a reset, does not stay pending for an application that
\* is there: an update that is begun too early, or comes too late, is followed by another.
THEOREM SettledChangesAreApplied == Careful => (Spec => []SettledIsApplied)
<1> SUFFICES ASSUME Careful PROVE Spec => []SettledIsApplied
  OBVIOUS
<1>1. Typed /\ Known => SettledIsApplied
  <2>1. SUFFICES ASSUME Typed, Core, AtRest PROVE \A a \in Apps : row[a] \in {"ok", "none"}
    BY BegunPhases DEF SettledIsApplied, AtRest, Known
  <2> QED BY <2>1, RestRows
<1> QED BY <1>1, AlwaysKnown, PTL
================================================================================
