------------------------------ MODULE Claiming ------------------------------
(***************************************************************************)
(* How an application is claimed: SecurityAgentImpl::Claim asks the user,  *)
(* lets the CA storage sign and cache an identity certificate, installs it *)
(* in the application, and lets the CA storage record it.  Whatever fails  *)
(* on the way has to be undone, in the database and in the application.    *)
(*                                                                         *)
(* Threads of several agents may claim at the same time; the agents share  *)
(* one CA storage.  A step is a critical section of appsMutex, pendingLock *)
(* or storageMutex, one call to the application, or a call of the claim    *)
(* listener.  Certificates are known by their serial numbers.              *)
(***************************************************************************)
EXTENDS Naturals

CONSTANTS
  Apps,        \* applications, by their public keys
  Agents,      \* the SecurityAgentImpl objects
  Claimers,    \* the threads that call Claim
  AgentOf,     \* the agent of each thread
  NoApp,
  Nobody,      \* a lock is free
  MaxClaims,   \* bound: calls of Claim
  MaxEvents,   \* bound: stops and resets of applications, rows removed by the UI
  MaxFails,    \* bound: calls that fail for no reason the model knows
  MaxCrashes   \* bound: crashes of the security manager

ASSUME ClaimingAssumption ==
  /\ NoApp \notin Apps
  /\ Nobody \notin Claimers
  /\ AgentOf \in [Claimers -> Agents]
  /\ MaxClaims \in Nat /\ MaxEvents \in Nat /\ MaxFails \in Nat /\ MaxCrashes \in Nat

VARIABLES
  row,       \* per application: its rows in the database
  serial,    \* the next serial number
  cached,    \* AJNCaStorage::claimPendingApps, 0 without an entry
  pending,   \* per agent: SecurityAgentImpl::pendingClaims
  pom,       \* per agent: ProxyObjectManager::lock
  th,        \* where each thread is in Claim
  dev,       \* the applications
  strayed,   \* (history) applications that were taken out of Claim's hands
  spent      \* how much of the bounds is used up

vars == <<row, serial, cached, pending, pom, th, dev, strayed, spent>>

------------------------------------------------------------------------------

NoRow == [managed |-> FALSE, id |-> 0, mf |-> 0]

\* id: the identity certificate; mf: the certificate the manifest was for.
Rows == {NoRow} \cup [managed : {TRUE}, id : Nat, mf : Nat]

\* bus is the number of the application's bus name, new at every start; an
\* application without an identity certificate is claimable.
Devices == [up : BOOLEAN, bus : Nat, id : Nat]

Pcs == {"idle", "inspect", "approve", "sign", "cache", "connect", "claim", "finish",
        "storeApplication", "storeCertificate", "storeManifest", "remove", "undo"}

\* bus is what the agent knows of the application, ser the certificate of this
\* claim, data what was found in the cache, ok the result of the remote call.
Calls == [pc : Pcs, app : Apps \cup {NoApp}, bus : Nat, ser : Nat, data : Nat, ok : BOOLEAN]

NoCall == [pc |-> "idle", app |-> NoApp, bus |-> 0, ser |-> 0, data |-> 0, ok |-> FALSE]

TypeOK ==
  /\ row \in [Apps -> Rows]
  /\ serial \in Nat
  /\ cached \in [Apps -> Nat]
  /\ pending \in [Agents -> SUBSET Apps]
  /\ pom \in [Agents -> Claimers \cup {Nobody}]
  /\ th \in [Claimers -> Calls]
  /\ dev \in [Apps -> Devices]
  /\ strayed \subseteq Apps
  /\ spent \in [claims : Nat, events : Nat, fails : Nat, crashes : Nat]

Init ==
  /\ row = [a \in Apps |-> NoRow]
  /\ serial = 1
  /\ cached = [a \in Apps |-> 0]
  /\ pending = [g \in Agents |-> {}]
  /\ pom = [g \in Agents |-> Nobody]
  /\ th = [t \in Claimers |-> NoCall]
  /\ dev = [a \in Apps |-> [up |-> TRUE, bus |-> 1, id |-> 0]]
  /\ strayed = {}
  /\ spent = [claims |-> 0, events |-> 0, fails |-> 0, crashes |-> 0]

------------------------------------------------------------------------------
(* SecurityAgentImpl::Claim *)

Goto(t, pc) == th' = [th EXCEPT ![t].pc = pc]

\* Claim returns: the PendingClaim is destroyed.
Return(t) ==
  /\ pending' = [pending EXCEPT ![AgentOf[t]] = @ \ {th[t].app}]
  /\ th' = [th EXCEPT ![t] = NoCall]

MayFail ==
  /\ spent.fails < MaxFails
  /\ spent' = [spent EXCEPT !.fails = @ + 1]

\* A session with the application can be joined, under the name that is known.
Online(t) == LET d == dev[th[t].app] IN d.up /\ d.bus = th[t].bus

\* Mutant: claims of the same application are not excluded.
BeginClaim_NoCheck(t, a) ==
  /\ th[t].pc = "idle"
  /\ spent.claims < MaxClaims
  /\ spent' = [spent EXCEPT !.claims = @ + 1]
  /\ pending' = [pending EXCEPT ![AgentOf[t]] = @ \cup {a}]
  /\ th' = [th EXCEPT ![t] = [NoCall EXCEPT !.pc = "inspect", !.app = a, !.bus = dev[a].bus]]
  /\ UNCHANGED <<row, serial, cached, pom, dev, strayed>>

\* PendingClaim::Init: an agent claims an application once at a time.
BeginClaim(t, a) ==
  /\ th[t].pc = "idle"
  /\ spent.claims < MaxClaims
  /\ spent' = [spent EXCEPT !.claims = @ + 1]
  /\ a \notin pending[AgentOf[t]]
  /\ pending' = [pending EXCEPT ![AgentOf[t]] = @ \cup {a}]
  /\ th' = [th EXCEPT ![t] = [NoCall EXCEPT !.pc = "inspect", !.app = a, !.bus = dev[a].bus]]
  /\ UNCHANGED <<row, serial, cached, pom, dev, strayed>>

\* The manifest template and the claim capabilities are read in one session.
Inspect(t) ==
  /\ th[t].pc = "inspect"
  /\ pom[AgentOf[t]] = Nobody
  /\ \/ Online(t) /\ Goto(t, "approve") /\ UNCHANGED <<pending, spent>>
     \/ Online(t) /\ MayFail /\ Return(t)
     \/ ~Online(t) /\ Return(t) /\ UNCHANGED spent
  /\ UNCHANGED <<row, serial, cached, pom, dev, strayed>>

\* The claim listener approves the manifest, or rejects it.
Approve(t) ==
  /\ th[t].pc = "approve"
  /\ \/ Goto(t, "sign") /\ UNCHANGED pending
     \/ Return(t)
  /\ UNCHANGED <<row, serial, cached, pom, dev, strayed, spent>>

\* StartApplicationClaiming.  It fails if, for example, the identity is unknown.
Sign(t) ==
  /\ th[t].pc = "sign"
  /\ \/ /\ th' = [th EXCEPT ![t].pc = "cache", ![t].ser = serial]
        /\ serial' = serial + 1
        /\ UNCHANGED <<pending, spent>>
     \/ MayFail /\ Return(t) /\ UNCHANGED serial
  /\ UNCHANGED <<row, cached, pom, dev, strayed>>

CacheClaim(t) ==
  /\ th[t].pc = "cache"
  /\ cached' = [cached EXCEPT ![th[t].app] = th[t].ser]
  /\ Goto(t, "connect")
  /\ UNCHANGED <<row, serial, pending, pom, dev, strayed, spent>>

\* If no session can be joined, Claim returns; what was cached stays there.
Connect(t) ==
  /\ th[t].pc = "connect"
  /\ pom[AgentOf[t]] = Nobody
  /\ \/ /\ Online(t)
        /\ pom' = [pom EXCEPT ![AgentOf[t]] = t]
        /\ Goto(t, "claim")
        /\ UNCHANGED <<pending, spent>>
     \/ Online(t) /\ MayFail /\ Return(t) /\ UNCHANGED pom
     \/ ~Online(t) /\ Return(t) /\ UNCHANGED <<pom, spent>>
  /\ UNCHANGED <<row, serial, cached, dev, strayed>>

\* Mutant: the proxy object is not destroyed.
RemoteClaim_KeepsLock(t) ==
  LET a == th[t].app IN
  /\ th[t].pc = "claim"
  /\ \E ok \in BOOLEAN :
       /\ th' = [th EXCEPT ![t].pc = "finish", ![t].ok = ok]
       /\ ok = (Online(t) /\ dev[a].id = 0)
       /\ dev' = IF ok THEN [dev EXCEPT ![a].id = th[t].ser] ELSE dev
  /\ UNCHANGED <<row, serial, cached, pending, pom, strayed, spent>>

\* An application that is claimed refuses.  The answer may be lost.
RemoteClaim(t) ==
  LET a == th[t].app
      installed == [dev EXCEPT ![a].id = th[t].ser]
      Answer(ok) == th' = [th EXCEPT ![t].pc = "finish", ![t].ok = ok]
      accepts == Online(t) /\ dev[a].id = 0
  IN
  /\ th[t].pc = "claim"
  /\ pom' = [pom EXCEPT ![AgentOf[t]] = Nobody]
  /\ \/ accepts /\ dev' = installed /\ Answer(TRUE) /\ UNCHANGED <<strayed, spent>>
     \/ /\ accepts /\ MayFail /\ Answer(FALSE)
        /\ \/ UNCHANGED <<dev, strayed>>
           \/ dev' = installed /\ strayed' = strayed \cup {a}
     \/ ~accepts /\ Answer(FALSE) /\ UNCHANGED <<dev, strayed, spent>>
  /\ UNCHANGED <<row, serial, cached, pending>>

\* FinishApplicationClaiming: the cached data are taken out of the cache.
FinishClaiming(t) ==
  LET a == th[t].app IN
  /\ th[t].pc = "finish"
  /\ cached' = [cached EXCEPT ![a] = 0]
  /\ \/ /\ th[t].ok /\ cached[a] # 0
        /\ th' = [th EXCEPT ![t].pc = "storeApplication", ![t].data = cached[a]]
        /\ UNCHANGED pending
     \/ th[t].ok /\ cached[a] = 0 /\ Goto(t, "undo") /\ UNCHANGED pending
     \/ ~th[t].ok /\ Return(t)
  /\ UNCHANGED <<row, serial, pom, dev, strayed, spent>>

------------------------------------------------------------------------------
(* UIStorageImpl::ApplicationClaimed *)

\* Mutant: INSERT OR REPLACE.
StoreApplication_Replaces(t) ==
  /\ th[t].pc = "storeApplication"
  /\ row' = [row EXCEPT ![th[t].app] = [NoRow EXCEPT !.managed = TRUE]]
  /\ Goto(t, "storeCertificate")
  /\ UNCHANGED <<serial, cached, pending, pom, dev, strayed, spent>>

\* The application may be in the database already: its key is unique.
StoreApplication(t) ==
  LET a == th[t].app IN
  /\ th[t].pc = "storeApplication"
  /\ \/ /\ ~row[a].managed
        /\ row' = [row EXCEPT ![a] = [NoRow EXCEPT !.managed = TRUE]]
        /\ Goto(t, "storeCertificate")
        /\ UNCHANGED spent
     \/ row[a].managed /\ Goto(t, "undo") /\ UNCHANGED <<row, spent>>
     \/ MayFail /\ Goto(t, "undo") /\ UNCHANGED row
  /\ UNCHANGED <<serial, cached, pending, pom, dev, strayed>>

\* Mutant: PRAGMA foreign_keys is not set.
StoreCertificate_NoForeignKeys(t) ==
  LET a == th[t].app IN
  /\ th[t].pc = "storeCertificate"
  /\ row' = [row EXCEPT ![a].id = th[t].data]
  /\ Goto(t, "storeManifest")
  /\ UNCHANGED <<serial, cached, pending, pom, dev, strayed, spent>>

\* A foreign key fails if the application or the identity was removed; there
\* may be a certificate already.
StoreCertificate(t) ==
  LET a == th[t].app IN
  /\ th[t].pc = "storeCertificate"
  /\ \/ /\ row[a].managed /\ row[a].id = 0
        /\ row' = [row EXCEPT ![a].id = th[t].data]
        /\ Goto(t, "storeManifest")
        /\ UNCHANGED spent
     \/ MayFail /\ Goto(t, "remove") /\ UNCHANGED row
     \/ ~row[a].managed /\ Goto(t, "remove") /\ UNCHANGED <<row, spent>>
     \/ row[a].id # 0 /\ Goto(t, "remove") /\ UNCHANGED <<row, spent>>
  /\ UNCHANGED <<serial, cached, pending, pom, dev, strayed>>

\* An SQL UPDATE, which succeeds without a row too; then Claim returns ER_OK.
StoreManifest(t) ==
  LET a == th[t].app IN
  /\ th[t].pc = "storeManifest"
  /\ \/ /\ row' = IF row[a].managed THEN [row EXCEPT ![a].mf = th[t].data] ELSE row
        /\ Return(t)
        /\ UNCHANGED spent
     \/ MayFail /\ Goto(t, "remove") /\ UNCHANGED <<row, pending>>
  /\ UNCHANGED <<serial, cached, pom, dev, strayed>>

\* If this fails too, nobody is told.
RemoveRow(t) ==
  LET a == th[t].app IN
  /\ th[t].pc = "remove"
  /\ \/ row' = [row EXCEPT ![a] = NoRow] /\ UNCHANGED <<strayed, spent>>
     \/ MayFail /\ strayed' = strayed \cup {a} /\ UNCHANGED row
  /\ Goto(t, "undo")
  /\ UNCHANGED <<serial, cached, pending, pom, dev>>

\* Mutant: the application is not reset.
Undo_Skipped(t) ==
  /\ th[t].pc = "undo"
  /\ Return(t)
  /\ UNCHANGED <<row, serial, cached, pom, dev, strayed, spent>>

\* Back in Claim: the application was claimed but could not be recorded.
Undo(t) ==
  LET a == th[t].app
      failed == strayed' = (IF dev[a].id # 0 THEN strayed \cup {a} ELSE strayed)
  IN
  /\ th[t].pc = "undo"
  /\ pom[AgentOf[t]] = Nobody
  /\ \/ Online(t) /\ dev' = [dev EXCEPT ![a].id = 0] /\ UNCHANGED <<strayed, spent>>
     \/ Online(t) /\ MayFail /\ failed /\ UNCHANGED dev
     \/ ~Online(t) /\ failed /\ UNCHANGED <<dev, spent>>
  /\ Return(t)
  /\ UNCHANGED <<row, serial, cached, pom>>

Step(t) ==
  \/ Inspect(t)
  \/ Approve(t)
  \/ Sign(t)
  \/ CacheClaim(t)
  \/ Connect(t)
  \/ RemoteClaim(t)
  \/ FinishClaiming(t)
  \/ StoreApplication(t)
  \/ StoreCertificate(t)
  \/ StoreManifest(t)
  \/ RemoveRow(t)
  \/ Undo(t)

------------------------------------------------------------------------------
(* Applications, the UI and the process *)

Event ==
  /\ spent.events < MaxEvents
  /\ spent' = [spent EXCEPT !.events = @ + 1]

AppStops(a) ==
  /\ Event
  /\ dev[a].up
  /\ dev' = [dev EXCEPT ![a].up = FALSE]
  /\ UNCHANGED <<row, serial, cached, pending, pom, th, strayed>>

AppStarts(a) ==
  /\ ~dev[a].up
  /\ dev' = [dev EXCEPT ![a].up = TRUE, ![a].bus = @ + 1]
  /\ UNCHANGED <<row, serial, cached, pending, pom, th, strayed, spent>>

\* The application is reset by its own user.
FactoryReset(a) ==
  /\ Event
  /\ dev' = [dev EXCEPT ![a].id = 0]
  /\ UNCHANGED <<row, serial, cached, pending, pom, th, strayed>>

\* UIStorageImpl::RemoveApplication leaves the application claimed; if the
\* claim is still storing it, this is noticed.
RemoveApplication(a) ==
  /\ Event
  /\ row[a].managed
  /\ row' = [row EXCEPT ![a] = NoRow]
  /\ strayed' = IF row[a].id # 0 THEN strayed \cup {a} ELSE strayed
  /\ UNCHANGED <<serial, cached, pending, pom, th, dev>>

\* Claims in progress are forgotten, with all that is not in the database.
Crash ==
  /\ spent.crashes < MaxCrashes
  /\ spent' = [spent EXCEPT !.crashes = @ + 1]
  /\ cached' = [a \in Apps |-> 0]
  /\ pending' = [g \in Agents |-> {}]
  /\ pom' = [g \in Agents |-> Nobody]
  /\ th' = [t \in Claimers |-> NoCall]
  /\ strayed' = strayed \cup {a \in Apps : \E t \in Claimers : th[t].app = a}
  /\ UNCHANGED <<row, serial, dev>>

Next ==
  \/ \E t \in Claimers : Step(t) \/ \E a \in Apps : BeginClaim(t, a)
  \/ \E a \in Apps : AppStops(a) \/ AppStarts(a) \/ FactoryReset(a) \/ RemoveApplication(a)
  \/ Crash

Spec == Init /\ [][Next]_vars

\* A thread that is inside Claim goes on: remote calls end, the listener answers.
FairSpec == Spec /\ \A t \in Claimers : WF_vars(Step(t))

------------------------------------------------------------------------------
(* Properties *)

Quiet(a) == \A t \in Claimers : th[t].app # a

\* Whatever fails during a claim, the application is not left claimed behind
\* the back of the security manager: one that is claimed is in the database,
\* with its certificate and the manifest the certificate was issued for.  And
\* the other way round, a claim leaves no half of a row, neither one without a
\* certificate nor one whose manifest belongs to another certificate.
\* Excepted are applications whose answer was lost, which could not be reached
\* to be reset, which the UI removed, and claims that a crash interrupted or
\* whose row could not be removed.
ClaimIsRecorded ==
  \A a \in Apps \ strayed : Quiet(a) =>
    /\ dev[a].id # 0 => row[a] = [managed |-> TRUE, id |-> dev[a].id, mf |-> dev[a].id]
    /\ row[a].managed => row[a].id # 0 /\ row[a].mf = row[a].id

\* When Claim returns ER_OK, the certificate in the database is the one it has
\* installed in the application, unless the UI has removed the application.
\* In between, the certificate was in a cache that other claims write to.
SuccessIsStored ==
  [][\A t \in Claimers : StoreManifest(t) /\ th'[t].pc = "idle" =>
       LET s == th[t].ser IN
       row'[th[t].app] \in {NoRow, [managed |-> TRUE, id |-> s, mf |-> s]}]_vars

\* A claim is one step to everybody else: until it has returned with success, the certificate
\* that the application has and the rows that are written do not count.
Claimed(t) ==
  \/ th[t].pc = "finish" /\ th[t].ok
  \/ th[t].pc \in {"storeApplication", "storeCertificate", "storeManifest", "remove", "undo"}

Writing(t) == th[t].pc \in {"storeCertificate", "storeManifest", "remove"}

SeenInstalled ==
  [a \in Apps |-> IF \E t \in Claimers : th[t].app = a /\ Claimed(t) THEN 0 ELSE dev[a].id]

SeenRecorded ==
  [a \in Apps |-> IF \E t \in Claimers : th[t].app = a /\ Writing(t) THEN NoRow ELSE row[a]]

Service == INSTANCE ClaimService
  WITH installed <- SeenInstalled, recorded <- SeenRecorded, issued <- 1 .. (serial - 1), lost <- strayed

\* An application is claimed and recorded with a certificate of its own, or neither: Claim with all
\* its failures implements ClaimService.
ClaimsAreAtomic == Service!Spec

\* Every call of Claim returns.
ClaimReturns == \A t \in Claimers : (th[t].pc # "idle") ~> (th[t].pc = "idle")

==============================================================================
