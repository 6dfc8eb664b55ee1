--------------------------- MODULE ClaimingProofs ---------------------------
(***************************************************************************)
(* Proofs about Claiming for any sets of applications and threads and any  *)
(* bounds: type correctness, and, when all threads are of one agent, that  *)
(* a claim stores the certificate it has installed, that what is claimed   *)
(* is recorded and what is recorded is claimed, that no rows are left half *)
(* written, and that a claim is one step: Claiming implements ClaimService.*)
(***************************************************************************)
EXTENDS Claiming, TLAPS

\* A thread that is inside Claim claims an application.
WorkInv == \A t \in Claimers : th[t].pc # "idle" => th[t].app \in Apps

Typed == TypeOK /\ WorkInv

Spents == [claims : Nat, events : Nat, fails : Nat, crashes : Nat]

------------------------------------------------------------------------------
(* Types *)

LEMMA InitTyped == Init => Typed
<1> SUFFICES ASSUME Init PROVE Typed
  OBVIOUS
<1>1. NoRow \in Rows
  BY DEF Rows
<1>2. NoCall \in Calls /\ NoCall.pc = "idle"
  BY DEF NoCall, Calls, Pcs
<1>3. dev \in [Apps -> Devices]
  BY DEF Init, Devices
<1>4. TypeOK
  BY <1>1, <1>2, <1>3 DEF Init, TypeOK
<1>5. WorkInv
  BY <1>2 DEF Init, WorkInv
<1> QED
  BY <1>4, <1>5 DEF Typed

\* A thread that moves on stays with its application.
LEMMA Moves ==
  ASSUME Typed, NEW t \in Claimers, th[t].pc # "idle", NEW c \in Calls,
         c.app = th[t].app, th' = [th EXCEPT ![t] = c]
  PROVE  th' \in [Claimers -> Calls] /\ WorkInv'
BY DEF Typed, TypeOK, WorkInv

LEMMA GotoTyped ==
  ASSUME Typed, NEW t \in Claimers, th[t].pc # "idle", NEW pc \in Pcs, Goto(t, pc)
  PROVE  th' \in [Claimers -> Calls] /\ WorkInv'
<1> DEFINE c == [th[t] EXCEPT !.pc = pc]
<1>1. c \in Calls /\ c.app = th[t].app
  BY DEF Typed, TypeOK, Calls
<1>2. th' = [th EXCEPT ![t] = c]
  BY DEF Goto
<1> QED
  BY <1>1, <1>2, Moves

LEMMA ReturnTyped ==
  ASSUME Typed, NEW t \in Claimers, Return(t)
  PROVE  /\ th' \in [Claimers -> Calls]
         /\ WorkInv'
         /\ pending' \in [Agents -> SUBSET Apps]
<1>1. NoCall \in Calls /\ NoCall.pc = "idle"
  BY DEF NoCall, Calls, Pcs
<1>2. th' \in [Claimers -> Calls] /\ WorkInv'
  BY <1>1 DEF Return, Typed, TypeOK, WorkInv
<1>3. pending' \in [Agents -> SUBSET Apps]
  BY DEF Return, Typed, TypeOK
<1> QED
  BY <1>2, <1>3

LEMMA MayFailTyped == ASSUME spent \in Spents, MayFail PROVE spent' \in Spents
BY DEF MayFail, Spents

LEMMA ManagedRow ==
  ASSUME NEW r \in Rows, r.managed
  PROVE  r \in [managed : {TRUE}, id : Nat, mf : Nat]
<1>1. r # NoRow
  BY DEF NoRow
<1> QED
  BY <1>1 DEF Rows

LEMMA BeginTyped ==
  ASSUME Typed, NEW t \in Claimers, NEW a \in Apps, BeginClaim(t, a)
  PROVE  Typed'
<1> USE ClaimingAssumption DEF Typed
<1> DEFINE c == [NoCall EXCEPT !.pc = "inspect", !.app = a, !.bus = dev[a].bus]
<1>1. dev[a].bus \in Nat
  BY DEF TypeOK, Devices
<1>2. c \in Calls /\ c.app \in Apps
  BY <1>1 DEF NoCall, Calls, Pcs
<1>3. th' = [th EXCEPT ![t] = c]
  BY DEF BeginClaim
<1> HIDE DEF c
<1>4. th' \in [Claimers -> Calls] /\ WorkInv'
  BY <1>2, <1>3 DEF TypeOK, WorkInv
<1>5. pending' \in [Agents -> SUBSET Apps]
  BY DEF BeginClaim, TypeOK
<1>6. spent' \in [claims : Nat, events : Nat, fails : Nat, crashes : Nat]
  BY DEF BeginClaim, TypeOK
<1> QED
  BY <1>4, <1>5, <1>6 DEF BeginClaim, TypeOK

LEMMA StepTyped ==
  ASSUME Typed, NEW t \in Claimers, Step(t)
  PROVE  Typed'
<1> USE ClaimingAssumption DEF Typed
<1> DEFINE a == th[t].app
           went == th' \in [Claimers -> Calls] /\ WorkInv'
<1>1. spent \in Spents /\ dev \in [Apps -> Devices] /\ row \in [Apps -> Rows]
  BY DEF TypeOK, Spents
<1>2. ASSUME th[t].pc # "idle", NEW pc \in Pcs, Goto(t, pc)
      PROVE  went
  BY <1>2, GotoTyped
<1>3. ASSUME Return(t)
      PROVE  went /\ pending' \in [Agents -> SUBSET Apps]
  BY <1>3, ReturnTyped
<1>4. ASSUME MayFail
      PROVE  spent' \in Spents
  BY <1>1, <1>4, MayFailTyped
<1>5. /\ th[t] \in Calls
      /\ th[t].pc # "idle" => a \in Apps
      /\ th[t].ser \in Nat /\ th[t].data \in Nat
      /\ serial + 1 \in Nat
  BY DEF TypeOK, WorkInv, Calls
<1>6. ASSUME went, row' \in [Apps -> Rows], serial' \in Nat, cached' \in [Apps -> Nat],
             pending' \in [Agents -> SUBSET Apps],
             pom' \in [Agents -> Claimers \cup {Nobody}],
             dev' \in [Apps -> Devices], strayed' \subseteq Apps, spent' \in Spents
      PROVE  Typed'
  BY <1>6 DEF TypeOK, Spents
<1> HIDE DEF Typed
<1>7. /\ serial \in Nat /\ cached \in [Apps -> Nat]
      /\ pending \in [Agents -> SUBSET Apps]
      /\ pom \in [Agents -> Claimers \cup {Nobody}]
      /\ strayed \subseteq Apps
      /\ AgentOf[t] \in Agents
  BY DEF Typed, TypeOK
<1> HIDE DEF went
<1>8. ASSUME a \in Apps, NEW n \in Nat
      PROVE  /\ [dev EXCEPT ![a].id = n] \in [Apps -> Devices]
             /\ [cached EXCEPT ![a] = n] \in [Apps -> Nat]
             /\ row[a].managed => [row EXCEPT ![a].id = n] \in [Apps -> Rows]
             /\ row[a].managed => [row EXCEPT ![a].mf = n] \in [Apps -> Rows]
  <2>1. [dev[a] EXCEPT !.id = n] \in Devices
    BY <1>1, <1>8 DEF Devices
  <2>2. ASSUME row[a].managed
        PROVE  [row[a] EXCEPT !.id = n] \in Rows /\ [row[a] EXCEPT !.mf = n] \in Rows
    <3>1. row[a] \in [managed : {TRUE}, id : Nat, mf : Nat]
      BY <2>2, <1>1, <1>8, ManagedRow
    <3>3. /\ [row[a] EXCEPT !.id = n] \in [managed : {TRUE}, id : Nat, mf : Nat]
          /\ [row[a] EXCEPT !.mf = n] \in [managed : {TRUE}, id : Nat, mf : Nat]
      BY <3>1
    <3> QED
      BY <3>3 DEF Rows
  <2> QED
    BY <1>1, <1>7, <1>8, <2>1, <2>2
<1>9. /\ \A pc \in {"approve", "sign", "connect", "claim", "undo", "storeCertificate",
                    "storeManifest", "remove"} : pc \in Pcs
      /\ [pom EXCEPT ![AgentOf[t]] = t] \in [Agents -> Claimers \cup {Nobody}]
      /\ [pom EXCEPT ![AgentOf[t]] = Nobody] \in [Agents -> Claimers \cup {Nobody}]
  BY <1>7 DEF Pcs
<1>10. CASE Inspect(t)
  BY <1>10, <1>1, <1>2, <1>3, <1>4, <1>6, <1>7, <1>9 DEF Inspect
<1>11. CASE Approve(t)
  BY <1>11, <1>1, <1>2, <1>3, <1>4, <1>6, <1>7, <1>9 DEF Approve
<1>12. CASE Sign(t)
  <2>1. CASE Return(t)
    BY <1>12, <2>1, <1>1, <1>3, <1>4, <1>6, <1>7 DEF Sign
  <2>2. CASE th' = [th EXCEPT ![t].pc = "cache", ![t].ser = serial] /\ ~Return(t)
    <3> DEFINE c == [th[t] EXCEPT !.pc = "cache", !.ser = serial]
    <3>1. c \in Calls /\ c.app = th[t].app
      BY <1>5, <1>7 DEF Calls, Pcs
    <3>2. th' = [th EXCEPT ![t] = c]
      BY <2>2, <1>5 DEF Typed, TypeOK, Calls
    <3>3. went
      BY <1>12, <3>1, <3>2, Moves DEF went, Sign
    <3> QED
      BY <1>12, <2>2, <3>3, <1>1, <1>5, <1>6, <1>7 DEF Sign
  <2> QED
    BY <1>12, <2>1, <2>2 DEF Sign
<1>13. CASE CacheClaim(t)
  BY <1>13, <1>1, <1>2, <1>5, <1>6, <1>7, <1>8, <1>9 DEF CacheClaim
<1>14. CASE Connect(t)
  BY <1>14, <1>1, <1>2, <1>3, <1>4, <1>6, <1>7, <1>9 DEF Connect
<1>15. CASE RemoteClaim(t)
  <2>1. PICK ok \in BOOLEAN : th' = [th EXCEPT ![t].pc = "finish", ![t].ok = ok]
    BY <1>15 DEF RemoteClaim
  <2> DEFINE c == [th[t] EXCEPT !.pc = "finish", !.ok = ok]
  <2>2. c \in Calls /\ c.app = th[t].app
    BY <1>5 DEF Calls, Pcs
  <2>3. th' = [th EXCEPT ![t] = c]
    BY <2>1, <1>5 DEF Typed, TypeOK, Calls
  <2>4. went
    BY <1>15, <2>2, <2>3, Moves DEF went, RemoteClaim
  <2> DEFINE installed == [dev EXCEPT ![a].id = th[t].ser]
  <2>5. a \in Apps /\ installed \in [Apps -> Devices]
    BY <1>15, <1>5, <1>8 DEF RemoteClaim
  <2> HIDE DEF installed
  <2>6. dev' \in {dev, installed} /\ strayed' \in {strayed, strayed \cup {a}}
    BY <1>15 DEF RemoteClaim, installed
  <2>7. spent' = spent \/ MayFail
    BY <1>15 DEF RemoteClaim
  <2>8. dev' \in [Apps -> Devices] /\ strayed' \subseteq Apps /\ spent' \in Spents
    BY <2>5, <2>6, <2>7, <1>1, <1>4, <1>7
  <2> QED
    BY <1>15, <2>4, <2>8, <1>1, <1>6, <1>7, <1>9 DEF RemoteClaim
<1>16. CASE FinishClaiming(t)
  <2>1. cached' \in [Apps -> Nat]
    BY <1>16, <1>5, <1>8 DEF FinishClaiming
  <2>2. went /\ pending' \in [Agents -> SUBSET Apps]
    <3>1. CASE th' = [th EXCEPT ![t].pc = "storeApplication", ![t].data = cached[a]]
               /\ UNCHANGED pending
      <4> DEFINE c == [th[t] EXCEPT !.pc = "storeApplication", !.data = cached[a]]
      <4>1. cached[a] \in Nat
        BY <1>16, <1>5, <1>7 DEF FinishClaiming
      <4>2. c \in Calls /\ c.app = th[t].app
        BY <4>1, <1>5 DEF Calls, Pcs
      <4>3. th' = [th EXCEPT ![t] = c]
        BY <3>1, <1>5 DEF Typed, TypeOK, Calls
      <4> QED
        BY <1>16, <3>1, <4>2, <4>3, <1>7, Moves DEF went, FinishClaiming
    <3>2. CASE Goto(t, "undo") /\ UNCHANGED pending
      BY <1>16, <3>2, <1>2, <1>7, <1>9 DEF FinishClaiming
    <3>3. CASE Return(t)
      BY <3>3, <1>3
    <3> QED
      BY <1>16, <3>1, <3>2, <3>3 DEF FinishClaiming
  <2> QED
    BY <1>16, <2>1, <2>2, <1>1, <1>6, <1>7 DEF FinishClaiming
<1>17. CASE StoreApplication(t)
  <2>1. [NoRow EXCEPT !.managed = TRUE] \in Rows
    BY DEF NoRow, Rows
  <2>2. row' \in [Apps -> Rows]
    BY <1>17, <2>1, <1>1 DEF StoreApplication
  <2> QED
    BY <1>17, <2>2, <1>1, <1>2, <1>4, <1>6, <1>7, <1>9 DEF StoreApplication
<1>18. CASE StoreCertificate(t)
  <2>1. row' \in [Apps -> Rows]
    <3>1. a \in Apps
      BY <1>18, <1>5 DEF StoreCertificate
    <3> DEFINE certified == [row EXCEPT ![a].id = th[t].data]
    <3>2. row[a].managed => certified \in [Apps -> Rows]
      BY <3>1, <1>5, <1>8
    <3>3. row' = row \/ (row[a].managed /\ row' = certified)
      BY <1>18 DEF StoreCertificate
    <3> QED
      BY <3>2, <3>3, <1>1
  <2> QED
    BY <1>18, <2>1, <1>1, <1>2, <1>4, <1>6, <1>7, <1>9 DEF StoreCertificate
<1>19. CASE StoreManifest(t)
  <2>1. row' \in [Apps -> Rows]
    <3>1. row' = row \/ (row[a].managed /\ row' = [row EXCEPT ![a].mf = th[t].data])
      BY <1>19 DEF StoreManifest
    <3>2. row[a].managed => [row EXCEPT ![a].mf = th[t].data] \in [Apps -> Rows]
      <4>1. a \in Apps
        BY <1>19, <1>5 DEF StoreManifest
      <4> QED
        BY <4>1, <1>5, <1>8
    <3> QED
      BY <3>1, <3>2, <1>1
  <2> QED
    BY <1>19, <2>1, <1>1, <1>2, <1>3, <1>4, <1>6, <1>7, <1>9 DEF StoreManifest
<1>20. CASE RemoveRow(t)
  <2>1. row' \in [Apps -> Rows]
    BY <1>20, <1>1 DEF RemoveRow, Rows
  <2>2. strayed' \subseteq Apps /\ spent' \in Spents
    BY <1>20, <1>1, <1>4, <1>5, <1>7 DEF RemoveRow
  <2> QED
    BY <1>20, <2>1, <2>2, <1>1, <1>2, <1>6, <1>7, <1>9 DEF RemoveRow
<1>21. CASE Undo(t)
  <2> DEFINE reset == [dev EXCEPT ![a].id = 0]
  <2>1. a \in Apps /\ reset \in [Apps -> Devices]
    BY <1>21, <1>5, <1>8 DEF Undo
  <2> HIDE DEF reset
  <2>2. dev' \in {dev, reset} /\ strayed' \in {strayed, strayed \cup {a}}
    BY <1>21 DEF Undo, reset
  <2>3. spent' = spent \/ MayFail
    BY <1>21 DEF Undo
  <2>4. dev' \in [Apps -> Devices] /\ strayed' \subseteq Apps /\ spent' \in Spents
    BY <2>1, <2>2, <2>3, <1>1, <1>4, <1>7
  <2> QED
    BY <1>21, <2>4, <1>1, <1>3, <1>6, <1>7 DEF Undo
<1> QED
  BY <1>10, <1>11, <1>12, <1>13, <1>14, <1>15, <1>16, <1>17, <1>18, <1>19,
     <1>20, <1>21 DEF Step

LEMMA OthersTyped ==
  ASSUME Typed,
         \/ Crash
         \/ \E a \in Apps : AppStops(a) \/ AppStarts(a) \/ FactoryReset(a) \/ RemoveApplication(a)
  PROVE  Typed'
<1> USE ClaimingAssumption DEF Typed
<1>1. CASE Crash
  <2>1. NoCall \in Calls /\ NoCall.pc = "idle"
    BY DEF NoCall, Calls, Pcs
  <2>2. th' \in [Claimers -> Calls] /\ WorkInv'
    BY <1>1, <2>1 DEF Crash, WorkInv
  <2>3. strayed' \subseteq Apps
    BY <1>1 DEF Crash, TypeOK
  <2>4. /\ cached' \in [Apps -> Nat]
        /\ pending' \in [Agents -> SUBSET Apps]
        /\ pom' \in [Agents -> Claimers \cup {Nobody}]
        /\ spent' \in [claims : Nat, events : Nat, fails : Nat, crashes : Nat]
    BY <1>1 DEF Crash, TypeOK
  <2> QED
    BY <1>1, <2>2, <2>3, <2>4 DEF Crash, TypeOK
<1>2. ASSUME NEW a \in Apps,
             AppStops(a) \/ AppStarts(a) \/ FactoryReset(a) \/ RemoveApplication(a)
      PROVE  Typed'
  <2>1. spent' \in [claims : Nat, events : Nat, fails : Nat, crashes : Nat]
    BY <1>2 DEF AppStops, AppStarts, FactoryReset, RemoveApplication, Event, TypeOK
  <2>2. dev' \in [Apps -> Devices]
    <3>1. /\ dev \in [Apps -> Devices]
          /\ \A d \in Devices : /\ [d EXCEPT !.up = FALSE] \in Devices
                                /\ [d EXCEPT !.up = TRUE, !.bus = @ + 1] \in Devices
                                /\ [d EXCEPT !.id = 0] \in Devices
      <4>1. \A d \in Devices : d.bus + 1 \in Nat
        BY DEF Devices
      <4> QED
        BY <4>1 DEF TypeOK, Devices
    <3>2. CASE AppStops(a)
      BY <3>1, <3>2 DEF AppStops
    <3>3. CASE AppStarts(a)
      <4>1. dev' = [dev EXCEPT ![a] = [dev[a] EXCEPT !.up = TRUE, !.bus = @ + 1]]
        BY <3>1, <3>3 DEF AppStarts
      <4> QED
        BY <3>1, <4>1
    <3>4. CASE FactoryReset(a)
      BY <3>1, <3>4 DEF FactoryReset
    <3>5. CASE RemoveApplication(a)
      BY <3>1, <3>5 DEF RemoveApplication
    <3> QED
      BY <1>2, <3>2, <3>3, <3>4, <3>5
  <2>3. row' \in [Apps -> Rows]
    BY <1>2 DEF AppStops, AppStarts, FactoryReset, RemoveApplication, TypeOK, Rows
  <2>4. strayed' \subseteq Apps
    BY <1>2 DEF AppStops, AppStarts, FactoryReset, RemoveApplication, TypeOK
  <2>5. WorkInv' /\ UNCHANGED <<serial, cached, pending, pom, th>>
    BY <1>2 DEF AppStops, AppStarts, FactoryReset, RemoveApplication, WorkInv
  <2> QED
    BY <2>1, <2>2, <2>3, <2>4, <2>5 DEF TypeOK
<1> QED
  BY <1>1, <1>2

LEMMA NextTyped == Typed /\ [Next]_vars => Typed'
<1> SUFFICES ASSUME Typed, [Next]_vars PROVE Typed'
  OBVIOUS
<1>1. CASE UNCHANGED vars
  BY <1>1 DEF vars, Typed, TypeOK, WorkInv
<1>2. CASE Next
  BY <1>2, BeginTyped, StepTyped, OthersTyped DEF Next
<1> QED
  BY <1>1, <1>2

\* The variables have their types, whatever threads and agents claim, and a
\* thread that is inside Claim has an application.
THEOREM TypeCorrect == Spec => []TypeOK
<1>1. Init => Typed
  BY InitTyped
<1>2. Typed /\ [Next]_vars => Typed'
  BY NextTyped
<1>3. Typed => TypeOK
  BY DEF Typed
<1> QED
  BY <1>1, <1>2, <1>3, PTL DEF Spec

------------------------------------------------------------------------------
(* What a claim stores *)

\* The claims of an agent that are under way are of different applications.
Exclusive ==
  /\ \A t \in Claimers : th[t].pc # "idle" => th[t].app \in pending[AgentOf[t]]
  /\ \A s, t \in Claimers :
       s # t /\ AgentOf[s] = AgentOf[t] /\ th[s].pc # "idle" /\ th[t].pc # "idle"
         => th[s].app # th[t].app

\* The certificate of claim c is handed on, in the cache, then by the thread,
\* then in the database.
HandedOn(c) ==
  /\ c.pc \in {"connect", "claim", "finish"} => cached[c.app] = c.ser
  /\ c.pc \in {"storeApplication", "storeCertificate", "storeManifest"} => c.data = c.ser
  /\ c.pc = "storeManifest" =>
       row[c.app] = NoRow \/ (row[c.app].managed /\ row[c.app].id = c.ser)

IInv == Typed /\ Exclusive /\ \A t \in Claimers : HandedOn(th[t])

\* A step of a thread stays within its call, its application and its thread.
LEMMA StepIsLocal ==
  ASSUME Typed, NEW t \in Claimers, Step(t)
  PROVE  /\ th[t].pc # "idle"
         /\ \A s \in Claimers \ {t} : th'[s] = th[s]
         /\ \A b \in Apps \ {th[t].app} : cached'[b] = cached[b] /\ row'[b] = row[b]
         /\ \/ Return(t)
            \/ pending' = pending /\ th'[t].app = th[t].app
<1> DEFINE a == th[t].app
<1>1. /\ th \in [Claimers -> Calls] /\ th[t] \in Calls
      /\ row \in [Apps -> Rows] /\ cached \in [Apps -> Nat]
  BY DEF Typed, TypeOK
<1>2. th[t].pc # "idle"
  BY DEF Step, Inspect, Approve, Sign, CacheClaim, Connect, RemoteClaim, FinishClaiming,
         StoreApplication, StoreCertificate, StoreManifest, RemoveRow, Undo
<1>3. cached' = cached \/ \E n \in Nat : cached' = [cached EXCEPT ![a] = n]
  BY <1>1 DEF Calls, Step, Inspect, Approve, Sign, CacheClaim, Connect, RemoteClaim,
         FinishClaiming, StoreApplication, StoreCertificate, StoreManifest, RemoveRow, Undo
<1>4. \A b \in Apps \ {a} : cached'[b] = cached[b]
  BY <1>1, <1>3
<1>5. \A b \in Apps \ {a} : row'[b] = row[b]
  BY <1>1 DEF Step, Inspect, Approve, Sign, CacheClaim, Connect, RemoteClaim,
         FinishClaiming, StoreApplication, StoreCertificate, StoreManifest, RemoveRow, Undo
<1>6. ASSUME Return(t)
      PROVE  \A s \in Claimers \ {t} : th'[s] = th[s]
  BY <1>1, <1>6 DEF Return
<1>7. ASSUME NEW pc, Goto(t, pc)
      PROVE  /\ \A s \in Claimers \ {t} : th'[s] = th[s]
             /\ th'[t].app = a
  BY <1>1, <1>7 DEF Goto, Calls
<1>8. CASE Sign(t)
  BY <1>1, <1>2, <1>4, <1>5, <1>6, <1>8 DEF Sign, Calls
<1>9. CASE RemoteClaim(t)
  <2>1. pending' = pending
    BY <1>9 DEF RemoteClaim
  <2>2. PICK ok \in BOOLEAN : th' = [th EXCEPT ![t].pc = "finish", ![t].ok = ok]
    BY <1>9 DEF RemoteClaim
  <2> QED
    BY <1>1, <1>2, <1>4, <1>5, <2>1, <2>2 DEF Calls
<1>10. CASE FinishClaiming(t)
  BY <1>1, <1>2, <1>4, <1>5, <1>6, <1>7, <1>10 DEF FinishClaiming, Calls
<1>11. CASE Undo(t)
  BY <1>2, <1>4, <1>5, <1>6, <1>11 DEF Undo
<1>12. CASE \/ Inspect(t) \/ Approve(t) \/ CacheClaim(t) \/ Connect(t)
            \/ StoreApplication(t) \/ StoreCertificate(t) \/ StoreManifest(t)
            \/ RemoveRow(t)
  <2>1. Return(t) \/ (pending' = pending /\ \E pc : Goto(t, pc))
    BY <1>12 DEF Inspect, Approve, CacheClaim, Connect, StoreApplication,
         StoreCertificate, StoreManifest, RemoveRow
  <2> QED
    BY <1>2, <1>4, <1>5, <1>6, <1>7, <2>1
<1> QED
  BY <1>8, <1>9, <1>10, <1>11, <1>12 DEF Step

LEMMA ExclusiveStep ==
  ASSUME Typed, Exclusive, NEW t \in Claimers, Step(t)
  PROVE  Exclusive'
<1>1. /\ th[t].pc # "idle"
      /\ \A s \in Claimers \ {t} : th'[s] = th[s]
      /\ Return(t) \/ (pending' = pending /\ th'[t].app = th[t].app)
  BY StepIsLocal
<1>2. CASE pending' = pending /\ th'[t].app = th[t].app
  BY <1>1, <1>2 DEF Exclusive
<1>3. CASE Return(t)
  <2>1. th'[t].pc = "idle"
    BY <1>3 DEF Return, NoCall, Typed, TypeOK
  <2>2. \A s \in Claimers : th[s].pc # "idle" /\ s # t
          => th[s].app \in pending'[AgentOf[s]]
    BY <1>1, <1>3, ClaimingAssumption DEF Return, Exclusive, Typed, TypeOK
  <2> QED
    BY <1>1, <2>1, <2>2 DEF Exclusive
<1> QED
  BY <1>1, <1>2, <1>3

LEMMA HandedOnStep ==
  ASSUME \A s, t \in Claimers : AgentOf[s] = AgentOf[t],
         IInv, NEW t \in Claimers, Step(t)
  PROVE  \A s \in Claimers : HandedOn(th[s])'
<1> USE DEF IInv
<1> DEFINE a == th[t].app
<1>1. /\ th[t].pc # "idle"
      /\ \A s \in Claimers \ {t} : th'[s] = th[s]
      /\ \A b \in Apps \ {a} : cached'[b] = cached[b] /\ row'[b] = row[b]
  BY StepIsLocal
<1>2. ASSUME NEW s \in Claimers \ {t}
      PROVE  HandedOn(th[s])'
  <2>1. CASE th[s].pc = "idle"
    BY <1>1, <2>1 DEF HandedOn
  <2>2. CASE th[s].pc # "idle"
    <3>1. th[s].app \in Apps \ {a}
      BY <1>1, <2>2 DEF Exclusive, Typed, WorkInv
    <3> QED
      BY <1>1, <3>1 DEF HandedOn
  <2> QED
    BY <2>1, <2>2
<1>3. HandedOn(th[t])'
  <2>1. /\ a \in Apps /\ th[t] \in Calls /\ th \in [Claimers -> Calls]
        /\ row \in [Apps -> Rows] /\ cached \in [Apps -> Nat]
        /\ HandedOn(th[t])
    BY <1>1 DEF Typed, TypeOK, WorkInv
  <2>2. CASE Return(t)
    BY <2>1, <2>2 DEF Return, NoCall, HandedOn
  <2>3. CASE Inspect(t) \/ Approve(t) \/ Sign(t) \/ RemoveRow(t) \/ Undo(t)
    <3>1. Return(t) \/ th'[t].pc \in {"approve", "sign", "cache", "undo"}
      BY <2>1, <2>3 DEF Inspect, Approve, Sign, RemoveRow, Undo, Goto, Calls
    <3> QED
      BY <2>2, <3>1 DEF HandedOn
  <2>4. CASE CacheClaim(t)
    <3>1. /\ th'[t].pc = "connect" /\ th'[t].app = a /\ th'[t].ser = th[t].ser
          /\ cached'[a] = th[t].ser
      BY <2>1, <2>4 DEF CacheClaim, Goto, Calls
    <3> QED
      BY <3>1 DEF HandedOn
  <2>5. CASE Connect(t)
    <3>1. \/ Return(t)
          \/ /\ th'[t].pc = "claim" /\ th'[t].app = a /\ th'[t].ser = th[t].ser
             /\ cached' = cached /\ th[t].pc = "connect"
      BY <2>1, <2>5 DEF Connect, Goto, Calls
    <3> QED
      BY <2>1, <2>2, <3>1 DEF HandedOn
  <2>6. CASE RemoteClaim(t)
    <3>1. PICK ok \in BOOLEAN : th' = [th EXCEPT ![t].pc = "finish", ![t].ok = ok]
      BY <2>6 DEF RemoteClaim
    <3>2. /\ th'[t].pc = "finish" /\ th'[t].app = a /\ th'[t].ser = th[t].ser
          /\ cached' = cached /\ th[t].pc = "claim"
      BY <2>1, <2>6, <3>1 DEF RemoteClaim, Calls
    <3> QED
      BY <2>1, <3>2 DEF HandedOn
  <2>7. CASE FinishClaiming(t)
    <3>1. \/ Return(t)
          \/ th'[t].pc = "undo"
          \/ /\ th'[t].pc = "storeApplication" /\ th'[t].ser = th[t].ser
             /\ th'[t].data = cached[a] /\ th[t].pc = "finish"
      BY <2>1, <2>7 DEF FinishClaiming, Goto, Calls
    <3> QED
      BY <2>1, <2>2, <3>1 DEF HandedOn
  <2>8. CASE StoreApplication(t)
    <3>1. \/ th'[t].pc = "undo"
          \/ /\ th'[t].pc = "storeCertificate" /\ th'[t].ser = th[t].ser
             /\ th'[t].data = th[t].data /\ th[t].pc = "storeApplication"
      BY <2>1, <2>8 DEF StoreApplication, Goto, Calls
    <3> QED
      BY <2>1, <3>1 DEF HandedOn
  <2>9. CASE StoreCertificate(t)
    <3>1. \/ th'[t].pc = "remove"
          \/ /\ th'[t].pc = "storeManifest" /\ th'[t].ser = th[t].ser /\ th'[t].app = a
             /\ th'[t].data = th[t].data /\ th[t].pc = "storeCertificate"
             /\ row[a].managed /\ row' = [row EXCEPT ![a].id = th[t].data]
      BY <2>1, <2>9 DEF StoreCertificate, Goto, Calls
    <3>2. CASE th'[t].pc = "remove"
      BY <3>2 DEF HandedOn
    <3>3. CASE th'[t].pc = "storeManifest"
      <4>1. row[a] \in [managed : {TRUE}, id : Nat, mf : Nat]
        <5>1. row[a].managed /\ row[a] \in Rows
          BY <2>1, <3>1, <3>3
        <5> QED
          BY <5>1, ManagedRow
      <4>2. th[t].data = th[t].ser
        BY <2>1, <3>1, <3>3 DEF HandedOn
      <4>3. row' = [row EXCEPT ![a].id = th[t].data]
        BY <3>1, <3>3
      <4>4. row'[a] = [row[a] EXCEPT !.id = th[t].data]
        BY <2>1, <4>3
      <4>5. row'[a].managed /\ row'[a].id = th[t].data
        BY <4>1, <4>4
      <4> QED
        BY <2>1, <3>1, <3>3, <4>2, <4>5 DEF HandedOn
    <3> QED
      BY <3>1, <3>2, <3>3
  <2>10. CASE StoreManifest(t)
    <3>1. Return(t) \/ th'[t].pc = "remove"
      BY <2>1, <2>10 DEF StoreManifest, Goto, Calls
    <3> QED
      BY <2>2, <3>1 DEF HandedOn
  <2> QED
    BY <2>3, <2>4, <2>5, <2>6, <2>7, <2>8, <2>9, <2>10 DEF Step
<1> QED
  BY <1>2, <1>3

LEMMA BeginInv ==
  ASSUME \A s, t \in Claimers : AgentOf[s] = AgentOf[t],
         IInv, NEW t \in Claimers, NEW a \in Apps, BeginClaim(t, a)
  PROVE  IInv'
<1> USE DEF IInv
<1>1. Typed'
  BY BeginTyped
<1>2. /\ th[t].pc = "idle" /\ a \notin pending[AgentOf[t]]
      /\ \A s \in Claimers \ {t} : th'[s] = th[s]
      /\ th'[t].app = a /\ th'[t].pc = "inspect"
      /\ \A s \in Claimers : pending'[AgentOf[s]] = pending[AgentOf[s]] \cup {a}
      /\ cached' = cached /\ row' = row
  BY ClaimingAssumption DEF BeginClaim, Typed, TypeOK, NoCall
<1>3. Exclusive'
  BY <1>2 DEF Exclusive
<1>4. \A s \in Claimers : HandedOn(th[s])'
  BY <1>2 DEF HandedOn
<1> QED
  BY <1>1, <1>3, <1>4

LEMMA OthersInv ==
  ASSUME IInv,
         \/ Crash
         \/ \E a \in Apps : AppStops(a) \/ AppStarts(a) \/ FactoryReset(a) \/ RemoveApplication(a)
  PROVE  IInv'
<1> USE DEF IInv
<1>1. Typed'
  BY OthersTyped
<1>2. CASE Crash
  <2>1. \A s \in Claimers : th'[s] = NoCall
    BY <1>2 DEF Crash
  <2> QED
    BY <1>1, <2>1 DEF NoCall, Exclusive, HandedOn
<1>3. CASE \E a \in Apps : AppStops(a) \/ AppStarts(a) \/ FactoryReset(a) \/ RemoveApplication(a)
  <2>1. UNCHANGED <<cached, pending, th>>
    BY <1>3 DEF AppStops, AppStarts, FactoryReset, RemoveApplication
  <2>2. \A a \in Apps : row'[a] = row[a] \/ row'[a] = NoRow
    BY <1>3 DEF AppStops, AppStarts, FactoryReset, RemoveApplication, Typed, TypeOK
  <2>3. Exclusive'
    BY <2>1 DEF Exclusive
  <2>4. \A s \in Claimers : HandedOn(th[s])'
    BY <2>1, <2>2 DEF HandedOn, Typed, WorkInv
  <2> QED
    BY <1>1, <2>3, <2>4
<1> QED
  BY <1>2, <1>3

LEMMA InitInv == Init => IInv
<1> SUFFICES ASSUME Init PROVE IInv
  OBVIOUS
<1>1. Typed
  BY InitTyped
<1>2. \A s \in Claimers : th[s] = NoCall
  BY DEF Init
<1> QED
  BY <1>1, <1>2 DEF IInv, NoCall, Exclusive, HandedOn

LEMMA NextInv ==
  ASSUME \A s, t \in Claimers : AgentOf[s] = AgentOf[t],
         IInv, [Next]_vars
  PROVE  IInv'
<1>1. CASE UNCHANGED vars
  <2>1. Typed'
    BY <1>1, NextTyped DEF IInv
  <2> QED
    BY <1>1, <2>1 DEF vars, IInv, Exclusive, HandedOn
<1>2. ASSUME NEW t \in Claimers, Step(t)
      PROVE  IInv'
  BY <1>2, StepTyped, ExclusiveStep, HandedOnStep DEF IInv
<1>3. ASSUME NEW t \in Claimers, NEW a \in Apps, BeginClaim(t, a)
      PROVE  IInv'
  BY <1>3, BeginInv
<1> QED
  BY <1>1, <1>2, <1>3, OthersInv DEF Next

\* When all claims are made by one agent, a claim that succeeds has stored the
\* certificate that it installed: PendingClaim keeps the claims of the same
\* application apart, so that nobody else uses its place in the cache.
THEOREM OneAgentStoresItsOwn ==
  ASSUME \A s, t \in Claimers : AgentOf[s] = AgentOf[t]
  PROVE  Spec => SuccessIsStored
<1>1. Init => IInv
  BY InitInv
<1>2. IInv /\ [Next]_vars => IInv'
  BY NextInv
<1>3. ASSUME IInv, NEW t \in Claimers, StoreManifest(t), th'[t].pc = "idle"
      PROVE  LET s == th[t].ser IN
             row'[th[t].app] \in {NoRow, [managed |-> TRUE, id |-> s, mf |-> s]}
  <2> DEFINE a == th[t].app
             r == row[a]
  <2>1. /\ a \in Apps /\ th[t].data = th[t].ser
        /\ r \in Rows /\ row \in [Apps -> Rows]
        /\ r = NoRow \/ (r.managed /\ r.id = th[t].ser)
    BY <1>3 DEF IInv, Typed, TypeOK, WorkInv, HandedOn, StoreManifest
  <2>2. row' = IF r.managed THEN [row EXCEPT ![a].mf = th[t].data] ELSE row
    <3>1. ~Goto(t, "remove")
      BY <1>3 DEF IInv, Typed, TypeOK, Goto, Calls
    <3> QED
      BY <1>3, <3>1 DEF StoreManifest
  <2>3. CASE r = NoRow
    BY <2>1, <2>2, <2>3 DEF NoRow
  <2>4. CASE r.managed /\ r.id = th[t].ser
    <3>1. r \in [managed : {TRUE}, id : Nat, mf : Nat]
      BY <2>1, <2>4, ManagedRow
    <3>2. row'[a] = [r EXCEPT !.mf = th[t].ser]
      BY <2>1, <2>2, <2>4
    <3>3. row'[a] = [managed |-> TRUE, id |-> th[t].ser, mf |-> th[t].ser]
      BY <3>1, <3>2, <2>4
    <3> QED
      BY <3>3
  <2> QED
    BY <2>1, <2>3, <2>4
<1>4. IInv /\ [Next]_vars =>
        [\A t \in Claimers : StoreManifest(t) /\ th'[t].pc = "idle" =>
           LET s == th[t].ser IN
           row'[th[t].app] \in {NoRow, [managed |-> TRUE, id |-> s, mf |-> s]}]_vars
  BY <1>3
<1> QED
  BY <1>1, <1>2, <1>4, PTL DEF Spec, SuccessIsStored

------------------------------------------------------------------------------
(* What a claim leaves behind *)

Recorded(a) == dev[a].id # 0 => row[a] = [managed |-> TRUE, id |-> dev[a].id, mf |-> dev[a].id]
Whole(a) == row[a].managed => row[a].id # 0 /\ row[a].mf = row[a].id

\* How far claim c has got with its application, of which nobody has lost track.
Progress(c) ==
  /\ c.pc \in {"inspect", "approve", "sign", "cache", "connect", "claim"} => Recorded(c.app)
  /\ c.pc = "finish" => IF c.ok THEN dev[c.app].id \in {0, c.ser} ELSE Recorded(c.app)
  /\ c.pc \notin {"storeCertificate", "storeManifest", "remove"} => Whole(c.app)
  /\ c.pc \in {"storeApplication", "storeCertificate", "storeManifest"} =>
       c.data # 0 /\ dev[c.app].id \in {0, c.data}
  /\ c.pc = "storeCertificate" => row[c.app].id = 0 /\ row[c.app].mf = 0
  /\ c.pc = "storeManifest" => row[c.app].managed /\ row[c.app].id = c.data

IdleIsNoCall == \A t \in Claimers : th[t].pc = "idle" => th[t] = NoCall

Tracked(a) ==
  /\ Quiet(a) => Recorded(a) /\ Whole(a)
  /\ \A t \in Claimers : th[t].app = a => Progress(th[t])

RecordInv == IInv /\ IdleIsNoCall /\ \A a \in Apps \ strayed : Tracked(a)

\* A step of a thread changes its own application only.
LEMMA StepKeepsOthers ==
  ASSUME Typed, NEW t \in Claimers, Step(t)
  PROVE  /\ \A b \in Apps \ {th[t].app} : dev'[b] = dev[b]
         /\ strayed' \in {strayed, strayed \cup {th[t].app}}
<1>1. dev \in [Apps -> Devices]
  BY DEF Typed, TypeOK
<1> QED
  BY <1>1 DEF Step, Inspect, Approve, Sign, CacheClaim, Connect, RemoteClaim, FinishClaiming,
         StoreApplication, StoreCertificate, StoreManifest, RemoveRow, Undo

\* Where the step of a claim ends: it returns, and has recorded the application, or it goes on.
LEMMA StepProgress ==
  ASSUME RecordInv, NEW t \in Claimers, Step(t), NEW a \in Apps, th[t].app = a, a \notin strayed'
  PROVE  \/ Return(t) /\ Recorded(a)' /\ Whole(a)'
         \/ Progress(th[t])' /\ th'[t].app = a /\ th'[t].pc # "idle"
<1>1. /\ th \in [Claimers -> Calls] /\ th[t] \in Calls /\ row \in [Apps -> Rows]
      /\ dev \in [Apps -> Devices] /\ dev[a] \in Devices /\ row[a] \in Rows
  BY DEF RecordInv, IInv, Typed, TypeOK
<1>2. a \notin strayed
  BY StepKeepsOthers DEF RecordInv, IInv
<1>3. Progress(th[t]) /\ HandedOn(th[t])
  BY <1>2 DEF RecordInv, IInv, Tracked
<1>4. ASSUME UNCHANGED <<row, dev>> PROVE (Recorded(a) => Recorded(a)') /\ (Whole(a) => Whole(a)')
  BY <1>4 DEF Recorded, Whole
<1>5. ASSUME NEW pc \in Pcs, Goto(t, pc)
      PROVE  /\ th'[t].pc = pc /\ th'[t].app = a /\ th'[t].ser = th[t].ser
             /\ th'[t].data = th[t].data /\ th'[t].ok = th[t].ok
  BY <1>1, <1>5 DEF Goto, Calls
<1>6. CASE Inspect(t) \/ Approve(t) \/ CacheClaim(t) \/ Connect(t)
  <2>1. /\ UNCHANGED <<row, dev>> /\ Recorded(a) /\ Whole(a)
        /\ Return(t) \/ (\E pc \in {"approve", "sign", "connect", "claim"} : Goto(t, pc))
    BY <1>3, <1>6 DEF Inspect, Approve, CacheClaim, Connect, Progress
  <2>2. ASSUME NEW pc \in {"approve", "sign", "connect", "claim"}, Goto(t, pc)
        PROVE  Progress(th[t])' /\ th'[t].app = a /\ th'[t].pc # "idle"
    BY <1>4, <1>5, <2>1, <2>2 DEF Progress, Pcs
  <2> QED
    BY <1>4, <2>1, <2>2
<1>7. CASE Sign(t)
  <2>1. UNCHANGED <<row, dev>> /\ Recorded(a) /\ Whole(a)
    BY <1>3, <1>7 DEF Sign, Progress
  <2>2. Return(t) \/ (th'[t].pc = "cache" /\ th'[t].app = a)
    BY <1>1, <1>7 DEF Sign, Calls
  <2> QED
    BY <1>4, <2>1, <2>2 DEF Progress
<1>8. CASE RemoteClaim(t)
  <2>1. PICK ok \in BOOLEAN : th' = [th EXCEPT ![t].pc = "finish", ![t].ok = ok]
    BY <1>8 DEF RemoteClaim
  <2>2. th'[t].pc = "finish" /\ th'[t].app = a /\ th'[t].ser = th[t].ser /\ th'[t].ok = ok
    BY <1>1, <2>1 DEF Calls
  <2>3. Recorded(a) /\ Whole(a) /\ UNCHANGED row
    BY <1>3, <1>8 DEF RemoteClaim, Progress
  <2>4. IF ok THEN dev'[a].id = th[t].ser ELSE UNCHANGED dev
    <3>1. CASE ok
      <4>1. dev' = [dev EXCEPT ![a].id = th[t].ser]
        <5>1. th' # [th EXCEPT ![t].pc = "finish", ![t].ok = FALSE]
          BY <1>1, <2>2, <3>1 DEF Calls
        <5> QED
          BY <1>8, <5>1 DEF RemoteClaim
      <4>2. dev'[a].id = th[t].ser
        BY <1>1, <4>1 DEF Devices
      <4> QED
        BY <3>1, <4>2
    <3>2. CASE ~ok
      <4>1. th' # [th EXCEPT ![t].pc = "finish", ![t].ok = TRUE]
        BY <1>1, <2>2, <3>2 DEF Calls
      <4>2. UNCHANGED dev \/ strayed' = strayed \cup {th[t].app}
        BY <1>8, <4>1 DEF RemoteClaim
      <4> QED
        BY <3>2, <4>2
    <3> QED
      BY <3>1, <3>2
  <2>5. Whole(a)'
    BY <2>3 DEF Whole
  <2>6. CASE ok
    BY <2>2, <2>4, <2>5, <2>6 DEF Progress
  <2>7. CASE ~ok
    BY <1>4, <2>2, <2>3, <2>4, <2>5, <2>7 DEF Progress
  <2> QED
    BY <2>6, <2>7
<1>9. CASE FinishClaiming(t)
  <2>1. UNCHANGED <<row, dev>> /\ Whole(a) /\ th[t].pc = "finish"
    BY <1>3, <1>9 DEF FinishClaiming, Progress
  <2>2. CASE th[t].ok
    <3>1. dev[a].id \in {0, th[t].ser} /\ cached[a] = th[t].ser
      BY <1>3, <2>1, <2>2 DEF Progress, HandedOn
    <3>2. \/ th' = [th EXCEPT ![t].pc = "storeApplication", ![t].data = cached[a]] /\ cached[a] # 0
          \/ Goto(t, "undo")
      BY <1>9, <2>2 DEF FinishClaiming
    <3>3. ASSUME th' = [th EXCEPT ![t].pc = "storeApplication", ![t].data = cached[a]]
          PROVE  th'[t].pc = "storeApplication" /\ th'[t].app = a /\ th'[t].data = cached[a]
      BY <1>1, <3>3 DEF Calls
    <3> QED
      BY <1>4, <1>5, <2>1, <3>1, <3>2, <3>3 DEF Progress, Pcs
  <2>3. CASE ~th[t].ok
    BY <1>3, <1>4, <1>9, <2>1, <2>3 DEF FinishClaiming, Progress
  <2> QED
    BY <2>2, <2>3
<1>10. CASE StoreApplication(t)
  <2>1. /\ UNCHANGED dev /\ Whole(a) /\ th[t].data # 0 /\ dev[a].id \in {0, th[t].data}
    BY <1>3, <1>10 DEF StoreApplication, Progress
  <2>2. CASE UNCHANGED row /\ Goto(t, "undo")
    BY <1>4, <1>5, <2>1, <2>2 DEF Progress, Pcs
  <2>3. CASE row' = [row EXCEPT ![a] = [NoRow EXCEPT !.managed = TRUE]] /\ Goto(t, "storeCertificate")
    <3>1. row'[a].id = 0 /\ row'[a].mf = 0
      BY <1>1, <2>3 DEF NoRow
    <3> QED
      BY <1>5, <2>1, <2>3, <3>1 DEF Progress, Pcs
  <2> QED
    BY <1>10, <2>2, <2>3 DEF StoreApplication
<1>11. CASE StoreCertificate(t)
  <2>1. /\ UNCHANGED dev /\ th[t].data # 0 /\ dev[a].id \in {0, th[t].data}
    BY <1>3, <1>11 DEF StoreCertificate, Progress
  <2>2. CASE Goto(t, "remove")
    BY <1>5, <2>2 DEF Progress, Pcs
  <2>3. CASE row[a].managed /\ row' = [row EXCEPT ![a].id = th[t].data] /\ Goto(t, "storeManifest")
    <3>1. row[a] \in [managed : {TRUE}, id : Nat, mf : Nat]
      BY <1>1, <2>3, ManagedRow
    <3>2. row'[a].managed /\ row'[a].id = th[t].data
      BY <1>1, <2>3, <3>1
    <3> QED
      BY <1>5, <2>1, <2>3, <3>2 DEF Progress, Pcs
  <2> QED
    BY <1>11, <2>2, <2>3 DEF StoreCertificate
<1>12. CASE StoreManifest(t)
  <2>1. /\ UNCHANGED dev /\ th[t].data # 0 /\ dev[a].id \in {0, th[t].data}
        /\ row[a].managed /\ row[a].id = th[t].data
    BY <1>3, <1>12 DEF StoreManifest, Progress
  <2>2. CASE Goto(t, "remove")
    BY <1>5, <2>2 DEF Progress, Pcs
  <2>3. CASE Return(t) /\ row' = [row EXCEPT ![a].mf = th[t].data]
    <3>1. row[a] \in [managed : {TRUE}, id : Nat, mf : Nat]
      BY <1>1, <2>1, ManagedRow
    <3>2. row'[a] = [row[a] EXCEPT !.mf = th[t].data]
      BY <1>1, <2>3
    <3>3. row'[a] = [managed |-> TRUE, id |-> th[t].data, mf |-> th[t].data]
      BY <2>1, <3>1, <3>2
    <3>4. Whole(a)'
      BY <2>1, <3>3 DEF Whole
    <3>5. Recorded(a)'
      BY <2>1, <3>3 DEF Recorded
    <3> QED
      BY <2>3, <3>4, <3>5
  <2> QED
    BY <1>12, <2>1, <2>2, <2>3 DEF StoreManifest
<1>13. CASE RemoveRow(t)
  <2>1. row'[a] = NoRow /\ Goto(t, "undo")
    BY <1>1, <1>13 DEF RemoveRow
  <2>2. Whole(a)'
    BY <2>1 DEF Whole, NoRow
  <2> QED
    BY <1>5, <2>1, <2>2 DEF Progress, Pcs
<1>14. CASE Undo(t)
  <2>1. Return(t) /\ UNCHANGED row /\ Whole(a)
    BY <1>3, <1>14 DEF Undo, Progress
  <2>2. dev'[a].id = 0
    BY <1>1, <1>14 DEF Undo, Devices
  <2> QED
    BY <2>1, <2>2 DEF Recorded, Whole
<1> QED
  BY <1>6, <1>7, <1>8, <1>9, <1>10, <1>11, <1>12, <1>13, <1>14 DEF Step

LEMMA StepGoesOn ==
  ASSUME Typed, NEW t \in Claimers, Step(t)
  PROVE  Return(t) \/ th'[t].pc # "idle"
<1>1. th \in [Claimers -> Calls]
  BY DEF Typed, TypeOK
<1>2. ASSUME NEW pc \in Pcs \ {"idle"}, Goto(t, pc) PROVE th'[t].pc # "idle"
  BY <1>1, <1>2 DEF Goto, Calls
<1>3. CASE Sign(t)
  BY <1>1, <1>3 DEF Sign, Calls
<1>4. CASE RemoteClaim(t)
  <2>1. PICK ok \in BOOLEAN : th' = [th EXCEPT ![t].pc = "finish", ![t].ok = ok]
    BY <1>4 DEF RemoteClaim
  <2> QED
    BY <1>1, <2>1 DEF Calls
<1>5. CASE FinishClaiming(t)
  BY <1>1, <1>2, <1>5 DEF FinishClaiming, Calls, Pcs
<1>6. CASE \/ Inspect(t) \/ Approve(t) \/ CacheClaim(t) \/ Connect(t) \/ StoreApplication(t)
           \/ StoreCertificate(t) \/ StoreManifest(t) \/ RemoveRow(t) \/ Undo(t)
  BY <1>2, <1>6 DEF Inspect, Approve, CacheClaim, Connect, StoreApplication, StoreCertificate, StoreManifest,
                    RemoveRow, Undo, Pcs
<1> QED
  BY <1>3, <1>4, <1>5, <1>6 DEF Step

\* What nobody else touches stays tracked.
LEMMA StaysTracked ==
  ASSUME RecordInv, NEW a \in Apps \ strayed, UNCHANGED <<row[a], dev[a]>>,
         \A t \in Claimers : (th[t].app = a \/ th'[t].app = a) => th'[t] = th[t]
  PROVE  Tracked(a)'
<1>1. Tracked(a)
  BY DEF RecordInv
<1>2. Quiet(a)' => Quiet(a)
  BY DEF Quiet
<1>3. (Recorded(a) => Recorded(a)') /\ (Whole(a) => Whole(a)')
  BY DEF Recorded, Whole
<1>4. ASSUME NEW t \in Claimers, th'[t].app = a PROVE Progress(th[t])'
  <2>1. Progress(th[t]) /\ th'[t] = th[t] /\ th[t].app = a
    BY <1>1, <1>4 DEF Tracked
  <2> QED
    BY <2>1 DEF Progress, Recorded, Whole
<1> QED
  BY <1>1, <1>2, <1>3, <1>4 DEF Tracked

LEMMA StepRecords ==
  ASSUME \A s, t \in Claimers : AgentOf[s] = AgentOf[t],
         RecordInv, NEW t \in Claimers, Step(t)
  PROVE  IdleIsNoCall' /\ \A a \in Apps \ strayed' : Tracked(a)'
<1> USE ClaimingAssumption
<1>1. /\ th[t].pc # "idle" /\ th[t].app \in Apps /\ strayed \subseteq strayed'
      /\ \A s \in Claimers \ {t} : th'[s] = th[s]
      /\ \A b \in Apps \ {th[t].app} : row'[b] = row[b] /\ dev'[b] = dev[b]
      /\ Return(t) \/ (pending' = pending /\ th'[t].app = th[t].app)
  BY StepIsLocal, StepKeepsOthers DEF RecordInv, IInv, Typed, WorkInv
<1>2. Return(t) => th'[t] = NoCall
  BY DEF Return, RecordInv, IInv, Typed, TypeOK
<1>3. ASSUME NEW a \in Apps \ strayed', a # th[t].app PROVE Tracked(a)'
  <2>1. th'[t].app # a
    BY <1>1, <1>2, <1>3 DEF NoCall
  <2>2. \A s \in Claimers : (th[s].app = a \/ th'[s].app = a) => th'[s] = th[s]
    BY <1>1, <1>3, <2>1
  <2> QED
    BY <1>1, <1>3, <2>2, StaysTracked
<1>4. ASSUME NEW a \in Apps \ strayed', a = th[t].app PROVE Tracked(a)' /\ (th'[t].pc = "idle" => th'[t] = NoCall)
  <2>1. \A s \in Claimers \ {t} : th'[s].app # a
    BY <1>1, <1>4 DEF RecordInv, IInv, Exclusive, IdleIsNoCall, NoCall
  <2>2. \/ Return(t) /\ Recorded(a)' /\ Whole(a)'
        \/ Progress(th[t])' /\ th'[t].app = a /\ th'[t].pc # "idle"
    BY <1>4, StepProgress
  <2>3. CASE Return(t) /\ Recorded(a)' /\ Whole(a)'
    <3>1. \A s \in Claimers : th'[s].app # a
      BY <1>2, <2>1, <2>3 DEF NoCall
    <3> QED
      BY <1>2, <2>3, <3>1 DEF Tracked
  <2>4. CASE Progress(th[t])' /\ th'[t].app = a /\ th'[t].pc # "idle"
    <3>1. ~Quiet(a)'
      BY <2>4 DEF Quiet
    <3> QED
      BY <2>1, <2>4, <3>1 DEF Tracked
  <2> QED
    BY <2>2, <2>3, <2>4
<1>5. IdleIsNoCall'
  <2>1. th'[t].pc = "idle" => th'[t] = NoCall
    <3>1. Return(t) \/ th'[t].pc # "idle"
      BY StepGoesOn DEF RecordInv, IInv
    <3> QED
      BY <1>2, <3>1
  <2> QED
    BY <1>1, <2>1 DEF IdleIsNoCall, RecordInv
<1> QED
  BY <1>3, <1>4, <1>5

LEMMA BeginRecords ==
  ASSUME \A s, t \in Claimers : AgentOf[s] = AgentOf[t],
         RecordInv, NEW t \in Claimers, NEW b \in Apps, BeginClaim(t, b)
  PROVE  IdleIsNoCall' /\ \A a \in Apps \ strayed' : Tracked(a)'
<1> USE ClaimingAssumption DEF RecordInv, IInv
<1>1. /\ th[t].pc = "idle" /\ b \notin pending[AgentOf[t]] /\ th'[t].app = b /\ th'[t].pc = "inspect"
      /\ \A s \in Claimers \ {t} : th'[s] = th[s]
      /\ UNCHANGED <<row, dev, strayed>>
  BY DEF BeginClaim, Typed, TypeOK, NoCall
<1>2. th[t].app = NoApp
  BY <1>1 DEF IdleIsNoCall, NoCall
<1>3. IdleIsNoCall'
  BY <1>1 DEF IdleIsNoCall
<1>4. ASSUME NEW a \in Apps \ strayed', a # b PROVE Tracked(a)'
  <2>1. \A s \in Claimers : (th[s].app = a \/ th'[s].app = a) => th'[s] = th[s]
    BY <1>1, <1>2, <1>4
  <2> QED
    BY <1>1, <1>4, <2>1, StaysTracked
<1>5. ASSUME b \notin strayed' PROVE Tracked(b)'
  <2>1. \A s \in Claimers : th[s].app # b
    BY <1>1, <1>2 DEF Exclusive, IdleIsNoCall, NoCall
  <2>2. Recorded(b) /\ Whole(b)
    BY <1>1, <1>5, <2>1 DEF Tracked, Quiet
  <2>3. Recorded(b)' /\ Whole(b)'
    BY <1>1, <2>2 DEF Recorded, Whole
  <2>4. Progress(th[t])'
    BY <1>1, <2>3 DEF Progress
  <2>5. \A s \in Claimers \ {t} : th'[s].app # b
    BY <1>1, <2>1
  <2>6. ~Quiet(b)'
    BY <1>1 DEF Quiet
  <2> QED
    BY <2>4, <2>5, <2>6 DEF Tracked
<1> QED
  BY <1>3, <1>4, <1>5

LEMMA OthersRecords ==
  ASSUME RecordInv,
         \/ Crash
         \/ \E b \in Apps : AppStops(b) \/ AppStarts(b) \/ FactoryReset(b) \/ RemoveApplication(b)
  PROVE  IdleIsNoCall' /\ \A a \in Apps \ strayed' : Tracked(a)'
<1> USE ClaimingAssumption DEF RecordInv, IInv
<1>1. dev \in [Apps -> Devices] /\ row \in [Apps -> Rows]
  BY DEF Typed, TypeOK
<1>2. CASE Crash
  <2>1. \A t \in Claimers : th'[t] = NoCall
    BY <1>2 DEF Crash
  <2>2. ASSUME NEW a \in Apps \ strayed' PROVE Tracked(a)'
    <3>1. Quiet(a) /\ a \notin strayed
      BY <1>2, <2>2 DEF Crash, Quiet
    <3>2. Recorded(a)' /\ Whole(a)'
      BY <1>2, <3>1 DEF Crash, Recorded, Whole, Tracked
    <3>3. \A t \in Claimers : th'[t].app # a
      BY <2>1 DEF NoCall
    <3> QED
      BY <3>2, <3>3 DEF Tracked
  <2> QED
    BY <2>1, <2>2 DEF IdleIsNoCall
<1>3. ASSUME NEW b \in Apps, AppStops(b) \/ AppStarts(b) \/ FactoryReset(b)
      PROVE  IdleIsNoCall' /\ \A a \in Apps \ strayed' : Tracked(a)'
  <2>1. UNCHANGED <<th, row, strayed>>
    BY <1>3 DEF AppStops, AppStarts, FactoryReset
  <2>2. \A a \in Apps : dev'[a].id \in {0, dev[a].id}
    BY <1>1, <1>3 DEF AppStops, AppStarts, FactoryReset, Devices
  <2>3. ASSUME NEW a \in Apps \ strayed' PROVE Tracked(a)'
    <3>1. Tracked(a) /\ (Recorded(a) => Recorded(a)') /\ (Whole(a) => Whole(a)')
      BY <2>1, <2>2, <2>3 DEF Recorded, Whole
    <3>2. ASSUME NEW t \in Claimers, th'[t].app = a PROVE Progress(th[t])'
      <4>1. Progress(th[t]) /\ th[t].app = a
        BY <2>1, <3>1, <3>2 DEF Tracked
      <4> QED
        BY <2>1, <2>2, <3>1, <4>1 DEF Progress
    <3> QED
      BY <2>1, <3>1, <3>2 DEF Tracked, Quiet
  <2> QED
    BY <2>1, <2>3 DEF IdleIsNoCall
<1>4. ASSUME NEW b \in Apps, RemoveApplication(b)
      PROVE  IdleIsNoCall' /\ \A a \in Apps \ strayed' : Tracked(a)'
  <2>1. /\ UNCHANGED <<th, dev>> /\ strayed \subseteq strayed' /\ row[b].managed /\ row' = [row EXCEPT ![b] = NoRow]
        /\ row[b].id # 0 => b \in strayed'
    BY <1>4 DEF RemoveApplication
  <2>2. ASSUME NEW a \in Apps \ strayed', a # b PROVE Tracked(a)'
    BY <1>1, <2>1, <2>2, StaysTracked
  <2>3. ASSUME b \notin strayed' PROVE Tracked(b)'
    <3>1. row[b].id = 0 /\ ~Whole(b) /\ Tracked(b)
      BY <2>1, <2>3 DEF Whole
    <3>2. ASSUME NEW t \in Claimers, th[t].app = b PROVE Progress(th[t])'
      <4>1. Progress(th[t])
        BY <3>1, <3>2 DEF Tracked
      <4>2. th[t].pc \in {"storeCertificate", "remove"}
        BY <3>1, <3>2, <4>1 DEF Progress
      <4>3. row'[b] = NoRow
        BY <1>1, <2>1
      <4> QED
        BY <2>1, <3>2, <4>1, <4>2, <4>3 DEF Progress, NoRow
    <3> QED
      BY <2>1, <3>1, <3>2 DEF Tracked, Quiet
  <2> QED
    BY <2>1, <2>2, <2>3 DEF IdleIsNoCall
<1> QED
  BY <1>2, <1>3, <1>4

LEMMA RecordInvInit == Init => RecordInv
<1> SUFFICES ASSUME Init PROVE RecordInv
  OBVIOUS
<1>1. IInv
  BY InitInv
<1>2. \A t \in Claimers : th[t] = NoCall
  BY DEF Init
<1>3. \A a \in Apps : dev[a].id = 0 /\ ~row[a].managed
  BY DEF Init, NoRow
<1>4. \A a \in Apps : Recorded(a) /\ Whole(a)
  BY <1>3 DEF Recorded, Whole
<1>5. \A a \in Apps, t \in Claimers : th[t].app # a
  BY <1>2, ClaimingAssumption DEF NoCall
<1> QED
  BY <1>1, <1>2, <1>4, <1>5 DEF RecordInv, IdleIsNoCall, Tracked

LEMMA RecordInvNext ==
  ASSUME \A s, t \in Claimers : AgentOf[s] = AgentOf[t],
         RecordInv, [Next]_vars
  PROVE  RecordInv'
<1>1. IInv'
  BY NextInv DEF RecordInv
<1>2. CASE UNCHANGED vars
  BY <1>1, <1>2, StaysTracked DEF vars, RecordInv, IdleIsNoCall
<1>3. ASSUME NEW t \in Claimers, Step(t) PROVE RecordInv'
  BY <1>1, <1>3, StepRecords DEF RecordInv
<1>4. ASSUME NEW t \in Claimers, NEW a \in Apps, BeginClaim(t, a) PROVE RecordInv'
  BY <1>1, <1>4, BeginRecords DEF RecordInv
<1> QED
  BY <1>1, <1>2, <1>3, <1>4, OthersRecords DEF Next, RecordInv

\* Whatever fails on the way, a claim of the one agent leaves no application claimed behind
\* its back: one that is claimed is in the database, with its certificate and its manifest,
\* unless its answer was lost, it was out of reach, or a crash or the UI interfered; and no
\* row is left without a certificate or with the manifest of another one.
\* RecordInv says how far each claim has got, between the application and the database.
THEOREM NoClaimIsLost ==
  ASSUME \A s, t \in Claimers : AgentOf[s] = AgentOf[t]
  PROVE  Spec => []ClaimIsRecorded
<1>1. RecordInv => ClaimIsRecorded
  BY DEF RecordInv, Tracked, Recorded, Whole, ClaimIsRecorded
<1>2. RecordInv /\ [Next]_vars => RecordInv'
  BY RecordInvNext
<1> QED
  BY <1>1, <1>2, RecordInvInit, PTL DEF Spec

------------------------------------------------------------------------------
(* A claim is one step *)

\* Certificates are numbered in order; that of a claim under way is no other application's, and no
\* other claim's.
Numbered ==
  /\ serial # 0
  /\ \A a \in Apps : dev[a].id < serial /\ row[a].id < serial
  /\ \A t \in Claimers :
       /\ th[t].ser < serial
       /\ th[t].ser # 0 => \A a \in Apps \ {th[t].app} : dev[a].id # th[t].ser /\ row[a].id # th[t].ser
  /\ \A s, t \in Claimers : s # t /\ th[s].ser = th[t].ser => th[s].ser = 0

\* Certificates come from where they are: a step moves them no further than from the call to its
\* application and its rows, or takes a new one.
Moved(t) ==
  /\ serial' = serial
  /\ \A s \in Claimers : th'[s].ser = 0 \/ (th'[s].ser = th[s].ser /\ th'[s].app = th[s].app)
  /\ \A a \in Apps :
       /\ dev'[a].id \in {0, dev[a].id} \/ (a = th[t].app /\ dev'[a].id = th[t].ser)
       /\ row'[a].id \in {0, row[a].id} \/ (a = th[t].app /\ row'[a].id = th[t].ser)

Signed(t) ==
  /\ serial' = serial + 1 /\ UNCHANGED <<dev, row>>
  /\ th'[t].ser = serial /\ th'[t].app = th[t].app
  /\ \A s \in Claimers \ {t} : th'[s] = th[s]

LEMMA StepMoves ==
  ASSUME Typed, NEW t \in Claimers, HandedOn(th[t]), Step(t)
  PROVE  Moved(t) \/ Signed(t)
<1> DEFINE a == th[t].app
<1>1. /\ th \in [Claimers -> Calls] /\ th[t] \in Calls /\ row \in [Apps -> Rows]
      /\ dev \in [Apps -> Devices] /\ th[t].pc # "idle" /\ a \in Apps
      /\ \A s \in Claimers \ {t} : th'[s] = th[s]
      /\ \A b \in Apps \ {a} : row'[b] = row[b] /\ dev'[b] = dev[b]
  BY StepIsLocal, StepKeepsOthers DEF Typed, TypeOK, WorkInv
<1>2. ASSUME NEW pc \in Pcs, Goto(t, pc) PROVE th'[t].ser = th[t].ser /\ th'[t].app = a
  BY <1>1, <1>2 DEF Goto, Calls
<1>3. ASSUME Return(t) PROVE th'[t].ser = 0
  BY <1>1, <1>3 DEF Return, NoCall
<1>4. ASSUME serial' = serial, th'[t].ser = 0 \/ (th'[t].ser = th[t].ser /\ th'[t].app = a),
             dev'[a].id \in {0, dev[a].id, th[t].ser}, row'[a].id \in {0, row[a].id, th[t].ser}
      PROVE  Moved(t)
  BY <1>1, <1>4 DEF Moved
<1>5. CASE Sign(t)
  <2>1. CASE Return(t) /\ UNCHANGED <<serial, dev, row>>
    BY <1>3, <1>4, <2>1
  <2>2. CASE th' = [th EXCEPT ![t].pc = "cache", ![t].ser = serial] /\ serial' = serial + 1
    BY <1>1, <1>5, <2>2 DEF Sign, Signed, Calls
  <2>3. QED
    BY <1>5, <2>1, <2>2 DEF Sign
<1>6. CASE Inspect(t) \/ Approve(t) \/ CacheClaim(t) \/ Connect(t)
  <2>1. /\ UNCHANGED <<serial, dev, row>>
        /\ Return(t) \/ (\E pc \in {"approve", "sign", "connect", "claim"} : Goto(t, pc))
    BY <1>6 DEF Inspect, Approve, CacheClaim, Connect
  <2>2. QED
    BY <1>2, <1>3, <1>4, <2>1 DEF Pcs
<1>7. CASE RemoteClaim(t)
  <2>1. PICK ok \in BOOLEAN : th' = [th EXCEPT ![t].pc = "finish", ![t].ok = ok]
    BY <1>7 DEF RemoteClaim
  <2>2. th'[t].ser = th[t].ser /\ th'[t].app = a
    BY <1>1, <2>1 DEF Calls
  <2>3. UNCHANGED <<serial, row>> /\ (dev' = dev \/ dev' = [dev EXCEPT ![a].id = th[t].ser])
    BY <1>7 DEF RemoteClaim
  <2>4. dev'[a].id \in {dev[a].id, th[t].ser}
    BY <1>1, <2>3 DEF Devices
  <2>5. QED
    BY <1>4, <2>2, <2>3, <2>4
<1>8. CASE FinishClaiming(t)
  <2>1. UNCHANGED <<serial, dev, row>>
    BY <1>8 DEF FinishClaiming
  <2>2. CASE th' = [th EXCEPT ![t].pc = "storeApplication", ![t].data = cached[a]]
    <3>1. th'[t].ser = th[t].ser /\ th'[t].app = a
      BY <1>1, <2>2 DEF Calls
    <3>2. QED
      BY <1>4, <2>1, <3>1
  <2>3. CASE Return(t) \/ Goto(t, "undo")
    BY <1>2, <1>3, <1>4, <2>1, <2>3 DEF Pcs
  <2>4. QED
    BY <1>8, <2>2, <2>3 DEF FinishClaiming
<1>9. CASE StoreApplication(t)
  <2>1. /\ UNCHANGED <<serial, dev>> /\ (Goto(t, "storeCertificate") \/ Goto(t, "undo"))
        /\ row' = row \/ row' = [row EXCEPT ![a] = [NoRow EXCEPT !.managed = TRUE]]
    BY <1>9 DEF StoreApplication
  <2>2. row'[a].id \in {0, row[a].id}
    BY <1>1, <2>1 DEF NoRow
  <2>3. QED
    BY <1>2, <1>4, <2>1, <2>2 DEF Pcs
<1>10. CASE StoreCertificate(t)
  <2>1. /\ UNCHANGED <<serial, dev>> /\ (Goto(t, "storeManifest") \/ Goto(t, "remove"))
        /\ row' = row \/ (row[a].managed /\ row' = [row EXCEPT ![a].id = th[t].data])
    BY <1>10 DEF StoreCertificate
  <2>2. th[t].data = th[t].ser
    BY <1>10 DEF HandedOn, StoreCertificate
  <2>3. row'[a].id \in {row[a].id, th[t].ser}
    <3>1. CASE row' = row
      BY <3>1
    <3>2. CASE row[a].managed /\ row' = [row EXCEPT ![a].id = th[t].data]
      <4>1. row[a] \in [managed : {TRUE}, id : Nat, mf : Nat]
        BY <1>1, <3>2, ManagedRow
      <4>2. QED
        BY <1>1, <2>2, <3>2, <4>1
    <3>3. QED
      BY <2>1, <3>1, <3>2
  <2>4. QED
    BY <1>2, <1>4, <2>1, <2>3 DEF Pcs
<1>11. CASE StoreManifest(t)
  <2>1. /\ UNCHANGED <<serial, dev>> /\ (Return(t) \/ Goto(t, "remove"))
        /\ row' = row \/ (row[a].managed /\ row' = [row EXCEPT ![a].mf = th[t].data])
    BY <1>11 DEF StoreManifest
  <2>2. row'[a].id = row[a].id
    <3>1. CASE row' = row
      BY <3>1
    <3>2. CASE row[a].managed /\ row' = [row EXCEPT ![a].mf = th[t].data]
      <4>1. row[a] \in [managed : {TRUE}, id : Nat, mf : Nat]
        BY <1>1, <3>2, ManagedRow
      <4>2. QED
        BY <1>1, <3>2, <4>1
    <3>3. QED
      BY <2>1, <3>1, <3>2
  <2>3. QED
    BY <1>2, <1>3, <1>4, <2>1, <2>2 DEF Pcs
<1>12. CASE RemoveRow(t)
  <2>1. UNCHANGED <<serial, dev>> /\ Goto(t, "undo") /\ (row' = row \/ row' = [row EXCEPT ![a] = NoRow])
    BY <1>12 DEF RemoveRow
  <2>2. row'[a].id \in {0, row[a].id}
    BY <1>1, <2>1 DEF NoRow
  <2>3. QED
    BY <1>2, <1>4, <2>1, <2>2 DEF Pcs
<1>13. CASE Undo(t)
  <2>1. UNCHANGED <<serial, row>> /\ Return(t) /\ (dev' = dev \/ dev' = [dev EXCEPT ![a].id = 0])
    BY <1>13 DEF Undo
  <2>2. dev'[a].id \in {0, dev[a].id}
    BY <1>1, <2>1 DEF Devices
  <2>3. QED
    BY <1>3, <1>4, <2>1, <2>2
<1>14. QED
  BY <1>5, <1>6, <1>7, <1>8, <1>9, <1>10, <1>11, <1>12, <1>13 DEF Step

LEMMA NumberedNext ==
  ASSUME RecordInv, Numbered, [Next]_vars
  PROVE  Numbered'
<1>1. /\ th \in [Claimers -> Calls] /\ row \in [Apps -> Rows] /\ dev \in [Apps -> Devices] /\ serial \in Nat
      /\ \A t \in Claimers : th[t].ser \in Nat /\ HandedOn(th[t])
      /\ \A a \in Apps : dev[a].id \in Nat /\ row[a].id \in Nat
  <2>1. ASSUME NEW r \in Rows PROVE r.id \in Nat
    <3>1. CASE r = NoRow
      BY <3>1 DEF NoRow
    <3>2. CASE r \in [managed : {TRUE}, id : Nat, mf : Nat]
      BY <3>2
    <3>3. QED
      BY <3>1, <3>2 DEF Rows
  <2>2. TypeOK /\ \A t \in Claimers : HandedOn(th[t])
    BY DEF RecordInv, IInv, Typed
  <2>3. \A c \in Calls : c.ser \in Nat
    BY DEF Calls
  <2>4. \A d \in Devices : d.id \in Nat
    BY DEF Devices
  <2>5. QED
    BY <2>1, <2>2, <2>3, <2>4 DEF TypeOK
<1>2. ASSUME NEW t \in Claimers, Moved(t) PROVE Numbered'
  <2>1. serial' = serial
    BY <1>2 DEF Moved
  <2>2. \A a \in Apps : dev'[a].id < serial' /\ row'[a].id < serial'
    BY <1>1, <1>2 DEF Moved, Numbered
  <2>3. \A s \in Claimers : th'[s].ser < serial'
    BY <1>1, <1>2 DEF Moved, Numbered
  <2>4. ASSUME NEW r, NEW s \in Claimers, r \in Claimers, r # s, th'[r].ser = th'[s].ser PROVE th'[r].ser = 0
    BY <1>1, <1>2, <2>4 DEF Moved, Numbered
  <2>5. ASSUME NEW s \in Claimers, th'[s].ser # 0, NEW a \in Apps \ {th'[s].app}
        PROVE  dev'[a].id # th'[s].ser /\ row'[a].id # th'[s].ser
    <3>1. th'[s].ser = th[s].ser /\ th'[s].app = th[s].app
      BY <1>2, <2>5 DEF Moved
    <3>2. dev[a].id # th[s].ser /\ row[a].id # th[s].ser
      BY <2>5, <3>1 DEF Numbered
    <3>3. a = th[t].app => th[t].ser # th[s].ser
      BY <2>5, <3>1 DEF Numbered
    <3>4. QED
      BY <1>2, <2>5, <3>1, <3>2, <3>3 DEF Moved
  <2>6. serial' # 0
    BY <2>1 DEF Numbered
  <2>7. QED
    BY <2>2, <2>3, <2>4, <2>5, <2>6 DEF Numbered
<1>3. ASSUME NEW t \in Claimers, Signed(t) PROVE Numbered'
  <2>1. \A s \in Claimers : IF s = t THEN th'[s].ser = serial ELSE th'[s] = th[s]
    BY <1>3 DEF Signed
  <2>2. serial' = serial + 1 /\ dev' = dev /\ row' = row
    BY <1>3 DEF Signed
  <2>3. \A s \in Claimers \ {t} : th'[s].ser < serial
    BY <2>1 DEF Numbered
  <2>4. \A s \in Claimers : th'[s].ser < serial'
    BY <1>1, <2>1, <2>2, <2>3
  <2>5. ASSUME NEW s \in Claimers, th'[s].ser # 0, NEW a \in Apps \ {th'[s].app}
        PROVE  dev'[a].id # th'[s].ser /\ row'[a].id # th'[s].ser
    BY <1>1, <2>1, <2>2, <2>5 DEF Numbered
  <2>6. ASSUME NEW r \in Claimers, NEW s \in Claimers, r # s, th'[r].ser = th'[s].ser PROVE th'[r].ser = 0
    BY <1>1, <2>1, <2>3, <2>6 DEF Numbered
  <2>7. serial' # 0 /\ \A a \in Apps : dev'[a].id < serial' /\ row'[a].id < serial'
    BY <1>1, <2>2 DEF Numbered
  <2>8. QED
    BY <2>4, <2>5, <2>6, <2>7 DEF Numbered
<1>4. ASSUME NEW t \in Claimers, Step(t) PROVE Numbered'
  BY <1>1, <1>2, <1>3, <1>4, StepMoves DEF RecordInv, IInv
<1>5. ASSUME NEW t \in Claimers, NEW a \in Apps, BeginClaim(t, a) PROVE Numbered'
  <2>1. th'[t].ser = 0 /\ UNCHANGED <<serial, row, dev>> /\ \A s \in Claimers \ {t} : th'[s] = th[s]
    BY <1>1, <1>5 DEF BeginClaim, NoCall
  <2>2. Moved(t)
    BY <2>1 DEF Moved
  <2>3. QED
    BY <1>2, <2>2
<1>6. ASSUME NEW a \in Apps, AppStops(a) \/ AppStarts(a) \/ FactoryReset(a) \/ RemoveApplication(a)
      PROVE  Numbered'
  <2>1. UNCHANGED <<serial, th>>
    BY <1>6 DEF AppStops, AppStarts, FactoryReset, RemoveApplication
  <2>2. \A b \in Apps : dev'[b].id \in {0, dev[b].id}
    BY <1>1, <1>6 DEF AppStops, AppStarts, FactoryReset, RemoveApplication, Devices
  <2>3. \A b \in Apps : row'[b].id \in {0, row[b].id}
    BY <1>1, <1>6 DEF AppStops, AppStarts, FactoryReset, RemoveApplication, NoRow
  <2>4. QED
    BY <1>1, <2>1, <2>2, <2>3 DEF Numbered
<1>7. CASE Crash
  <2>1. UNCHANGED <<serial, row, dev>> /\ \A t \in Claimers : th'[t].ser = 0
    BY <1>7 DEF Crash, NoCall
  <2>2. QED
    BY <1>1, <2>1 DEF Numbered
<1>8. CASE UNCHANGED vars
  BY <1>8 DEF vars, Numbered
<1>9. QED
  BY <1>4, <1>5, <1>6, <1>7, <1>8 DEF Next

\* An application that nobody touches is seen as before.
LEMMA SeenStays ==
  ASSUME NEW a \in Apps, UNCHANGED <<row[a], dev[a]>>,
         \A t \in Claimers : (th[t].app = a \/ th'[t].app = a) => th'[t] = th[t]
  PROVE  SeenInstalled'[a] = SeenInstalled[a] /\ SeenRecorded'[a] = SeenRecorded[a]
<1>1. (\E t \in Claimers : th[t].app = a /\ Claimed(t))' <=> (\E t \in Claimers : th[t].app = a /\ Claimed(t))
  BY DEF Claimed
<1>2. (\E t \in Claimers : th[t].app = a /\ Writing(t))' <=> (\E t \in Claimers : th[t].app = a /\ Writing(t))
  BY DEF Writing
<1>3. QED
  BY <1>1, <1>2 DEF SeenInstalled, SeenRecorded

\* While one thread claims an application, it alone decides on what is seen of it.
LEMMA SeenAtWork ==
  ASSUME NEW t \in Claimers, NEW a \in Apps,
         \A s \in Claimers \ {t} : th[s].app # a /\ th'[s].app # a
  PROVE  /\ SeenInstalled[a] = IF th[t].app = a /\ Claimed(t) THEN 0 ELSE dev[a].id
         /\ SeenRecorded[a] = IF th[t].app = a /\ Writing(t) THEN NoRow ELSE row[a]
         /\ SeenInstalled'[a] = IF th'[t].app = a /\ Claimed(t)' THEN 0 ELSE dev'[a].id
         /\ SeenRecorded'[a] = IF th'[t].app = a /\ Writing(t)' THEN NoRow ELSE row'[a]
<1>1. (\E s \in Claimers : th[s].app = a /\ Claimed(s)) <=> th[t].app = a /\ Claimed(t)
  OBVIOUS
<1>2. (\E s \in Claimers : th[s].app = a /\ Writing(s)) <=> th[t].app = a /\ Writing(t)
  OBVIOUS
<1>3. (\E s \in Claimers : th[s].app = a /\ Claimed(s))' <=> th'[t].app = a /\ Claimed(t)'
  OBVIOUS
<1>4. (\E s \in Claimers : th[s].app = a /\ Writing(s))' <=> th'[t].app = a /\ Writing(t)'
  OBVIOUS
<1>5. QED
  BY <1>1, <1>2, <1>3, <1>4 DEF SeenInstalled, SeenRecorded

\* The claims under way are of different applications, and a step of one leaves the others alone.
LEMMA StepAlone ==
  ASSUME \A s, t \in Claimers : AgentOf[s] = AgentOf[t],
         RecordInv, NEW t \in Claimers, Step(t)
  PROVE  /\ th[t].pc # "idle" /\ th[t].app \in Apps
         /\ \A s \in Claimers \ {t} : th'[s] = th[s] /\ th[s].app # th[t].app
         /\ \A b \in Apps \ {th[t].app} : row'[b] = row[b] /\ dev'[b] = dev[b]
         /\ Return(t) \/ th'[t].app = th[t].app
         /\ Return(t) => th'[t] = NoCall
<1>1. /\ th[t].pc # "idle" /\ th[t].app \in Apps
      /\ \A s \in Claimers \ {t} : th'[s] = th[s]
      /\ \A b \in Apps \ {th[t].app} : row'[b] = row[b] /\ dev'[b] = dev[b]
      /\ Return(t) \/ (pending' = pending /\ th'[t].app = th[t].app)
  BY StepIsLocal, StepKeepsOthers DEF RecordInv, IInv, Typed, WorkInv
<1>2. \A s \in Claimers \ {t} : th[s].app # th[t].app
  BY <1>1, ClaimingAssumption DEF RecordInv, IInv, Exclusive, IdleIsNoCall, NoCall
<1>3. Return(t) => th'[t] = NoCall
  BY DEF Return, RecordInv, IInv, Typed, TypeOK
<1>4. QED
  BY <1>1, <1>2, <1>3

\* Of a claim nothing is seen until it returns with success.
LEMMA StepUnseen ==
  ASSUME \A s, t \in Claimers : AgentOf[s] = AgentOf[t],
         RecordInv, NEW t \in Claimers, Step(t), NEW a \in Apps, th[t].app = a, a \notin strayed',
         ~(StoreManifest(t) /\ Return(t))
  PROVE  SeenInstalled'[a] = SeenInstalled[a] /\ SeenRecorded'[a] = SeenRecorded[a]
<1>1. /\ th \in [Claimers -> Calls] /\ th[t] \in Calls /\ row \in [Apps -> Rows]
      /\ dev \in [Apps -> Devices] /\ dev[a] \in Devices /\ row[a] \in Rows
  BY DEF RecordInv, IInv, Typed, TypeOK
<1>2. a \notin strayed
  BY StepKeepsOthers DEF RecordInv, IInv
<1>3. Progress(th[t]) /\ HandedOn(th[t])
  BY <1>2 DEF RecordInv, IInv, Tracked
<1>4. /\ SeenInstalled[a] = IF Claimed(t) THEN 0 ELSE dev[a].id
      /\ SeenRecorded[a] = IF Writing(t) THEN NoRow ELSE row[a]
      /\ SeenInstalled'[a] = IF th'[t].app = a /\ Claimed(t)' THEN 0 ELSE dev'[a].id
      /\ SeenRecorded'[a] = IF th'[t].app = a /\ Writing(t)' THEN NoRow ELSE row'[a]
  BY StepAlone, SeenAtWork
<1>5. ASSUME NEW pc \in Pcs, Goto(t, pc)
      PROVE  th'[t].pc = pc /\ th'[t].app = a /\ th'[t].ok = th[t].ok
  BY <1>1, <1>5 DEF Goto, Calls
<1>6. Return(t) => th'[t].pc = "idle"
  BY <1>1 DEF Return, NoCall
<1>7. CASE Inspect(t) \/ Approve(t) \/ Sign(t) \/ CacheClaim(t) \/ Connect(t)
  <2>1. UNCHANGED <<row, dev>> /\ ~Claimed(t) /\ ~Writing(t)
    BY <1>7 DEF Inspect, Approve, Sign, CacheClaim, Connect, Claimed, Writing
  <2>2. CASE Sign(t)
    <3>1. th'[t].pc \in {"idle", "cache"}
      BY <1>1, <1>6, <2>2 DEF Sign, Calls
    <3>2. QED
      BY <1>4, <2>1, <3>1 DEF Claimed, Writing
  <2>3. CASE Inspect(t) \/ Approve(t) \/ CacheClaim(t) \/ Connect(t)
    <3>1. Return(t) \/ (\E pc \in {"approve", "sign", "connect", "claim"} : Goto(t, pc))
      BY <2>3 DEF Inspect, Approve, CacheClaim, Connect
    <3>2. th'[t].pc \in {"idle", "approve", "sign", "connect", "claim"}
      BY <1>5, <1>6, <3>1 DEF Pcs
    <3>3. QED
      BY <1>4, <2>1, <3>2 DEF Claimed, Writing
  <2>4. QED
    BY <1>7, <2>2, <2>3
<1>8. CASE RemoteClaim(t)
  <2>1. th[t].pc = "claim" /\ row' = row
    BY <1>8 DEF RemoteClaim
  <2>2. ~Claimed(t) /\ ~Writing(t)
    BY <2>1 DEF Claimed, Writing
  <2>3. PICK ok \in BOOLEAN : th' = [th EXCEPT ![t].pc = "finish", ![t].ok = ok]
    BY <1>8 DEF RemoteClaim
  <2>4. th'[t].pc = "finish" /\ th'[t].app = a /\ th'[t].ok = ok
    BY <1>1, <2>3 DEF Calls
  <2>5. ok => dev[a].id = 0
    <3>1. ASSUME ok PROVE th' # [th EXCEPT ![t].pc = "finish", ![t].ok = FALSE]
      BY <1>1, <2>4, <3>1 DEF Calls
    <3>2. QED
      BY <1>8, <3>1 DEF RemoteClaim
  <2>6. ~ok => dev' = dev
    <3>1. ASSUME ~ok PROVE th' # [th EXCEPT ![t].pc = "finish", ![t].ok = TRUE]
      BY <1>1, <2>4, <3>1 DEF Calls
    <3>2. QED
      BY <1>8, <3>1 DEF RemoteClaim
  <2>7. Claimed(t)' <=> ok
    BY <2>4 DEF Claimed
  <2>8. ~Writing(t)'
    BY <2>4 DEF Writing
  <2>9. QED
    BY <1>4, <2>1, <2>2, <2>4, <2>5, <2>6, <2>7, <2>8
<1>9. CASE FinishClaiming(t)
  <2>1. UNCHANGED <<row, dev>> /\ th[t].pc = "finish" /\ ~Writing(t) /\ (Claimed(t) <=> th[t].ok)
    BY <1>9 DEF FinishClaiming, Claimed, Writing
  <2>2. CASE th[t].ok
    <3>1. \/ th' = [th EXCEPT ![t].pc = "storeApplication", ![t].data = cached[a]]
          \/ Goto(t, "undo")
      BY <1>9, <2>2 DEF FinishClaiming
    <3>2. th'[t].pc \in {"storeApplication", "undo"} /\ th'[t].app = a
      BY <1>1, <1>5, <3>1 DEF Calls, Pcs
    <3>3. QED
      BY <1>4, <2>1, <2>2, <3>2 DEF Claimed, Writing
  <2>3. CASE ~th[t].ok
    <3>1. th'[t].pc = "idle"
      BY <1>6, <1>9, <2>3 DEF FinishClaiming
    <3>2. QED
      BY <1>4, <2>1, <2>3, <3>1 DEF Claimed, Writing
  <2>4. QED
    BY <2>2, <2>3
<1>10. CASE StoreApplication(t)
  <2>1. UNCHANGED dev /\ Claimed(t) /\ ~Writing(t)
    BY <1>10 DEF StoreApplication, Claimed, Writing
  <2>2. CASE UNCHANGED row /\ Goto(t, "undo")
    <3>1. th'[t].pc = "undo" /\ th'[t].app = a
      BY <1>5, <2>2 DEF Pcs
    <3>2. QED
      BY <1>4, <2>1, <2>2, <3>1 DEF Claimed, Writing
  <2>3. CASE ~row[a].managed /\ Goto(t, "storeCertificate")
    <3>1. th'[t].pc = "storeCertificate" /\ th'[t].app = a
      BY <1>5, <2>3 DEF Pcs
    <3>2. row[a] = NoRow
      BY <1>1, <2>3 DEF Rows
    <3>3. QED
      BY <1>4, <2>1, <3>1, <3>2 DEF Claimed, Writing
  <2>4. QED
    BY <1>10, <2>2, <2>3 DEF StoreApplication
<1>11. CASE StoreCertificate(t)
  <2>1. UNCHANGED dev /\ Claimed(t) /\ Writing(t) /\ (Goto(t, "storeManifest") \/ Goto(t, "remove"))
    BY <1>11 DEF StoreCertificate, Claimed, Writing
  <2>2. th'[t].pc \in {"storeManifest", "remove"} /\ th'[t].app = a
    BY <1>5, <2>1 DEF Pcs
  <2>3. QED
    BY <1>4, <2>1, <2>2 DEF Claimed, Writing
<1>12. CASE StoreManifest(t)
  <2>1. UNCHANGED dev /\ Claimed(t) /\ Writing(t) /\ Goto(t, "remove")
    BY <1>12 DEF StoreManifest, Claimed, Writing
  <2>2. th'[t].pc = "remove" /\ th'[t].app = a
    BY <1>5, <2>1 DEF Pcs
  <2>3. QED
    BY <1>4, <2>1, <2>2 DEF Claimed, Writing
<1>13. CASE RemoveRow(t)
  <2>1. UNCHANGED dev /\ Claimed(t) /\ Writing(t) /\ Goto(t, "undo") /\ row'[a] = NoRow
    BY <1>1, <1>13 DEF RemoveRow, Claimed, Writing
  <2>2. th'[t].pc = "undo" /\ th'[t].app = a
    BY <1>5, <2>1 DEF Pcs
  <2>3. QED
    BY <1>4, <2>1, <2>2 DEF Claimed, Writing
<1>14. CASE Undo(t)
  <2>1. UNCHANGED row /\ Claimed(t) /\ ~Writing(t) /\ th'[t].pc = "idle"
    BY <1>6, <1>14 DEF Undo, Claimed, Writing
  <2>2. dev'[a].id = 0
    BY <1>1, <1>14 DEF Undo, Devices
  <2>3. QED
    BY <1>4, <2>1, <2>2 DEF Claimed, Writing
<1>15. QED
  BY <1>7, <1>8, <1>9, <1>10, <1>11, <1>12, <1>13, <1>14 DEF Step

\* A claim that returns with success is a claim of the service, with a certificate of its own.
LEMMA SuccessIsClaim ==
  ASSUME \A s, t \in Claimers : AgentOf[s] = AgentOf[t],
         RecordInv, Numbered, NEW t \in Claimers, StoreManifest(t), Return(t),
         NEW a \in Apps, th[t].app = a, a \notin strayed'
  PROVE  \E s \in 1 .. (serial - 1) : Service!Claim(a, s)
<1>1. Step(t) /\ UNCHANGED <<serial, dev, strayed>> /\ th[t].pc = "storeManifest"
  BY DEF Step, StoreManifest
<1>2. /\ th \in [Claimers -> Calls] /\ th[t] \in Calls /\ row \in [Apps -> Rows] /\ serial \in Nat
      /\ dev \in [Apps -> Devices] /\ dev[a] \in Devices /\ row[a] \in Rows
  BY DEF RecordInv, IInv, Typed, TypeOK
<1>3. /\ th[t].data = th[t].ser /\ th[t].ser # 0 /\ dev[a].id \in {0, th[t].ser}
      /\ row[a].managed /\ row[a].id = th[t].ser
  BY <1>1 DEF RecordInv, IInv, Tracked, Progress, HandedOn
<1> DEFINE s == th[t].ser
<1>4. s \in 1 .. (serial - 1)
  <2>1. s \in Nat /\ s < serial
    BY <1>2 DEF Numbered, Calls
  <2>2. QED
    BY <1>2, <1>3, <2>1
<1>5. row' = [row EXCEPT ![a] = Service!Record(s)]
  <2>1. ~Goto(t, "remove")
    BY <1>2 DEF Goto, Return, Calls, NoCall
  <2>2. row' = [row EXCEPT ![a].mf = s]
    BY <1>3, <2>1 DEF StoreManifest
  <2>3. row[a] \in [managed : {TRUE}, id : Nat, mf : Nat]
    BY <1>2, <1>3, ManagedRow
  <2>4. row'[a] = [row[a] EXCEPT !.mf = s]
    BY <1>2, <2>2
  <2>5. row'[a] = [managed |-> TRUE, id |-> s, mf |-> s]
    BY <1>3, <2>3, <2>4
  <2>6. row' = [row EXCEPT ![a] = row'[a]]
    BY <1>2, <2>2, <2>4
  <2>7. QED
    BY <2>5, <2>6 DEF Service!Record
<1>6. /\ \A r \in Claimers \ {t} : th'[r] = th[r] /\ th[r].app # a
      /\ th'[t].app # a
      /\ \A b \in Apps \ {a} : row'[b] = row[b] /\ dev'[b] = dev[b]
  <2>1. th'[t] = NoCall
    BY <1>1, StepAlone
  <2>2. QED
    BY <1>1, <2>1, StepAlone, ClaimingAssumption DEF NoCall
<1>7. ASSUME NEW b \in Apps \ {a}
      PROVE  SeenInstalled'[b] = SeenInstalled[b] /\ SeenRecorded'[b] = SeenRecorded[b]
  <2>1. \A r \in Claimers : (th[r].app = b \/ th'[r].app = b) => th'[r] = th[r]
    <3>1. th'[t] = NoCall
      BY <1>1, StepAlone
    <3>2. QED
      BY <1>6, <3>1, ClaimingAssumption DEF NoCall
  <2>2. QED
    BY <1>6, <2>1, SeenStays
<1>8. /\ SeenInstalled[a] = 0 /\ SeenRecorded[a] = NoRow
      /\ SeenInstalled'[a] = dev[a].id /\ SeenRecorded'[a] = Service!Record(s)
  <2>1. Claimed(t) /\ Writing(t)
    BY <1>1 DEF Claimed, Writing
  <2>2. /\ SeenInstalled[a] = IF th[t].app = a /\ Claimed(t) THEN 0 ELSE dev[a].id
        /\ SeenRecorded[a] = IF th[t].app = a /\ Writing(t) THEN NoRow ELSE row[a]
        /\ SeenInstalled'[a] = IF th'[t].app = a /\ Claimed(t)' THEN 0 ELSE dev'[a].id
        /\ SeenRecorded'[a] = IF th'[t].app = a /\ Writing(t)' THEN NoRow ELSE row'[a]
    BY <1>6, SeenAtWork
  <2>3. QED
    BY <1>1, <1>2, <1>5, <1>6, <2>1, <2>2
<1>9. ASSUME NEW b \in Apps PROVE SeenInstalled[b] # s /\ SeenRecorded[b].id # s
  <2>1. CASE b = a
    BY <1>3, <1>8, <2>1 DEF NoRow
  <2>2. CASE b # a
    <3>1. dev[b].id # s /\ row[b].id # s
      BY <1>3, <2>2 DEF Numbered
    <3>2. SeenInstalled[b] \in {0, dev[b].id} /\ SeenRecorded[b] \in {NoRow, row[b]}
      BY DEF SeenInstalled, SeenRecorded
    <3>3. QED
      BY <1>3, <3>1, <3>2 DEF NoRow
  <2>3. QED
    BY <2>1, <2>2
<1>10. /\ SeenInstalled = [b \in Apps |-> SeenInstalled[b]] /\ SeenInstalled' = [b \in Apps |-> SeenInstalled'[b]]
       /\ SeenRecorded = [b \in Apps |-> SeenRecorded[b]] /\ SeenRecorded' = [b \in Apps |-> SeenRecorded'[b]]
  BY DEF SeenInstalled, SeenRecorded
<1>11. SeenRecorded' = [SeenRecorded EXCEPT ![a] = Service!Record(s)]
  BY <1>7, <1>8, <1>10
<1>12. SeenInstalled' = [SeenInstalled EXCEPT ![a] = s] \/ SeenInstalled' = SeenInstalled
  <2>1. SeenInstalled'[a] \in {0, s}
    BY <1>3, <1>8
  <2>2. QED
    BY <1>7, <1>8, <1>10, <2>1
<1>13. ~Service!InUse(s)
  BY <1>9 DEF Service!InUse
<1>14. UNCHANGED <<1 .. (serial - 1), strayed>> /\ a \notin strayed
  BY <1>1
<1>15. Service!Claim(a, s)
  BY <1>8, <1>11, <1>12, <1>13, <1>14 DEF Service!Claim, Service!NoRecord, NoRow
<1>16. QED
  BY <1>4, <1>15

\* Each step of a claim is a step of the service, or nothing of it is seen.
LEMMA StepServes ==
  ASSUME \A s, t \in Claimers : AgentOf[s] = AgentOf[t],
         RecordInv, Numbered, TypeOK', NEW t \in Claimers, Step(t)
  PROVE  [Service!Next]_(Service!vars)
<1> DEFINE a == th[t].app
<1>1. /\ th[t].pc # "idle" /\ a \in Apps
      /\ \A s \in Claimers \ {t} : th'[s] = th[s] /\ th[s].app # a
      /\ \A b \in Apps \ {a} : row'[b] = row[b] /\ dev'[b] = dev[b]
      /\ Return(t) \/ th'[t].app = a
      /\ Return(t) => th'[t] = NoCall
  BY StepAlone
<1>2. strayed' \in {strayed, strayed \cup {a}} /\ strayed' \subseteq Apps /\ serial \in Nat
  BY StepKeepsOthers DEF RecordInv, IInv, Typed, TypeOK
<1>3. ASSUME NEW b \in Apps \ {a}
      PROVE  SeenInstalled'[b] = SeenInstalled[b] /\ SeenRecorded'[b] = SeenRecorded[b]
  <2>1. th'[t].app \in {a, NoApp}
    BY <1>1 DEF NoCall
  <2>2. \A r \in Claimers : (th[r].app = b \/ th'[r].app = b) => th'[r] = th[r]
    BY <1>1, <1>3, <2>1, ClaimingAssumption
  <2>3. QED
    BY <1>1, <2>2, SeenStays
<1>4. /\ SeenInstalled = [b \in Apps |-> SeenInstalled[b]] /\ SeenInstalled' = [b \in Apps |-> SeenInstalled'[b]]
      /\ SeenRecorded = [b \in Apps |-> SeenRecorded[b]] /\ SeenRecorded' = [b \in Apps |-> SeenRecorded'[b]]
  BY DEF SeenInstalled, SeenRecorded
<1>5. ASSUME UNCHANGED <<serial, strayed>>, SeenInstalled'[a] = SeenInstalled[a] /\ SeenRecorded'[a] = SeenRecorded[a]
      PROVE  UNCHANGED Service!vars
  <2>1. SeenInstalled' = SeenInstalled /\ SeenRecorded' = SeenRecorded
    BY <1>3, <1>4, <1>5
  <2>2. QED
    BY <1>5, <2>1 DEF Service!vars
<1>6. CASE Sign(t)
  <2>1. UNCHANGED <<row, dev, strayed>> /\ th[t].pc = "sign"
    BY <1>6 DEF Sign
  <2>2. th'[t].pc \in {"idle", "cache"}
    <3>1. th \in [Claimers -> Calls]
      BY DEF RecordInv, IInv, Typed, TypeOK
    <3>2. QED
      BY <1>1, <1>6, <3>1 DEF Sign, NoCall, Calls
  <2>3. SeenInstalled'[a] = SeenInstalled[a] /\ SeenRecorded'[a] = SeenRecorded[a]
    <3>1. ~Claimed(t) /\ ~Writing(t) /\ ~Claimed(t)' /\ ~Writing(t)'
      BY <2>1, <2>2 DEF Claimed, Writing
    <3>2. \A s \in Claimers \ {t} : th[s].app # a /\ th'[s].app # a
      BY <1>1
    <3>3. QED
      BY <1>1, <2>1, <3>1, <3>2, SeenAtWork
  <2>4. CASE serial' = serial
    BY <1>5, <2>1, <2>3, <2>4
  <2>5. CASE serial' = serial + 1
    <3>1. SeenInstalled' = SeenInstalled /\ SeenRecorded' = SeenRecorded
      BY <1>3, <1>4, <2>3
    <3>2. serial # 0
      BY DEF Numbered
    <3>3. /\ 1 .. (serial' - 1) = (1 .. (serial - 1)) \cup {serial} /\ serial \notin 1 .. (serial - 1)
          /\ serial \in 1 .. (serial' - 1)
      BY <1>2, <2>5, <3>2
    <3>4. Service!Issue(serial)
      BY <2>1, <3>1, <3>3 DEF Service!Issue
    <3>5. QED
      BY <3>3, <3>4 DEF Service!Next
  <2>6. QED
    BY <1>6, <2>4, <2>5 DEF Sign
<1>7. CASE ~Sign(t)
  <2>1. serial' = serial
    BY <1>7 DEF Step, Inspect, Approve, CacheClaim, Connect, RemoteClaim, FinishClaiming, StoreApplication,
                StoreCertificate, StoreManifest, RemoveRow, Undo
  <2>2. CASE a \in strayed'
    <3>1. \A b \in Apps \ strayed' : SeenInstalled'[b] = SeenInstalled[b] /\ SeenRecorded'[b] = SeenRecorded[b]
      BY <1>3, <2>2
    <3>2. Service!Lose
      BY <1>2, <2>1, <3>1 DEF Service!Lose
    <3>3. QED
      BY <3>2 DEF Service!Next
  <2>3. CASE a \notin strayed' /\ StoreManifest(t) /\ Return(t)
    <3>1. \E s \in 1 .. (serial - 1) : Service!Claim(a, s)
      BY <1>1, <2>3, SuccessIsClaim
    <3>2. QED
      BY <1>1, <3>1 DEF Service!Next
  <2>4. CASE a \notin strayed' /\ ~(StoreManifest(t) /\ Return(t))
    <3>1. SeenInstalled'[a] = SeenInstalled[a] /\ SeenRecorded'[a] = SeenRecorded[a]
      BY <1>1, <2>4, StepUnseen
    <3>2. strayed' = strayed
      BY <1>2, <2>4
    <3>3. QED
      BY <1>5, <2>1, <3>1, <3>2
  <2>5. QED
    BY <2>2, <2>3, <2>4
<1>8. QED
  BY <1>6, <1>7

\* So is everything else that happens to applications and rows.
LEMMA OthersServe ==
  ASSUME \A s, t \in Claimers : AgentOf[s] = AgentOf[t],
         RecordInv, TypeOK',
         \/ Crash
         \/ \E t \in Claimers, a \in Apps : BeginClaim(t, a)
         \/ \E a \in Apps : AppStops(a) \/ AppStarts(a) \/ FactoryReset(a) \/ RemoveApplication(a)
  PROVE  [Service!Next]_(Service!vars)
<1>1. /\ dev \in [Apps -> Devices] /\ row \in [Apps -> Rows] /\ th \in [Claimers -> Calls]
      /\ strayed \subseteq Apps /\ strayed' \subseteq Apps
  BY DEF RecordInv, IInv, Typed, TypeOK
<1>2. /\ SeenInstalled = [b \in Apps |-> SeenInstalled[b]] /\ SeenInstalled' = [b \in Apps |-> SeenInstalled'[b]]
      /\ SeenRecorded = [b \in Apps |-> SeenRecorded[b]] /\ SeenRecorded' = [b \in Apps |-> SeenRecorded'[b]]
  BY DEF SeenInstalled, SeenRecorded
<1>3. ASSUME serial' = serial, strayed' = strayed,
             \A b \in Apps : SeenInstalled'[b] = SeenInstalled[b] /\ SeenRecorded'[b] = SeenRecorded[b]
      PROVE  UNCHANGED Service!vars
  <2>1. SeenInstalled' = SeenInstalled /\ SeenRecorded' = SeenRecorded
    BY <1>2, <1>3
  <2>2. QED
    BY <1>3, <2>1 DEF Service!vars
<1>4. ASSUME serial' = serial, strayed \subseteq strayed',
             \A b \in Apps \ strayed' : SeenInstalled'[b] = SeenInstalled[b] /\ SeenRecorded'[b] = SeenRecorded[b]
      PROVE  Service!Next
  <2>1. Service!Lose
    BY <1>1, <1>4 DEF Service!Lose
  <2>2. QED
    BY <2>1 DEF Service!Next
<1>5. CASE Crash
  <2>1. serial' = serial /\ strayed \subseteq strayed' /\ \A t \in Claimers : th'[t] = NoCall
    BY <1>5 DEF Crash
  <2>2. ASSUME NEW b \in Apps \ strayed'
        PROVE  SeenInstalled'[b] = SeenInstalled[b] /\ SeenRecorded'[b] = SeenRecorded[b]
    <3>1. /\ UNCHANGED <<row, dev>>
          /\ \A t \in Claimers : th[t].app # b
      BY <1>5, <2>2 DEF Crash
    <3>2. \A t \in Claimers : th'[t].app # b
      BY <2>1, ClaimingAssumption DEF NoCall
    <3>3. QED
      BY <3>1, <3>2, SeenStays
  <2>3. QED
    BY <1>4, <2>1, <2>2
<1>6. ASSUME NEW t \in Claimers, NEW a \in Apps, BeginClaim(t, a)
      PROVE  UNCHANGED Service!vars
  <2>1. /\ th[t].pc = "idle" /\ a \notin pending[AgentOf[t]] /\ th'[t].app = a /\ th'[t].pc = "inspect"
        /\ \A s \in Claimers \ {t} : th'[s] = th[s]
        /\ UNCHANGED <<serial, row, dev, strayed>>
    BY <1>1, <1>6 DEF BeginClaim, NoCall
  <2>2. th[t].app = NoApp
    BY <2>1 DEF RecordInv, IdleIsNoCall, NoCall
  <2>3. \A s \in Claimers \ {t} : th[s].app # a /\ th'[s].app # a
    BY <2>1, ClaimingAssumption DEF RecordInv, IInv, Exclusive, IdleIsNoCall, NoCall
  <2>4. ASSUME NEW b \in Apps
        PROVE  SeenInstalled'[b] = SeenInstalled[b] /\ SeenRecorded'[b] = SeenRecorded[b]
    <3>1. CASE b = a
      <4>1. ~Claimed(t) /\ ~Writing(t) /\ ~Claimed(t)' /\ ~Writing(t)'
        BY <2>1 DEF Claimed, Writing
      <4>2. QED
        BY <2>1, <2>3, <3>1, <4>1, SeenAtWork
    <3>2. CASE b # a
      <4>1. \A s \in Claimers : (th[s].app = b \/ th'[s].app = b) => th'[s] = th[s]
        BY <2>1, <2>2, <3>2, ClaimingAssumption
      <4>2. QED
        BY <2>1, <4>1, SeenStays
    <3>3. QED
      BY <3>1, <3>2
  <2>5. QED
    BY <1>3, <2>1, <2>4
<1>7. ASSUME NEW a \in Apps, AppStops(a) \/ AppStarts(a)
      PROVE  UNCHANGED Service!vars
  <2>1. UNCHANGED <<serial, row, th, strayed>>
    BY <1>7 DEF AppStops, AppStarts
  <2>2. \A b \in Apps : dev'[b].id = dev[b].id
    BY <1>1, <1>7 DEF AppStops, AppStarts, Devices
  <2>3. SeenInstalled' = SeenInstalled /\ SeenRecorded' = SeenRecorded
    BY <2>1, <2>2 DEF SeenInstalled, SeenRecorded, Claimed, Writing
  <2>4. QED
    BY <2>1, <2>3 DEF Service!vars
<1>8. ASSUME NEW a \in Apps, FactoryReset(a)
      PROVE  Service!Reset(a)
  <2>1. UNCHANGED <<serial, row, th, strayed>>
    BY <1>8 DEF FactoryReset
  <2>2. \A b \in Apps : dev'[b].id = IF b = a THEN 0 ELSE dev[b].id
    BY <1>1, <1>8 DEF FactoryReset, Devices
  <2>3. SeenRecorded' = SeenRecorded
    BY <2>1 DEF SeenRecorded, Writing
  <2>4. \A b \in Apps : SeenInstalled'[b] = IF b = a THEN 0 ELSE SeenInstalled[b]
    BY <2>1, <2>2 DEF SeenInstalled, Claimed
  <2>5. SeenInstalled' = [SeenInstalled EXCEPT ![a] = 0]
    BY <1>2, <2>4
  <2>6. QED
    BY <2>1, <2>3, <2>5 DEF Service!Reset
<1>9. ASSUME NEW a \in Apps, RemoveApplication(a)
      PROVE  [Service!Next]_(Service!vars)
  <2>1. /\ UNCHANGED <<serial, th, dev>> /\ row[a].managed /\ row' = [row EXCEPT ![a] = NoRow]
        /\ strayed' = IF row[a].id # 0 THEN strayed \cup {a} ELSE strayed
    BY <1>9 DEF RemoveApplication
  <2>2. ASSUME NEW b \in Apps \ {a}
        PROVE  SeenInstalled'[b] = SeenInstalled[b] /\ SeenRecorded'[b] = SeenRecorded[b]
    BY <1>1, <2>1, <2>2, SeenStays
  <2>3. CASE a \in strayed'
    BY <1>4, <2>1, <2>2, <2>3
  <2>4. CASE a \notin strayed'
    <3>1. row[a].id = 0 /\ ~Whole(a) /\ Tracked(a) /\ strayed' = strayed
      BY <2>1, <2>4 DEF Whole, RecordInv
    <3>2. PICK t \in Claimers : th[t].app = a
      BY <3>1 DEF Tracked, Quiet
    <3>3. Progress(th[t])
      BY <3>1, <3>2 DEF Tracked
    <3>4. th[t].pc \in {"storeCertificate", "storeManifest", "remove"}
      BY <3>1, <3>2, <3>3 DEF Progress
    <3>5. SeenRecorded[a] = NoRow /\ SeenRecorded'[a] = NoRow
      BY <2>1, <3>2, <3>4 DEF SeenRecorded, Writing
    <3>6. SeenInstalled' = SeenInstalled
      BY <2>1 DEF SeenInstalled, Claimed
    <3>7. QED
      BY <1>3, <2>1, <2>2, <3>1, <3>5, <3>6
  <2>5. QED
    BY <2>3, <2>4
<1>10. QED
  BY <1>4, <1>5, <1>6, <1>7, <1>8, <1>9 DEF Service!Next

\* To everybody else a claim of the one agent is one step (SecurityAgentImpl.cc:395): the
\* application is claimed and recorded, with a certificate of its own, or as it was before,
\* whatever fails, unless it is lost.  The mapping hides what a claim under way has installed
\* and written; that nobody else writes it meanwhile, and that undoing leaves no trace, is RecordInv.
THEOREM ClaimIsOneStep ==
  ASSUME \A s, t \in Claimers : AgentOf[s] = AgentOf[t]
  PROVE  Spec => ClaimsAreAtomic
<1>1. Init => RecordInv /\ Numbered /\ Service!Init
  <2> SUFFICES ASSUME Init PROVE RecordInv /\ Numbered /\ Service!Init
    OBVIOUS
  <2>1. /\ serial = 1 /\ strayed = {} /\ \A t \in Claimers : th[t] = NoCall
        /\ \A a \in Apps : row[a] = NoRow /\ dev[a].id = 0
    BY DEF Init
  <2>2. \A t \in Claimers : ~Claimed(t) /\ ~Writing(t) /\ th[t].ser = 0
    BY <2>1 DEF Claimed, Writing, NoCall
  <2>3. Numbered
    BY <2>1, <2>2 DEF Numbered, NoRow
  <2>4. SeenInstalled = [a \in Apps |-> 0] /\ SeenRecorded = [a \in Apps |-> NoRow]
    BY <2>1, <2>2 DEF SeenInstalled, SeenRecorded
  <2>5. 1 .. (serial - 1) = {}
    BY <2>1
  <2>6. Service!Init
    BY <2>1, <2>4, <2>5 DEF Service!Init, Service!NoRecord, NoRow
  <2>7. QED
    BY <2>3, <2>6, RecordInvInit
<1>2. RecordInv /\ Numbered /\ [Next]_vars => RecordInv' /\ Numbered'
  BY RecordInvNext, NumberedNext
<1>3. RecordInv /\ RecordInv' /\ Numbered /\ [Next]_vars => [Service!Next]_(Service!vars)
  <2> SUFFICES ASSUME RecordInv, RecordInv', Numbered, [Next]_vars
               PROVE  [Service!Next]_(Service!vars)
    OBVIOUS
  <2>1. TypeOK'
    BY DEF RecordInv, IInv, Typed
  <2>2. ASSUME NEW t \in Claimers, Step(t) PROVE [Service!Next]_(Service!vars)
    BY <2>1, <2>2, StepServes
  <2>3. CASE UNCHANGED vars
    BY <2>3 DEF vars, Service!vars, SeenInstalled, SeenRecorded, Claimed, Writing
  <2>4. QED
    BY <2>1, <2>2, <2>3, OthersServe DEF Next
<1>4. QED
  BY <1>1, <1>2, <1>3, PTL DEF Spec, ClaimsAreAtomic, Service!Spec

==============================================================================
