----------------------------- MODULE ConsoleProofs -----------------------------
(***************************************************************************)
(* Proofs about Console for any sets of objects and threads and any bounds:*)
(* type correctness, the certificates and their owners, the key that       *)
(* signed them, the rights that were accepted, and the serial numbers.     *)
(***************************************************************************)
EXTENDS Console, FiniteSetTheorems, TLAPS

Pcs == Starting \cup Storing \cup Asking \cup {"idle", "ready", "serial", "sign"}
Nexts == {"idle", "register", "agent", "member", "identity", "claim"}

\* Where a thread is busy with one application.
Placed == Asking \cup {"member", "identity", "manifest", "row", "certify", "describe", "undo"}

AnyWorks == [pc : Pcs, next : Nexts, app : Apps \cup {Nobody}, group : Groups \cup {Nobody},
             id : Identities \cup {Nobody}, manifest : Manifests, serial : Serials, meta : Meta,
             todo : SUBSET Apps]

Works == {w \in AnyWorks :
            w.app \in Apps \/ (w.pc \notin Placed /\ w.next \notin {"member", "identity", "claim"})}

TablesTyped ==
  /\ groups \in [Groups -> {"none", "own", "foreign"}] /\ identities \subseteq Identities
  /\ apps \in [Apps -> Rows]
  /\ idCerts \in [Apps -> [id : Identities \cup {Nobody}, key : Keys]]
  /\ members \in [Apps -> [Groups -> Keys]]

StateTyped ==
  /\ counter \in Serials \cup {-1} /\ (open => counter # -1)
  /\ file \in [part : {"none", "empty", "header", "private", "whole"}, key : Keys]
  /\ file.part = "none" => file.key = 0
  /\ selfClaimed \in [claimed : BOOLEAN, member : BOOLEAN]
  /\ open \in BOOLEAN /\ pkey \in Keys
  /\ mutex \in Threads \cup {Nobody} /\ leak \in Threads \cup {Nobody}
  /\ signed \in Seq(Serials)
  /\ spent \in [calls : 0 .. MaxCalls, stops : 0 .. MaxStops]

HeardTyped ==
  /\ keys \subseteq Apps /\ about \in [Apps -> Names \cup {NoName}]
  /\ updates \in Seq(Updates) /\ Len(updates) <= MaxQueue
  /\ manifest \in [Apps -> Manifests] /\ accepted \in [Apps -> SUBSET Manifests]

Typed == TablesTyped /\ StateTyped /\ HeardTyped /\ th \in [Threads -> Works]

\* While the process starts, no other thread does anything.
Quiet == ~Up => \A t \in Others : th[t].pc = "idle"

\* Before the first key pair there is no certificate.
Fresh ==
  file.part = "none" =>
    /\ pkey = 0 /\ th[Main].pc \in {"down", "open"}
    /\ \A a \in Apps : idCerts[a] = NoCert /\ \A g \in Groups : members[a][g] = 0

KeyInv == CertsVerify /\ Fresh

\* The rights that a thread carries are accepted, once the user has answered.
ThreadRights ==
  \A t \in Threads :
    th[t].pc \notin {"ask", "decide"} /\ th[t].app \in Apps
      => th[t].manifest = 0 \/ th[t].manifest \in accepted[th[t].app]

RightsInv == OnlyAcceptedRights /\ ThreadRights

Limit == 2 ^ Width
Signing == {t \in Threads : th[t].pc \in {"serial", "sign"}}

\* The number of the i-th certificate.
Number(i) == IF i < Limit THEN i ELSE i - Limit

\* The numbers were taken one after the other, and the next one is in the table.
Numbered ==
  /\ \A i \in 1 .. Len(signed) : signed[i] = Number(i)
  /\ IF counter = -1 THEN signed = <<>> ELSE counter = Number(Len(signed) + 1)

\* A thread that has read the counter keeps others from it.
Locked == \A t \in Threads : th[t].pc = "sign" => mutex = t /\ th[t].serial = counter /\ counter # -1

\* There is a number for each certificate that is about to be signed.
Room == Len(signed) + Cardinality(Signing) <= Limit

\* The agent's own certificates, of this process.
Taken ==
  IF th[Main].pc = "agent" THEN 2
  ELSE IF th[Main].pc = "register" \/ th[Main].next = "agent" THEN 1 ELSE 0

Registering ==
  \/ th[Main].pc \in {"register", "agent"}
  \/ th[Main].pc \in {"serial", "sign"} /\ th[Main].next \in {"register", "agent"}

Early == {"down", "open", "header", "private", "public", "ca"}

\* Two for each process that has not got as far as to claim itself.
StartRoom ==
  /\ th[Main].next \in {"register", "agent"} => th[Main].pc \in {"serial", "sign", "register", "agent", "install"}
  /\ IF selfClaimed.claimed THEN ~Registering
     ELSE /\ Registering \/ th[Main].pc \in Early
          /\ Len(signed) <= 2 * spent.stops + Taken

SerialInv == Numbered /\ Locked /\ Room /\ StartRoom

------------------------------------------------------------------------------
(* Types *)

LEMMA NoWorkTyped ==
  NoWork \in Works /\ \A pc \in Pcs \ Placed : [NoWork EXCEPT !.pc = pc] \in Works
BY RegistryAssumption
DEF NoWork, Works, AnyWorks, Pcs, Nexts, Placed, Asking, Manifests, Serials, NoMeta, Meta

LEMMA GoesTyped ==
  ASSUME Typed, NEW t \in Threads, NEW pc \in Pcs, Goes(t, pc), th[t].app \in Apps \/ pc \notin Placed
  PROVE  th' \in [Threads -> Works]
<1>1. [th[t] EXCEPT !.pc = pc] \in Works
  BY DEF Typed, Works, AnyWorks
<1> QED
  BY <1>1 DEF Typed, Goes

LEMMA EndsTyped ==
  ASSUME Typed, NEW t \in Threads, Ends(t)
  PROVE  th' \in [Threads -> Works]
<1>1. Idle(t) \in Pcs \ Placed
  BY DEF Idle, Pcs, Placed, Asking
<1> QED
  BY <1>1, NoWorkTyped DEF Ends, Does, Typed

LEMMA TypedIsTypeOK == Typed => TypeOK
<1> SUFFICES ASSUME Typed PROVE TypeOK
  OBVIOUS
<1>1. \A t \in Threads : th[t] \in Works
  BY DEF Typed
<1>2. \A t \in Threads :
       /\ th[t].pc \in Starting \cup Storing \cup Asking \cup {"idle", "ready", "serial", "sign"}
       /\ th[t].next \in {"idle", "register", "agent", "member", "identity", "claim"}
       /\ th[t].app \in Apps \cup {Nobody} /\ th[t].group \in Groups \cup {Nobody}
       /\ th[t].id \in Identities \cup {Nobody} /\ th[t].manifest \in Manifests
       /\ th[t].serial \in Serials /\ th[t].meta \in Meta /\ th[t].todo \subseteq Apps
  BY <1>1 DEF Works, AnyWorks, Pcs, Nexts
<1> QED
  BY <1>2 DEF Typed, TablesTyped, StateTyped, HeardTyped, TypeOK

LEMMA RowTyped == NoRow \in Rows /\ NoCert \in [id : Identities \cup {Nobody}, key : Keys] /\ 0 \in Keys
BY RegistryAssumption DEF NoRow, Rows, NoCert, Keys, NoMeta, Meta, Manifests

LEMMA InitTyped == Init => Typed
<1> SUFFICES ASSUME Init PROVE Typed
  OBVIOUS
<1> USE RegistryAssumption, ConsoleAssumption DEF Init, RegistryInit
<1>1. \A t \in Threads : [NoWork EXCEPT !.pc = IF t = Main THEN "down" ELSE "idle"] \in Works
  BY NoWorkTyped DEF Pcs, Starting, Placed, Asking
<1>2. th \in [Threads -> Works]
  BY <1>1 DEF AtStart
<1>3. TablesTyped
  BY RowTyped DEF TablesTyped
<1>4. /\ counter \in Serials \cup {-1} /\ (open => counter # -1)
      /\ spent \in [calls : 0 .. MaxCalls, stops : 0 .. MaxStops]
      /\ signed \in Seq(Serials)
  OBVIOUS
<1>5. /\ file \in [part : {"none", "empty", "header", "private", "whole"}, key : Keys]
      /\ file.part = "none" => file.key = 0
  BY RowTyped
<1>6. open \in BOOLEAN /\ pkey \in Keys /\ mutex \in Threads \cup {Nobody} /\ leak \in Threads \cup {Nobody}
  BY RowTyped
<1>7. selfClaimed \in [claimed : BOOLEAN, member : BOOLEAN]
  OBVIOUS
<1>8. HeardTyped
  BY DEF HeardTyped, Manifests
<1> QED
  BY <1>2, <1>3, <1>4, <1>5, <1>6, <1>7, <1>8 DEF StateTyped, Typed

\* What the start of a process changes has its type.
LEMMA StartTyped ==
  ASSUME Typed, Start
  PROVE  StateTyped' /\ th' \in [Threads -> Works]
<1> USE RegistryAssumption DEF Threads
<1>1. CASE OpenStorage
  <2>1. th' \in [Threads -> Works]
    BY <1>1, GoesTyped DEF OpenStorage, Pcs, Starting, Placed, Asking
  <2> QED
    BY <1>1, <2>1 DEF OpenStorage, InitSerialNumber, Typed, StateTyped, Serials, history
<1>2. CASE InitCa
  <2>1. th' \in [Threads -> Works]
    BY <1>2, GoesTyped DEF InitCa, Pcs, Starting, Placed, Asking
  <2> QED
    BY <1>2, <2>1 DEF InitCa, Typed, StateTyped, history, database, Keys
<1>3. CASE NoCa
  <2>1. th' \in [Threads -> Works]
    BY <1>3, GoesTyped DEF NoCa, Pcs, Starting, Placed, Asking
  <2> QED
    BY <1>3, <2>1 DEF NoCa, Typed, StateTyped, history, database, disk
<1>4. CASE WriteKeys
  <2>1. th' \in [Threads -> Works]
    BY <1>4, GoesTyped DEF WriteKeys, Pcs, Starting, Placed, Asking
  <2>2. UNCHANGED <<counter, selfClaimed, open, mutex, leak, signed, spent>>
    BY <1>4 DEF WriteKeys, history, database
  <2>3. \E part \in {"header", "private", "whole"} : file' = [file EXCEPT !.part = part]
    BY <1>4 DEF WriteKeys
  <2>4. pkey' \in {pkey, file.key} /\ file.key \in Keys
    BY <1>4 DEF WriteKeys, Typed, StateTyped
  <2>5. file' \in [part : {"none", "empty", "header", "private", "whole"}, key : Keys] /\ file'.part # "none"
    BY <2>3 DEF Typed, StateTyped
  <2> QED
    BY <2>1, <2>2, <2>4, <2>5 DEF Typed, StateTyped
<1>5. CASE InitAgent
  <2>1. [NoWork EXCEPT !.next = "register", !.pc = "serial"] \in Works
    BY NoWorkTyped DEF Works, AnyWorks, Nexts, NoWork, Pcs, Placed, Asking
  <2>2. th' \in [Threads -> Works]
    BY <1>5, <2>1, GoesTyped DEF InitAgent, Does, Typed, NoWork, Pcs, Starting, Placed, Asking
  <2> QED
    BY <1>5, <2>2 DEF InitAgent, Typed, StateTyped, history, database, disk, memory
<1>6. CASE RegisterAgent
  <2>1. [NoWork EXCEPT !.next = "agent", !.pc = "serial"] \in Works
    BY NoWorkTyped DEF Works, AnyWorks, Nexts, NoWork, Pcs, Placed, Asking
  <2>2. th' \in [Threads -> Works]
    BY <1>6, <2>1 DEF RegisterAgent, Does, Typed, NoWork
  <2> QED
    BY <1>6, <2>2 DEF RegisterAgent, Typed, StateTyped, history, database, disk, memory
<1>7. CASE ClaimSelf
  <2>1. th' \in [Threads -> Works]
    BY <1>7, NoWorkTyped, GoesTyped DEF ClaimSelf, Does, Typed, Pcs, Starting, Placed, Asking
  <2> QED
    BY <1>7, <2>1 DEF ClaimSelf, Typed, StateTyped, history, database, memory
<1> QED
  BY <1>1, <1>2, <1>3, <1>4, <1>5, <1>6, <1>7 DEF Start

\* A row stays a row when one of its fields changes.
LEMMA RowsTyped ==
  ASSUME apps \in [Apps -> Rows], NEW a
  PROVE  /\ \A s \in {"ok", "pending", "will_reset"} : [apps EXCEPT ![a].sync = s] \in [Apps -> Rows]
         /\ \A m \in Meta : [apps EXCEPT ![a].meta = m] \in [Apps -> Rows]
         /\ \A m \in Manifests : [apps EXCEPT ![a].manifest = m] \in [Apps -> Rows]
         /\ [apps EXCEPT ![a] = NoRow] \in [Apps -> Rows]
         /\ [apps EXCEPT ![a] = [NoRow EXCEPT !.stored = TRUE]] \in [Apps -> Rows]
<1>1. ASSUME a \notin Apps, NEW r PROVE [apps EXCEPT ![a] = r] = apps
  BY <1>1
<1>2. ASSUME a \notin Apps
      PROVE  /\ \A s : [apps EXCEPT ![a].sync = s] = apps
             /\ \A m : [apps EXCEPT ![a].meta = m] = apps
             /\ \A m : [apps EXCEPT ![a].manifest = m] = apps
  BY <1>2
<1>3. ASSUME a \in Apps
      PROVE  /\ \A s \in {"ok", "pending", "will_reset"} : [apps[a] EXCEPT !.sync = s] \in Rows
             /\ \A m \in Meta : [apps[a] EXCEPT !.meta = m] \in Rows
             /\ \A m \in Manifests : [apps[a] EXCEPT !.manifest = m] \in Rows
  BY <1>3 DEF Rows
<1>4. NoRow \in Rows /\ [NoRow EXCEPT !.stored = TRUE] \in Rows
  BY RowTyped DEF Rows
<1> QED
  BY <1>1, <1>2, <1>3, <1>4

\* What a thread has in hand while it marks applications.
LEMMA MarkWork ==
  ASSUME NEW pc \in Marking, NEW a \in Apps \cup {Nobody}, NEW s \in SUBSET Apps
  PROVE  LET w == [NoWork EXCEPT !.app = a, !.todo = s]
         IN  w \in AnyWorks /\ [w EXCEPT !.pc = pc] \in Works /\ w.next = "idle" /\ w.manifest = 0
<1> DEFINE w == [NoWork EXCEPT !.app = a, !.todo = s]
<1>1. NoWork \in AnyWorks /\ NoWork.next = "idle" /\ NoWork.manifest = 0
  BY NoWorkTyped DEF Works, NoWork
<1>2. w \in AnyWorks /\ w.next = "idle" /\ w.manifest = 0
  BY <1>1 DEF AnyWorks
<1>3. pc \in Pcs \ Placed
  BY DEF Marking, Pcs, Storing, Placed, Asking
<1>4. [w EXCEPT !.pc = pc] \in AnyWorks /\ [w EXCEPT !.pc = pc].pc = pc /\ [w EXCEPT !.pc = pc].next = "idle"
  BY <1>2, <1>3 DEF AnyWorks
<1> QED
  BY <1>2, <1>3, <1>4 DEF Works

\* One step of that: the state of an application changes, or none does.
LEMMA MarksDo ==
  ASSUME Typed, NEW t \in Threads, Marks(t)
  PROVE  /\ th[t].pc \in Marking
         /\ UNCHANGED <<groups, identities, idCerts, members, counter, file, selfClaimed, open, pkey, mutex,
                        signed, spent>>
         /\ leak' \in Threads \cup {Nobody}
         /\ \/ apps' = apps
            \/ \E a \in Apps, s \in {"pending", "will_reset"} : apps' = [apps EXCEPT ![a].sync = s]
         /\ \/ Ends(t)
            \/ \E pc \in Marking, a \in Apps \cup {Nobody}, s \in SUBSET Apps :
                 Does(t, pc, [NoWork EXCEPT !.app = a, !.todo = s])
<1> DEFINE moves == \/ Ends(t)
                    \/ \E pc \in Marking, a \in Apps \cup {Nobody}, s \in SUBSET Apps :
                         Does(t, pc, [NoWork EXCEPT !.app = a, !.todo = s])
           sets == \/ apps' = apps
                   \/ \E a \in Apps, s \in {"pending", "will_reset"} : apps' = [apps EXCEPT ![a].sync = s]
           rest == UNCHANGED <<groups, identities, idCerts, members, counter, file, selfClaimed, open, pkey,
                               mutex, signed, spent>>
<1>1. th[t].todo \in SUBSET Apps /\ th[t].app \in Apps \cup {Nobody}
  BY DEF Typed, Works, AnyWorks
<1>2. apps \in [Apps -> Rows] /\ leak \in Threads \cup {Nobody}
  BY DEF Typed, TablesTyped, StateTyped
<1>3. ASSUME NEW s PROVE [NoWork EXCEPT !.todo = s] = [NoWork EXCEPT !.app = Nobody, !.todo = s]
  <2>1. NoWork = [NoWork EXCEPT !.app = Nobody]
    BY DEF NoWork
  <2> QED
    BY <2>1
<1>4. ASSUME NEW pc \in Marking, NEW s \in SUBSET Apps, Does(t, pc, [NoWork EXCEPT !.todo = s]) PROVE moves
  BY <1>3, <1>4
<1>5. ASSUME NEW a \in Apps \cup {Nobody}, NEW s \in {"pending", "will_reset"}, NEW pc \in Marking,
             UpdateState(t, a, s, pc)
      PROVE  moves /\ sets /\ rest /\ leak' \in Threads \cup {Nobody}
  <2>1. th[t].todo \ {a} \in SUBSET Apps
    BY <1>1
  <2>2. moves
    BY <1>4, <1>5, <2>1 DEF UpdateState
  <2>3. a \notin Apps => [apps EXCEPT ![a].sync = s] = apps
    BY <1>2
  <2>4. sets
    BY <1>5, <2>3 DEF UpdateState
  <2>5. rest /\ leak' \in Threads \cup {Nobody}
    BY <1>2, <1>5 DEF UpdateState, history
  <2> QED
    BY <2>2, <2>4, <2>5
<1>6. CASE ResetApplication(t)
  <2>1. PICK a \in th[t].todo : UpdateState(t, a, "will_reset", "reset")
    BY <1>6 DEF ResetApplication
  <2>2. a \in Apps
    BY <1>1
  <2>3. th[t].pc \in Marking /\ "reset" \in Marking
    BY <1>6 DEF ResetApplication, Marking
  <2> QED
    BY <1>5, <2>1, <2>2, <2>3
<1>7. CASE StorePending(t)
  <2>1. UpdateState(t, th[t].app, "pending", "sync") /\ th[t].pc \in Marking /\ "sync" \in Marking
    BY <1>7 DEF StorePending, Marking
  <2> QED
    BY <1>1, <1>5, <2>1
<1>8. CASE ApplicationUpdated(t)
  <2>1. PICK a \in th[t].todo :
          \/ Ends(t) \/ Does(t, "pend", [NoWork EXCEPT !.app = a, !.todo = th[t].todo])
          \/ Does(t, "sync", [NoWork EXCEPT !.todo = th[t].todo \ {a}])
    BY <1>8 DEF ApplicationUpdated
  <2>2. a \in Apps /\ th[t].todo \ {a} \in SUBSET Apps /\ {"pend", "sync"} \subseteq Marking
    BY <1>1 DEF Marking
  <2>3. moves
    BY <1>1, <1>4, <2>1, <2>2
  <2>4. rest /\ apps' = apps /\ leak' = leak /\ th[t].pc \in Marking
    BY <1>8 DEF ApplicationUpdated, Marking, disk, database, tables, memory, history
  <2> QED
    BY <1>2, <2>3, <2>4
<1>9. CASE Marked(t)
  <2>1. rest /\ apps' = apps /\ leak' = leak /\ th[t].pc \in Marking /\ Ends(t)
    BY <1>9 DEF Marked, Marking, disk, database, tables, memory, history
  <2> QED
    BY <1>2, <2>1
<1> QED
  BY <1>6, <1>7, <1>8, <1>9 DEF Marks

LEMMA StepsTyped ==
  ASSUME Typed, NEW t \in Threads, Steps(t)
  PROVE  TablesTyped' /\ StateTyped' /\ th' \in [Threads -> Works]
<1> USE RegistryAssumption
<1>1. th[t] \in Works /\ th[t] \in AnyWorks
  BY DEF Typed, Works
<1>2. th[t].next \in Pcs /\ (th[t].app \in Apps \/ th[t].next \notin Placed)
  BY <1>1 DEF Works, AnyWorks, Nexts, Pcs, Starting, Storing, Placed, Asking
<1>3. CASE ReadSerial(t)
  <2>1. open => [th[t] EXCEPT !.serial = counter, !.pc = "sign"] \in Works
    BY <1>1 DEF Typed, StateTyped, Works, AnyWorks, Pcs, Placed, Asking
  <2>2. th' \in [Threads -> Works]
    BY <1>2, <1>3, <2>1, GoesTyped DEF ReadSerial, Typed
  <2> QED
    BY <1>3, <2>2 DEF ReadSerial, Typed, TablesTyped, StateTyped, history, disk, database, tables
<1>4. CASE SignCertificate(t)
  <2>1. th' \in [Threads -> Works]
    BY <1>2, <1>4, GoesTyped DEF SignCertificate
  <2>2. th[t].serial \in Serials /\ (th[t].serial + 1) % 2 ^ Width \in Serials
    BY <1>1 DEF AnyWorks, Serials
  <2>3. signed' \in Seq(Serials)
    BY <1>4, <2>2 DEF SignCertificate, Typed, StateTyped
  <2>4. -1 \notin Serials
    BY DEF Serials
  <2> QED
    BY <1>4, <2>1, <2>2, <2>3, <2>4 DEF SignCertificate, Typed, TablesTyped, StateTyped, tables
<1>5. CASE Marks(t)
  <2>1. th' \in [Threads -> Works]
    <3>1. ASSUME NEW pc \in Marking, NEW a \in Apps \cup {Nobody}, NEW s \in SUBSET Apps,
                 Does(t, pc, [NoWork EXCEPT !.app = a, !.todo = s])
          PROVE  th' \in [Threads -> Works]
      <4>1. [[NoWork EXCEPT !.app = a, !.todo = s] EXCEPT !.pc = pc] \in Works
        BY MarkWork
      <4> QED
        BY <3>1, <4>1 DEF Does, Typed
    <3> QED
      BY <1>5, <3>1, MarksDo, EndsTyped
  <2>2. apps' \in [Apps -> Rows]
    <3>1. apps \in [Apps -> Rows]
      BY DEF Typed, TablesTyped
    <3>2. ASSUME NEW a \in Apps, NEW s \in {"pending", "will_reset"}, apps' = [apps EXCEPT ![a].sync = s]
          PROVE  apps' \in [Apps -> Rows]
      <4>1. [apps EXCEPT ![a].sync = s] \in [Apps -> Rows]
        BY <3>1, RowsTyped
      <4> QED
        BY <3>2, <4>1
    <3> QED
      BY <1>5, <3>1, <3>2, MarksDo
  <2> QED
    BY <1>5, <2>1, <2>2, MarksDo DEF Typed, TablesTyped, StateTyped
<1>6. ASSUME th[t].pc \in Placed
      PROVE  /\ th[t].app \in Apps
             /\ Does(t, "sync", [NoWork EXCEPT !.todo = {th[t].app}]) => th' \in [Threads -> Works]
  <2>1. th[t].app \in Apps
    BY <1>1, <1>6 DEF Works
  <2>2. [NoWork EXCEPT !.todo = {th[t].app}, !.pc = "sync"] \in Works
    <3> DEFINE w == [NoWork EXCEPT !.todo = {th[t].app}, !.pc = "sync"]
    <3>1. w \in AnyWorks
      <4>1. NoWork \in AnyWorks
        BY NoWorkTyped DEF Works
      <4>2. "sync" \in Pcs /\ {th[t].app} \in SUBSET Apps
        BY <2>1 DEF Pcs, Storing, Marking
      <4> QED
        BY <4>1, <4>2 DEF AnyWorks
    <3>2. w.pc = "sync" /\ w.next = "idle"
      BY DEF NoWork
    <3> QED
      BY <3>1, <3>2 DEF Works, Placed, Asking
  <2> QED
    BY <2>1, <2>2 DEF Does, Typed, NoWork
<1>7. CASE StoreMembership(t)
  <2>1. th' \in [Threads -> Works]
    BY <1>6, <1>7, EndsTyped DEF StoreMembership, Placed
  <2>2. members' \in [Apps -> [Groups -> Keys]]
    <3>1. th[t].app \in Apps
      BY <1>6, <1>7 DEF StoreMembership, Placed
    <3>2. file.key \in Keys /\ members \in [Apps -> [Groups -> Keys]]
      BY DEF Typed, TablesTyped, StateTyped
    <3>3. [members EXCEPT ![th[t].app][th[t].group] = file.key] \in [Apps -> [Groups -> Keys]]
      BY <3>1, <3>2
    <3> QED
      BY <1>7, <3>2, <3>3 DEF StoreMembership, SigningKey
  <2> QED
    BY <1>7, <2>1, <2>2 DEF StoreMembership, Typed, TablesTyped, StateTyped, memory, history
<1>8. CASE StoreApplication(t)
  <2>1. th' \in [Threads -> Works]
    BY <1>6, <1>8, EndsTyped, GoesTyped DEF StoreApplication, Placed, Pcs, Storing
  <2>2. apps' \in [Apps -> Rows]
    <3>1. \/ UNCHANGED apps
          \/ apps' = [apps EXCEPT ![th[t].app] = [NoRow EXCEPT !.stored = TRUE]]
      BY <1>8 DEF StoreApplication
    <3>2. apps \in [Apps -> Rows]
      BY DEF Typed, TablesTyped
    <3>3. [apps EXCEPT ![th[t].app] = [NoRow EXCEPT !.stored = TRUE]] \in [Apps -> Rows]
      BY <3>2, RowsTyped
    <3> QED
      BY <3>1, <3>2, <3>3
  <2> QED
    BY <1>8, <2>1, <2>2 DEF StoreApplication, Typed, TablesTyped, StateTyped, memory, history
<1>9. CASE StoreIdentityCertificate(t)
  <2>1. th' \in [Threads -> Works]
    BY <1>6, <1>9, EndsTyped, GoesTyped DEF StoreIdentityCertificate, Placed, Pcs, Storing
  <2>2. th[t].id \in identities => IdentityCertificate(th[t].id) \in [id : Identities \cup {Nobody}, key : Keys]
    BY DEF IdentityCertificate, SigningKey, Typed, TablesTyped, StateTyped
  <2>3. idCerts' \in [Apps -> [id : Identities \cup {Nobody}, key : Keys]]
    BY <1>9, <2>2 DEF StoreIdentityCertificate, Typed, TablesTyped
  <2> QED
    BY <1>9, <2>1, <2>3 DEF StoreIdentityCertificate, Typed, TablesTyped, StateTyped, memory, history
<1>10. CASE StoreManifest(t)
  <2>1. th' \in [Threads -> Works]
    BY <1>6, <1>10, EndsTyped DEF StoreManifest, Placed
  <2>2. th[t].manifest \in Manifests
    BY <1>1 DEF AnyWorks
  <2>3. apps' \in [Apps -> Rows]
    BY <1>10, <2>2, RowsTyped DEF StoreManifest, Typed, TablesTyped
  <2> QED
    BY <1>10, <2>1, <2>3 DEF StoreManifest, Typed, TablesTyped, StateTyped, memory, history
<1>11. CASE UndoClaim(t)
  <2>1. th' \in [Threads -> Works]
    BY <1>11, EndsTyped DEF UndoClaim
  <2>2. TablesTyped'
    BY <1>11, RowsTyped, RowTyped DEF UndoClaim, RemoveRow, Typed, TablesTyped
  <2> QED
    BY <1>11, <2>1, <2>2 DEF UndoClaim, Typed, StateTyped, memory, history
<1>12. CASE Fails(t)
  BY <1>12, EndsTyped DEF Fails, Typed, TablesTyped, StateTyped, memory, history, disk, database, tables
<1> QED
  BY <1>3, <1>4, <1>5, <1>7, <1>8, <1>9, <1>10, <1>11, <1>12 DEF Steps

\* Work for one application.
LEMMA WorkTyped ==
  ASSUME Typed, NEW t \in Threads, NEW w \in AnyWorks, w.app \in Apps, NEW pc \in Pcs
  PROVE  /\ Does(t, pc, w) => th' \in [Threads -> Works]
         /\ \A n \in Nexts : Signs(t, n, w) => th' \in [Threads -> Works]
<1>1. [w EXCEPT !.pc = pc] \in Works
  BY DEF Works, AnyWorks
<1>2. ASSUME NEW n \in Nexts PROVE [[w EXCEPT !.next = n] EXCEPT !.pc = "serial"] \in Works
  BY DEF Works, AnyWorks, Pcs
<1> QED
  BY <1>1, <1>2 DEF Does, Signs, Typed

\* What a thread begins with.
LEMMA FreshWorkTyped ==
  ASSUME NEW a \in Apps
  PROVE  /\ [NoWork EXCEPT !.app = a] \in AnyWorks
         /\ \A g \in Groups : [NoWork EXCEPT !.app = a, !.group = g] \in AnyWorks
         /\ \A i \in Identities, m \in Manifests :
              [NoWork EXCEPT !.app = a, !.id = i, !.manifest = m] \in AnyWorks
         /\ \A m \in Manifests : [NoWork EXCEPT !.app = a, !.manifest = m] \in AnyWorks
         /\ \A m \in Meta : [NoWork EXCEPT !.app = a, !.meta = m] \in AnyWorks
<1>1. NoWork \in AnyWorks
  BY NoWorkTyped DEF Works
<1> QED
  BY <1>1 DEF AnyWorks

\* The applications that are left to be marked.
LEMMA TodoTyped ==
  ASSUME Typed, NEW t \in Threads, NEW s \in SUBSET Apps, NEW pc \in {"sync", "reset"},
         Does(t, pc, [NoWork EXCEPT !.todo = s])
  PROVE  th' \in [Threads -> Works]
<1> DEFINE w == [NoWork EXCEPT !.todo = s, !.pc = pc]
<1>1. NoWork \in AnyWorks /\ pc \in Pcs
  BY NoWorkTyped DEF Works, Pcs, Storing, Marking
<1>2. w \in AnyWorks
  BY <1>1 DEF AnyWorks
<1>3. w.pc = pc /\ w.next = "idle"
  BY DEF NoWork
<1>4. w \in Works
  BY <1>2, <1>3 DEF Works, Placed, Asking
<1> QED
  BY <1>4 DEF Does, Typed, NoWork

LEMMA GroupCallsTyped ==
  ASSUME Typed, NEW t \in Threads, NEW g \in Groups
  PROVE  /\ \A auth \in {"own", "foreign"} :
              StoreGroup(t, g, auth) => groups' \in [Groups -> {"none", "own", "foreign"}]
         /\ RemoveGroup(t, g, "own") =>
              /\ groups' \in [Groups -> {"none", "own", "foreign"}]
              /\ members' \in [Apps -> [Groups -> Keys]]
              /\ th' \in [Threads -> Works]
<1>1. ASSUME NEW auth \in {"own", "foreign"}, StoreGroup(t, g, auth)
      PROVE  groups' \in [Groups -> {"none", "own", "foreign"}]
  BY <1>1 DEF StoreGroup, Typed, TablesTyped
<1>2. ASSUME RemoveGroup(t, g, "own")
      PROVE  /\ groups' \in [Groups -> {"none", "own", "foreign"}]
             /\ members' \in [Apps -> [Groups -> Keys]]
             /\ th' \in [Threads -> Works]
  <2>1. {a \in Apps : members[a][g] # 0} \in SUBSET Apps
    OBVIOUS
  <2>2. th' \in [Threads -> Works]
    BY <1>2, <2>1, TodoTyped DEF RemoveGroup
  <2> QED
    BY <1>2, <2>2, RowTyped DEF RemoveGroup, Cascade, Typed, TablesTyped
<1> QED
  BY <1>1, <1>2

LEMMA MemberCallsTyped ==
  ASSUME Typed, NEW t \in Threads, NEW a \in Apps, NEW g \in Groups
  PROVE  /\ InstallMembership(t, a, g, "own") => th' \in [Threads -> Works]
         /\ RemoveMembership(t, a, g, "own") =>
              th' \in [Threads -> Works] /\ members' \in [Apps -> [Groups -> Keys]]
<1>1. ASSUME InstallMembership(t, a, g, "own") PROVE th' \in [Threads -> Works]
  <2>1. [NoWork EXCEPT !.app = a, !.group = g] \in AnyWorks /\ "serial" \in Pcs /\ "member" \in Nexts
    BY FreshWorkTyped DEF Pcs, Nexts
  <2>2. [NoWork EXCEPT !.app = a, !.group = g].app = a
    BY DEF NoWork
  <2> QED
    BY <1>1, <2>1, <2>2, WorkTyped DEF InstallMembership
<1>2. ASSUME RemoveMembership(t, a, g, "own")
      PROVE  th' \in [Threads -> Works] /\ members' \in [Apps -> [Groups -> Keys]]
  <2>1. th' \in [Threads -> Works]
    BY <1>2, TodoTyped DEF RemoveMembership
  <2> QED
    BY <1>2, <2>1, RowTyped DEF RemoveMembership, Typed, TablesTyped
<1> QED
  BY <1>1, <1>2

LEMMA OtherCallTyped ==
  ASSUME Typed, NEW t \in Threads, OtherCall(t)
  PROVE  Typed'
<1> USE RegistryAssumption DEF Calls
<1>1. HeardTyped' /\ spent' \in [calls : 0 .. MaxCalls, stops : 0 .. MaxStops]
  <2>1. /\ spent.calls < MaxCalls /\ spent' = [spent EXCEPT !.calls = @ + 1]
        /\ UNCHANGED <<heardOf, outside>>
    BY DEF OtherCall
  <2>2. spent \in [calls : 0 .. MaxCalls, stops : 0 .. MaxStops]
    BY DEF Typed, StateTyped
  <2>3. spent' \in [calls : 0 .. MaxCalls, stops : 0 .. MaxStops]
    BY <2>1, <2>2
  <2>4. HeardTyped'
    BY <2>1 DEF Typed, HeardTyped, heardOf, outside
  <2> QED
    BY <2>3, <2>4
<1>2. ASSUME UNCHANGED <<counter, signed, open>> PROVE StateTyped'
  BY <1>1, <1>2 DEF OtherCall, Typed, StateTyped
<1>3. CASE \E g \in Groups, auth \in {"own", "foreign"} :
             /\ StoreGroup(t, g, auth)
             /\ UNCHANGED <<identities, apps, idCerts, members, counter, signed, open, th>>
  BY <1>1, <1>2, <1>3, GroupCallsTyped DEF Typed, TablesTyped
<1>4. CASE \E g \in Groups :
             /\ RemoveGroup(t, g, "own")
             /\ UNCHANGED <<identities, apps, idCerts, counter, signed, open>>
  BY <1>1, <1>2, <1>4, GroupCallsTyped DEF Typed, TablesTyped
<1>5. CASE \E i \in Identities :
             /\ StoreIdentity(t, i)
             /\ UNCHANGED <<groups, apps, idCerts, members, counter, signed, open, th>>
  BY <1>1, <1>2, <1>5 DEF StoreIdentity, Typed, TablesTyped
<1>6. CASE \E i \in Identities :
             /\ RemoveIdentity(t, i)
             /\ UNCHANGED <<groups, apps, members, counter, signed, open>>
  <2>1. PICK i \in Identities : RemoveIdentity(t, i)
    BY <1>6
  <2>2. th' \in [Threads -> Works]
    BY <2>1, TodoTyped DEF RemoveIdentity
  <2>3. idCerts' \in [Apps -> [id : Identities \cup {Nobody}, key : Keys]]
    BY <2>1, RowTyped DEF RemoveIdentity, Typed, TablesTyped
  <2> QED
    BY <1>1, <1>2, <1>6, <2>1, <2>2, <2>3 DEF RemoveIdentity, Typed, TablesTyped
<1>7. CASE \E a \in Apps, g \in Groups :
             InstallMembership(t, a, g, "own") /\ UNCHANGED <<tables, counter, signed, open>>
  BY <1>1, <1>2, <1>7, MemberCallsTyped DEF Typed, TablesTyped, tables
<1>8. CASE \E a \in Apps, g \in Groups :
             /\ RemoveMembership(t, a, g, "own")
             /\ UNCHANGED <<groups, identities, apps, idCerts, counter, signed, open>>
  BY <1>1, <1>2, <1>8, MemberCallsTyped DEF Typed, TablesTyped
<1>9. CASE \E a \in Apps :
             /\ RemoveApplication(t, a)
             /\ UNCHANGED <<groups, identities, counter, signed, open, th>>
  BY <1>1, <1>2, <1>9, RowsTyped, RowTyped DEF RemoveApplication, RemoveRow, Typed, TablesTyped
<1>10. CASE Reset(t) /\ UNCHANGED th
  <2>1. TablesTyped'
    BY <1>10, RowTyped DEF Reset, TablesTyped
  <2>2. StateTyped'
    <3>1. counter' = -1 /\ open' = FALSE /\ signed' = <<>> /\ UNCHANGED <<file, selfClaimed, pkey, mutex, leak>>
      BY <1>10 DEF OtherCall, Reset
    <3>2. counter' \in Serials \cup {-1} /\ signed' \in Seq(Serials)
      BY <3>1
    <3>3. open' \in BOOLEAN
      BY <3>1
    <3> QED
      BY <1>1, <3>1, <3>2, <3>3 DEF Typed, StateTyped
  <2> QED
    BY <1>1, <1>10, <2>1, <2>2 DEF Typed
<1> QED
  BY <1>3, <1>4, <1>5, <1>6, <1>7, <1>8, <1>9, <1>10 DEF OtherCall

LEMMA CommandTyped ==
  ASSUME Typed, Command
  PROVE  Typed'
<1> USE RegistryAssumption, ConsoleAssumption
<1>1. Main \in Threads /\ th[Main] \in Works /\ th[Main] \in AnyWorks
  BY DEF Threads, Typed, Works
<1>2. ASSUME UNCHANGED disk PROVE TablesTyped'
  BY <1>2 DEF disk, database, tables, Typed, TablesTyped
<1>3. ASSUME UNCHANGED disk, UNCHANGED memory, UNCHANGED history PROVE StateTyped'
  BY <1>3 DEF disk, database, memory, history, Typed, StateTyped
<1>4. ASSUME UNCHANGED heardOf, UNCHANGED outside PROVE HeardTyped'
  BY <1>4 DEF heardOf, outside, Typed, HeardTyped
<1>5. ASSUME UNCHANGED <<counter, file, selfClaimed, memory, history>> PROVE StateTyped'
  BY <1>5 DEF memory, history, Typed, StateTyped
<1>6. ASSUME NEW a \in Apps, Claim(a) PROVE Typed'
  <2>1. PICK i \in Identity : Does(Main, "ask", [NoWork EXCEPT !.app = a, !.id = i, !.manifest = manifest[a]])
    BY <1>6 DEF Claim
  <2>2. i \in Identities /\ manifest[a] \in Manifests /\ "ask" \in Pcs
    BY DEF Identity, GetIdentities, Typed, TablesTyped, HeardTyped, Pcs, Asking
  <2>3. [NoWork EXCEPT !.app = a, !.id = i, !.manifest = manifest[a]].app = a
    BY DEF NoWork
  <2>4. th' \in [Threads -> Works]
    BY <1>1, <2>1, <2>2, <2>3, FreshWorkTyped, WorkTyped
  <2> QED
    BY <1>2, <1>3, <1>4, <1>6, <2>4 DEF Claim, Typed
<1>7. ASSUME NEW a \in Apps, Unclaim(a) PROVE Typed'
  <2>1. th' \in [Threads -> Works]
    BY <1>1, <1>7, TodoTyped DEF Unclaim
  <2> QED
    BY <1>2, <1>3, <1>4, <1>7, <2>1 DEF Unclaim, Typed
<1>8. ASSUME NEW a \in Apps, NEW n \in Names, ReadName(a, n) PROVE Typed'
  <2>1. PICK known \in {about[a], NoName} :
          Does(Main, "name", [NoWork EXCEPT !.app = a,
                               !.meta = Merge([about |-> known, user |-> n], GetAppMetaData(a))])
    BY <1>8 DEF ReadName
  <2>2. known \in Names \cup {NoName}
    BY DEF Typed, HeardTyped
  <2>3. apps[a].meta \in Meta
    BY DEF Typed, TablesTyped, Rows
  <2>4. Merge([about |-> known, user |-> n], GetAppMetaData(a)) \in Meta /\ "name" \in Pcs
    BY <2>2, <2>3 DEF Merge, GetAppMetaData, Meta, Pcs, Asking
  <2>5. \A m : [NoWork EXCEPT !.app = a, !.meta = m].app = a
    BY DEF NoWork
  <2>6. th' \in [Threads -> Works]
    BY <1>1, <2>1, <2>4, <2>5, FreshWorkTyped, WorkTyped
  <2> QED
    BY <1>2, <1>3, <1>4, <1>8, <2>6 DEF ReadName, Typed
<1>9. ASSUME NEW a \in Apps, NEW g \in Groups, NEW add \in BOOLEAN, UpdateMembership(a, g, add)
      PROVE  Typed'
  <2>1. members' \in [Apps -> [Groups -> Keys]] /\ th' \in [Threads -> Works]
    BY <1>1, <1>9, MemberCallsTyped DEF UpdateMembership, Typed, TablesTyped
  <2> QED
    BY <1>4, <1>5, <1>9, <2>1 DEF UpdateMembership, Typed, TablesTyped
<1>10. ASSUME NEW g \in Groups, AddGroup(g) PROVE Typed'
  <2>1. groups' \in [Groups -> {"none", "own", "foreign"}]
    BY <1>1, <1>10, GroupCallsTyped DEF AddGroup
  <2> QED
    BY <1>4, <1>5, <1>10, <2>1 DEF AddGroup, Typed, TablesTyped
<1>11. ASSUME NEW g \in Groups, DropGroup(g) PROVE Typed'
  BY <1>1, <1>4, <1>5, <1>11, GroupCallsTyped DEF DropGroup, Typed, TablesTyped
<1>12. CASE HandleManifestUpdate
  <2> DEFINE u == Head(updates)
  <2>1. u \in Updates /\ Tail(updates) \in Seq(Updates) /\ Len(Tail(updates)) <= MaxQueue
    BY <1>12 DEF HandleManifestUpdate, Typed, HeardTyped
  <2>2. u.app \in Apps /\ u.manifest \in Manifests /\ "decide" \in Pcs
    BY <2>1 DEF Updates, Pcs, Asking
  <2>3. [NoWork EXCEPT !.app = u.app, !.manifest = u.manifest].app = u.app
    BY DEF NoWork
  <2>4. Does(Main, "decide", [NoWork EXCEPT !.app = u.app, !.manifest = u.manifest])
    BY <1>12 DEF HandleManifestUpdate
  <2> HIDE DEF u
  <2>5. th' \in [Threads -> Works]
    BY <1>1, <2>2, <2>3, <2>4, FreshWorkTyped, WorkTyped
  <2>6. HeardTyped'
    BY <1>12, <2>1, <2>2 DEF HandleManifestUpdate, Typed, HeardTyped, outside, u
  <2> QED
    BY <1>2, <1>3, <1>12, <2>5, <2>6 DEF HandleManifestUpdate, Typed
<1> QED
  BY <1>6, <1>7, <1>8, <1>9, <1>10, <1>11, <1>12 DEF Command

LEMMA AnswersTyped ==
  ASSUME Typed, Answers
  PROVE  Typed'
<1> USE RegistryAssumption
<1>1. Main \in Threads /\ th[Main] \in Works /\ th[Main] \in AnyWorks
  BY DEF Threads, Typed, Works
<1>2. TablesTyped' /\ StateTyped'
  BY DEF Answers, AnswerClaim, Decide, disk, database, tables, memory, history, Typed, TablesTyped, StateTyped
<1>3. th[Main].manifest \in Manifests
  BY <1>1 DEF AnyWorks
<1>4. th[Main].pc \in {"ask", "decide"} => th[Main].app \in Apps
  BY <1>1 DEF Works, Placed, Asking
<1>5. PICK accept \in BOOLEAN : AnswerClaim(accept) \/ Decide(accept)
  BY DEF Answers
<1>6. HeardTyped'
  <2>1. accepted' \in [Apps -> SUBSET Manifests]
    <3>1. accepted \in [Apps -> SUBSET Manifests]
      BY DEF Typed, HeardTyped
    <3>2. [accepted EXCEPT ![th[Main].app] = @ \cup {th[Main].manifest}] \in [Apps -> SUBSET Manifests]
      BY <1>3, <3>1
    <3> QED
      BY <1>5, <3>1, <3>2 DEF AnswerClaim, Decide
  <2> QED
    BY <1>5, <2>1 DEF AnswerClaim, Decide, heardOf, Typed, HeardTyped
<1>7. CASE AnswerClaim(accept)
  <2>1. [th[Main] EXCEPT !.manifest = Granted(Main)] \in AnyWorks
    BY <1>1, <1>3 DEF Granted, AnyWorks
  <2>2. [th[Main] EXCEPT !.manifest = Granted(Main)].app \in Apps /\ "claim" \in Nexts /\ "claim" \in Pcs
    BY <1>1, <1>4, <1>7 DEF AnswerClaim, AnyWorks, Nexts, Pcs, Asking
  <2>3. th' \in [Threads -> Works]
    BY <1>1, <1>7, <2>1, <2>2, WorkTyped, EndsTyped DEF AnswerClaim
  <2> QED
    BY <1>2, <1>6, <2>3 DEF Typed
<1>8. CASE Decide(accept)
  <2>1. ASSUME NEW i \in Identity, UpdateIdentity(Main, th[Main].app, i, Granted(Main))
        PROVE  th' \in [Threads -> Works]
    <3>1. i \in Identities /\ "identity" \in Nexts /\ "serial" \in Pcs
      BY DEF Identity, GetIdentities, Typed, TablesTyped, Nexts, Pcs
    <3>2. th[Main].app \in Apps
      BY <1>4, <1>8 DEF Decide
    <3> DEFINE w == [NoWork EXCEPT !.app = th[Main].app, !.id = i, !.manifest = Granted(Main)]
    <3>3. w \in AnyWorks
      BY <1>3, <3>1, <3>2, FreshWorkTyped DEF Granted
    <3>4. w.app = th[Main].app
      BY DEF NoWork
    <3>5. Signs(Main, "identity", w)
      BY <2>1 DEF UpdateIdentity
    <3> HIDE DEF w
    <3> QED
      BY <1>1, <3>1, <3>2, <3>3, <3>4, <3>5, WorkTyped
  <2>2. th' \in [Threads -> Works]
    BY <1>1, <1>8, <2>1, EndsTyped DEF Decide
  <2> QED
    BY <1>2, <1>6, <2>2 DEF Typed
<1> QED
  BY <1>5, <1>7, <1>8

LEMMA NextTyped ==
  ASSUME Typed, [Next]_vars
  PROVE  Typed'
<1> USE RegistryAssumption
<1>1. Main \in Threads
  BY DEF Threads
<1>2. CASE Starts
  BY <1>2, StartTyped
  DEF Starts, Start, OpenStorage, InitCa, NoCa, WriteKeys, InitAgent, RegisterAgent, ClaimSelf, database,
      disk, tables, heardOf, outside, Typed, TablesTyped, HeardTyped
<1>3. CASE DefaultIdentity
  <2>1. identities' \subseteq Identities
    <3>1. (CHOOSE i \in Identities : TRUE) \in Identities
      OBVIOUS
    <3> QED
      BY <1>3, <3>1 DEF DefaultIdentity, Typed, TablesTyped
  <2>2. th' \in [Threads -> Works]
    BY <1>1, <1>3, GoesTyped DEF DefaultIdentity, Pcs, Placed, Asking
  <2> QED
    BY <1>3, <2>1, <2>2
    DEF DefaultIdentity, memory, history, heardOf, outside, Typed, TablesTyped, StateTyped, HeardTyped
<1>4. CASE Stops
  <2>1. th' \in [Threads -> Works]
    BY <1>4, NoWorkTyped DEF Stops, Vanishes, AtStart, Pcs, Starting, Placed, Asking
  <2>2. spent' \in [calls : 0 .. MaxCalls, stops : 0 .. MaxStops]
    <3>1. spent \in [calls : 0 .. MaxCalls, stops : 0 .. MaxStops]
      BY DEF Typed, StateTyped
    <3>2. spent' = [spent EXCEPT !.stops = spent.stops + 1] /\ spent.stops < MaxStops
      BY <1>4 DEF Stops
    <3>3. spent.stops + 1 \in 0 .. MaxStops
      BY <3>1, <3>2
    <3> QED
      BY <3>1, <3>2, <3>3
  <2>3. UNCHANGED <<counter, file, selfClaimed, signed>>
    BY <1>4 DEF Stops, Vanishes, disk, database
  <2>4. open' = FALSE /\ pkey' \in Keys /\ mutex' = Nobody /\ leak' = Nobody
    BY <1>4, RowTyped DEF Stops, Vanishes
  <2>5. StateTyped'
    BY <2>2, <2>3, <2>4 DEF Typed, StateTyped
  <2>6. HeardTyped'
    BY <1>4, ConsoleAssumption DEF Stops, outside, Typed, HeardTyped
  <2> QED
    BY <1>4, <2>1, <2>5, <2>6 DEF Stops, Vanishes, disk, database, tables, Typed, TablesTyped
<1>5. CASE Command
  BY <1>5, CommandTyped
<1>6. CASE Answers
  BY <1>6, AnswersTyped
<1>7. CASE RemoteClaim
  <2>1. th[Main].app \in Apps
    BY <1>1, <1>7 DEF RemoteClaim, Typed, Works, Placed, Asking
  <2>2. th' \in [Threads -> Works]
    BY <1>1, <1>7, <2>1, GoesTyped, EndsTyped DEF RemoteClaim, Pcs, Storing
  <2> QED
    BY <1>7, <2>2 DEF RemoteClaim, disk, database, tables, memory, history, heardOf, outside, Typed,
                      TablesTyped, StateTyped, HeardTyped
<1>8. CASE StoreName
  <2>1. th[Main].meta \in Meta
    BY <1>1 DEF Typed, Works, AnyWorks
  <2>2. apps' \in [Apps -> Rows]
    <3>1. apps \in [Apps -> Rows] /\ [apps EXCEPT ![th[Main].app].meta = th[Main].meta] \in [Apps -> Rows]
      BY <2>1, RowsTyped DEF Typed, TablesTyped
    <3> QED
      BY <1>8, <3>1 DEF StoreName, SetAppMetaData
  <2>3. th' \in [Threads -> Works]
    BY <1>1, <1>8, EndsTyped DEF StoreName
  <2> QED
    BY <1>8, <2>2, <2>3 DEF StoreName, memory, history, heardOf, outside, Typed,
                      TablesTyped, StateTyped, HeardTyped
<1>9. ASSUME NEW t \in Threads, Working(t) PROVE Typed'
  BY <1>9, StepsTyped DEF Working, heardOf, outside, Typed, HeardTyped
<1>10. ASSUME NEW t \in Threads, OtherCall(t) PROVE Typed'
  BY <1>10, OtherCallTyped
<1>11. ASSUME UNCHANGED registry PROVE TablesTyped' /\ StateTyped' /\ th' \in [Threads -> Works]
  BY <1>11 DEF registry, disk, database, tables, memory, history, Typed, TablesTyped, StateTyped
<1>12. ASSUME NEW a \in Apps, OnApplicationStateChange(a) PROVE Typed'
  BY <1>11, <1>12 DEF OnApplicationStateChange, outside, Typed, HeardTyped
<1>13. ASSUME NEW a \in Apps, OnManifestUpdate(a) PROVE Typed'
  <2>1. [app |-> a, manifest |-> manifest[a]] \in Updates
    BY DEF Updates, Typed, HeardTyped
  <2>2. updates' \in Seq(Updates) /\ Len(updates') <= MaxQueue
    BY <1>13, <2>1, ConsoleAssumption DEF OnManifestUpdate, Typed, HeardTyped
  <2> QED
    BY <1>11, <1>13, <2>2 DEF OnManifestUpdate, outside, Typed, HeardTyped
<1>14. ASSUME NEW a \in Apps, ManifestChanges(a) PROVE Typed'
  <2>1. manifest' \in [Apps -> Manifests]
    BY <1>14 DEF ManifestChanges, Typed, HeardTyped, Manifests
  <2> QED
    BY <1>11, <1>14, <2>1 DEF ManifestChanges, heardOf, Typed, HeardTyped
<1>15. ASSUME NEW a \in Apps, NEW n \in Names, Announced(a, n) PROVE Typed'
  BY <1>11, <1>15 DEF Announced, outside, Typed, HeardTyped
<1>16. CASE UNCHANGED vars
  BY <1>11, <1>16 DEF vars, heardOf, outside, Typed, HeardTyped
<1> QED
  BY <1>2, <1>3, <1>4, <1>5, <1>6, <1>7, <1>8, <1>9, <1>10, <1>12, <1>13, <1>14, <1>15, <1>16 DEF Next

\* Every variable of the console, the storage and the certificate authority has its type.
THEOREM TypeCorrect == Spec => []TypeOK
<1>1. Spec => []Typed
  BY InitTyped, NextTyped, PTL DEF Spec
<1> QED
  BY <1>1, TypedIsTypeOK, PTL

------------------------------------------------------------------------------
(* The certificates and their owners *)

\* Applications, identities and groups that are there stay there.
OwnersStay ==
  /\ \A a \in Apps : apps[a].stored => apps'[a].stored
  /\ identities \subseteq identities'
  /\ \A g \in Groups : groups[g] # "none" => groups'[g] # "none"

\* A field of a row changes.
LEMMA FieldsKeepStored ==
  ASSUME Typed, NEW a, NEW v,
         \/ apps' = [apps EXCEPT ![a].sync = v]
         \/ apps' = [apps EXCEPT ![a].meta = v]
         \/ apps' = [apps EXCEPT ![a].manifest = v]
  PROVE  \A b \in Apps : apps'[b].stored = apps[b].stored
<1> SUFFICES ASSUME NEW b \in Apps PROVE apps'[b].stored = apps[b].stored
  OBVIOUS
<1>1. apps \in [Apps -> Rows] /\ apps[b] \in Rows
  BY DEF Typed, TablesTyped
<1>2. /\ [apps[b] EXCEPT !.sync = v].stored = apps[b].stored
      /\ [apps[b] EXCEPT !.meta = v].stored = apps[b].stored
      /\ [apps[b] EXCEPT !.manifest = v].stored = apps[b].stored
  BY <1>1 DEF Rows
<1>3. CASE apps' = [apps EXCEPT ![a].sync = v]
  BY <1>1, <1>2, <1>3
<1>4. CASE apps' = [apps EXCEPT ![a].meta = v]
  BY <1>1, <1>2, <1>4
<1>5. CASE apps' = [apps EXCEPT ![a].manifest = v]
  BY <1>1, <1>2, <1>5
<1> QED
  BY <1>3, <1>4, <1>5

LEMMA OwnersStayTogether ==
  ASSUME CertsHaveOwners, OwnersStay, UNCHANGED <<idCerts, members>>
  PROVE  CertsHaveOwners'
BY DEF CertsHaveOwners, OwnersStay

LEMMA SameOwners == ASSUME UNCHANGED tables PROVE OwnersStay /\ UNCHANGED <<idCerts, members>>
BY DEF tables, OwnersStay

\* Removing an application removes its certificates.
LEMMA RemoveRowOwners ==
  ASSUME Typed, CertsHaveOwners, NEW a, RemoveRow(a), UNCHANGED <<groups, identities>>
  PROVE  CertsHaveOwners'
<1> SUFFICES ASSUME NEW b \in Apps
             PROVE  /\ idCerts'[b] # NoCert => apps'[b].stored /\ idCerts'[b].id \in identities'
                    /\ \A g \in Groups : members'[b][g] # 0 => apps'[b].stored /\ groups'[g] # "none"
  BY DEF CertsHaveOwners
<1>1. CASE b = a
  BY <1>1 DEF RemoveRow, Typed, TablesTyped
<1>2. CASE b # a
  BY <1>2 DEF RemoveRow, Typed, TablesTyped, CertsHaveOwners
<1> QED
  BY <1>1, <1>2

LEMMA RemoveGroupOwners ==
  ASSUME Typed, CertsHaveOwners, NEW t, NEW g \in Groups, RemoveGroup(t, g, "own"),
         UNCHANGED <<identities, apps, idCerts>>
  PROVE  CertsHaveOwners'
BY DEF RemoveGroup, Cascade, Typed, TablesTyped, CertsHaveOwners

LEMMA RemoveMembershipOwners ==
  ASSUME Typed, CertsHaveOwners, NEW t, NEW a \in Apps, NEW g \in Groups, RemoveMembership(t, a, g, "own"),
         UNCHANGED <<groups, identities, apps, idCerts>>
  PROVE  CertsHaveOwners'
BY DEF RemoveMembership, Typed, TablesTyped, CertsHaveOwners

LEMMA StoreGroupOwners ==
  ASSUME Typed, NEW t, NEW g \in Groups, NEW auth \in {"own", "foreign"}, StoreGroup(t, g, auth),
         UNCHANGED <<identities, apps>>
  PROVE  OwnersStay
BY DEF StoreGroup, Typed, TablesTyped, OwnersStay

LEMMA StepsOwners ==
  ASSUME Typed, CertsHaveOwners, NEW t \in Threads, Steps(t)
  PROVE  CertsHaveOwners'
<1>1. ASSUME UNCHANGED tables PROVE CertsHaveOwners'
  BY <1>1, SameOwners, OwnersStayTogether
<1>2. ASSUME UNCHANGED <<groups, identities, idCerts, members>>,
             \A a \in Apps : apps[a].stored => apps'[a].stored
      PROVE  CertsHaveOwners'
  BY <1>2, OwnersStayTogether DEF OwnersStay
<1>3. CASE ReadSerial(t) \/ SignCertificate(t) \/ Fails(t)
  BY <1>1, <1>3 DEF ReadSerial, SignCertificate, Fails, disk, database
<1>4. CASE Marks(t)
  <2>1. \A a \in Apps : apps[a].stored => apps'[a].stored
    BY <1>4, MarksDo, FieldsKeepStored
  <2> QED
    BY <1>2, <1>4, <2>1, MarksDo
<1>5. CASE StoreMembership(t)
  <2>1. CASE MayStoreMember(th[t].app, th[t].group)
    BY <1>5, <2>1 DEF StoreMembership, MayStoreMember, Typed, TablesTyped, CertsHaveOwners
  <2>2. CASE ~MayStoreMember(th[t].app, th[t].group)
    BY <1>1, <1>5, <2>2 DEF StoreMembership, tables
  <2> QED
    BY <2>1, <2>2
<1>6. CASE StoreApplication(t)
  BY <1>2, <1>6 DEF StoreApplication, Typed, TablesTyped, NoRow
<1>7. CASE StoreIdentityCertificate(t)
  BY <1>7 DEF StoreIdentityCertificate, IdentityCertificate, Typed, TablesTyped, CertsHaveOwners
<1>8. CASE StoreManifest(t)
  BY <1>2, <1>8 DEF StoreManifest, Typed, TablesTyped, Rows
<1>9. CASE UndoClaim(t)
  BY <1>9, RemoveRowOwners DEF UndoClaim
<1> QED
  BY <1>3, <1>4, <1>5, <1>6, <1>7, <1>8, <1>9 DEF Steps

LEMMA CommandOwners ==
  ASSUME Typed, CertsHaveOwners, Command
  PROVE  CertsHaveOwners'
<1>1. ASSUME UNCHANGED tables PROVE CertsHaveOwners'
  BY <1>1, SameOwners, OwnersStayTogether
<1>2. ASSUME NEW a \in Apps, Claim(a) \/ (\E n \in Names : ReadName(a, n)) PROVE CertsHaveOwners'
  BY <1>1, <1>2 DEF Claim, ReadName, disk, database
<1>3. ASSUME NEW a \in Apps, Unclaim(a) PROVE CertsHaveOwners'
  BY <1>1, <1>3 DEF Unclaim, disk, database
<1>4. ASSUME NEW a \in Apps, NEW g \in Groups, NEW add \in BOOLEAN, UpdateMembership(a, g, add)
      PROVE  CertsHaveOwners'
  BY <1>1, <1>4, RemoveMembershipOwners DEF UpdateMembership, tables
<1>5. ASSUME NEW g \in Groups, AddGroup(g) PROVE CertsHaveOwners'
  BY <1>5, StoreGroupOwners, OwnersStayTogether DEF AddGroup
<1>6. ASSUME NEW g \in Groups, DropGroup(g) PROVE CertsHaveOwners'
  BY <1>6, RemoveGroupOwners DEF DropGroup
<1>7. CASE HandleManifestUpdate
  BY <1>1, <1>7 DEF HandleManifestUpdate, disk, database
<1> QED
  BY <1>2, <1>3, <1>4, <1>5, <1>6, <1>7 DEF Command

LEMMA OtherCallOwners ==
  ASSUME Typed, CertsHaveOwners, NEW t \in Threads, OtherCall(t)
  PROVE  CertsHaveOwners'
<1>1. CASE \E g \in Groups, auth \in {"own", "foreign"} :
             /\ StoreGroup(t, g, auth)
             /\ UNCHANGED <<identities, apps, idCerts, members, counter, signed, open, th>>
  BY <1>1, StoreGroupOwners, OwnersStayTogether
<1>2. CASE \E g \in Groups :
             /\ RemoveGroup(t, g, "own")
             /\ UNCHANGED <<identities, apps, idCerts, counter, signed, open>>
  BY <1>2, RemoveGroupOwners
<1>3. CASE \E i \in Identities :
             /\ StoreIdentity(t, i)
             /\ UNCHANGED <<groups, apps, idCerts, members, counter, signed, open, th>>
  BY <1>3, OwnersStayTogether DEF StoreIdentity, OwnersStay
<1>4. CASE \E i \in Identities :
             /\ RemoveIdentity(t, i)
             /\ UNCHANGED <<groups, apps, members, counter, signed, open>>
  BY <1>4 DEF RemoveIdentity, Typed, TablesTyped, CertsHaveOwners
<1>5. CASE \E a \in Apps, g \in Groups :
             InstallMembership(t, a, g, "own") /\ UNCHANGED <<tables, counter, signed, open>>
  BY <1>5, SameOwners, OwnersStayTogether
<1>6. CASE \E a \in Apps, g \in Groups :
             /\ RemoveMembership(t, a, g, "own")
             /\ UNCHANGED <<groups, identities, apps, idCerts, counter, signed, open>>
  BY <1>6, RemoveMembershipOwners
<1>7. CASE \E a \in Apps :
             /\ RemoveApplication(t, a)
             /\ UNCHANGED <<groups, identities, counter, signed, open, th>>
  BY <1>7, RemoveRowOwners DEF RemoveApplication
<1>8. CASE Reset(t) /\ UNCHANGED th
  BY <1>8 DEF Reset, CertsHaveOwners
<1> QED
  BY <1>1, <1>2, <1>3, <1>4, <1>5, <1>6, <1>7, <1>8 DEF OtherCall

LEMMA NextOwners ==
  ASSUME Typed, CertsHaveOwners, [Next]_vars
  PROVE  CertsHaveOwners'
<1>1. ASSUME UNCHANGED tables PROVE CertsHaveOwners'
  BY <1>1, SameOwners, OwnersStayTogether
<1>2. ASSUME UNCHANGED registry PROVE CertsHaveOwners'
  BY <1>1, <1>2 DEF registry, disk, database
<1>3. CASE Starts
  BY <1>1, <1>3 DEF Starts, Start, OpenStorage, InitCa, NoCa, WriteKeys, InitAgent, RegisterAgent,
                    ClaimSelf, disk, database
<1>4. CASE DefaultIdentity
  <2>1. identities \subseteq identities'
    BY <1>4 DEF DefaultIdentity
  <2> QED
    BY <1>4, <2>1, OwnersStayTogether DEF DefaultIdentity, OwnersStay
<1>5. CASE Stops \/ RemoteClaim
  BY <1>1, <1>5 DEF Stops, Vanishes, RemoteClaim, disk, database
<1>6. CASE Answers
  BY <1>1, <1>6 DEF Answers, AnswerClaim, Decide, disk, database
<1>7. CASE StoreName
  <2>1. \A b \in Apps : apps[b].stored => apps'[b].stored
    <3>1. UNCHANGED apps \/ \E a, m : apps' = [apps EXCEPT ![a].meta = m]
      BY <1>7 DEF StoreName, SetAppMetaData
    <3> QED
      BY <3>1, FieldsKeepStored
  <2> QED
    BY <1>7, <2>1, OwnersStayTogether DEF StoreName, OwnersStay
<1>8. CASE Command
  BY <1>8, CommandOwners
<1>9. ASSUME NEW t \in Threads, Working(t) \/ OtherCall(t) PROVE CertsHaveOwners'
  BY <1>9, StepsOwners, OtherCallOwners DEF Working
<1>10. ASSUME NEW a \in Apps,
              \/ OnApplicationStateChange(a) \/ OnManifestUpdate(a) \/ ManifestChanges(a)
              \/ \E n \in Names : Announced(a, n)
       PROVE  CertsHaveOwners'
  BY <1>2, <1>10 DEF OnApplicationStateChange, OnManifestUpdate, ManifestChanges, Announced
<1>11. CASE UNCHANGED vars
  BY <1>2, <1>11 DEF vars
<1> QED
  BY <1>3, <1>4, <1>5, <1>6, <1>7, <1>8, <1>9, <1>10, <1>11 DEF Next

\* Every certificate in the database is of an application, and of a group or an identity,
\* that is in the database too.
THEOREM OwnersAreThere == Spec => []CertsHaveOwners
<1>1. Init => CertsHaveOwners
  BY DEF Init, RegistryInit, CertsHaveOwners
<1>2. Spec => []Typed
  BY InitTyped, NextTyped, PTL DEF Spec
<1> QED
  BY <1>1, <1>2, NextOwners, PTL DEF Spec

------------------------------------------------------------------------------
(* Who does what: a thread changes its own work only, and no thread runs before *)
(* the process has started.                                                     *)

LEMMA StepsMove ==
  ASSUME Typed, NEW t \in Threads, Steps(t) \/ OtherCall(t)
  PROVE  \A u \in Threads \ {t} : th'[u] = th[u]
<1> USE DEF Does, Goes, Ends, Signs, Typed
<1>1. CASE Steps(t)
  BY <1>1, MarksDo DEF Steps, ReadSerial, SignCertificate, StoreMembership, StoreApplication,
                       StoreIdentityCertificate, StoreManifest, UndoClaim, Fails
<1>2. CASE OtherCall(t)
  BY <1>2 DEF OtherCall, RemoveGroup, RemoveIdentity, InstallMembership, RemoveMembership, RemoveApplication
<1> QED
  BY <1>1, <1>2

MainStep == Starts \/ DefaultIdentity \/ Command \/ Answers \/ RemoteClaim \/ StoreName

LEMMA MainMoves ==
  ASSUME Typed, MainStep
  PROVE  \A u \in Others : th'[u] = th[u]
<1> USE RegistryAssumption DEF Does, Goes, Ends, Signs, Typed, Threads
<1>1. CASE Starts
  BY <1>1 DEF Starts, Start, OpenStorage, InitCa, NoCa, WriteKeys, InitAgent, RegisterAgent, ClaimSelf
<1>2. CASE DefaultIdentity \/ RemoteClaim \/ StoreName
  BY <1>2 DEF DefaultIdentity, RemoteClaim, StoreName
<1>3. CASE Answers
  BY <1>3 DEF Answers, AnswerClaim, Decide, UpdateIdentity
<1>4. CASE Command
  BY <1>4 DEF Command, Claim, Unclaim, ReadName, UpdateMembership, InstallMembership, RemoveMembership,
              AddGroup, DropGroup, RemoveGroup, HandleManifestUpdate
<1> QED
  BY <1>1, <1>2, <1>3, <1>4 DEF MainStep

\* Where a thread is after a step, and what for.
LEMMA DoesOne ==
  ASSUME Typed, NEW t \in Threads, NEW pc, NEW w \in AnyWorks, Does(t, pc, w)
  PROVE  th'[t].pc = pc /\ th'[t].next = w.next /\ th'[t].app = w.app /\ th'[t].manifest = w.manifest
BY DEF Typed, Does, AnyWorks

LEMMA SignsOne ==
  ASSUME Typed, NEW t \in Threads, NEW n, NEW w \in AnyWorks, Signs(t, n, w)
  PROVE  /\ th'[t].pc = "serial" /\ th'[t].next = n /\ th'[t].app = w.app /\ th'[t].manifest = w.manifest
         /\ Len(signed) + Cardinality(Threads) <= MaxSigned
BY DEF Typed, Does, Signs, AnyWorks

LEMMA DoesWhat ==
  ASSUME Typed, NEW t \in Threads, NEW pc
  PROVE  /\ \A w \in AnyWorks : Does(t, pc, w) =>
              /\ th'[t].pc = pc /\ th'[t].next = w.next
              /\ th'[t].app = w.app /\ th'[t].manifest = w.manifest
         /\ \A w \in AnyWorks : Signs(t, pc, w) =>
              /\ th'[t].pc = "serial" /\ th'[t].next = pc
              /\ th'[t].app = w.app /\ th'[t].manifest = w.manifest
              /\ Len(signed) + Cardinality(Threads) <= MaxSigned
         /\ Goes(t, pc) =>
              /\ th'[t].pc = pc /\ th'[t].next = th[t].next
              /\ th'[t].app = th[t].app /\ th'[t].manifest = th[t].manifest
         /\ Ends(t) => th'[t].pc = Idle(t) /\ th'[t].next = "idle" /\ th'[t].manifest = 0
<1> USE DEF Typed
<1>1. ASSUME NEW w \in AnyWorks, Does(t, pc, w)
      PROVE  /\ th'[t].pc = pc /\ th'[t].next = w.next
             /\ th'[t].app = w.app /\ th'[t].manifest = w.manifest
  BY <1>1, DoesOne
<1>2. ASSUME NEW w \in AnyWorks, Signs(t, pc, w)
      PROVE  /\ th'[t].pc = "serial" /\ th'[t].next = pc
             /\ th'[t].app = w.app /\ th'[t].manifest = w.manifest
             /\ Len(signed) + Cardinality(Threads) <= MaxSigned
  BY <1>2, SignsOne
<1>3. ASSUME Goes(t, pc)
      PROVE  /\ th'[t].pc = pc /\ th'[t].next = th[t].next
             /\ th'[t].app = th[t].app /\ th'[t].manifest = th[t].manifest
  BY <1>3 DEF Goes, Works, AnyWorks
<1>4. Ends(t) => th'[t].pc = Idle(t) /\ th'[t].next = "idle" /\ th'[t].manifest = 0
  BY DEF Ends, Does, NoWork
<1> QED
  BY <1>1, <1>2, <1>3, <1>4

\* What the user's commands and answers make Main do.
LEMMA MainActs ==
  ASSUME Typed, Command \/ Answers
  PROVE  \/ UNCHANGED th \/ Ends(Main)
         \/ \E w \in AnyWorks, pc \in {"ask", "decide", "name", "sync", "reset"} :
              /\ Does(Main, pc, w) /\ w.next = "idle"
              /\ pc \notin {"ask", "decide"} => w.manifest = 0
         \/ \E w \in AnyWorks, n \in {"member", "identity", "claim"} :
              /\ Signs(Main, n, w)
              /\ w.manifest # 0 => w.app \in Apps /\ w.manifest \in accepted'[w.app]
<1> DEFINE begins == \E w \in AnyWorks, pc \in {"ask", "decide", "name", "sync", "reset"} :
                       /\ Does(Main, pc, w) /\ w.next = "idle"
                       /\ pc \notin {"ask", "decide"} => w.manifest = 0
           signs == \E w \in AnyWorks, n \in {"member", "identity", "claim"} :
                      /\ Signs(Main, n, w)
                      /\ w.manifest # 0 => w.app \in Apps /\ w.manifest \in accepted'[w.app]
<1>1. Main \in Threads /\ th[Main] \in Works /\ th[Main] \in AnyWorks
  BY DEF Threads, Typed, Works
<1>2. /\ \A a, i, m : [NoWork EXCEPT !.app = a, !.id = i, !.manifest = m].next = "idle"
      /\ \A a, m : [NoWork EXCEPT !.app = a, !.meta = m].next = "idle"
      /\ \A a, m : [NoWork EXCEPT !.app = a, !.meta = m].manifest = 0
      /\ \A a, m : [NoWork EXCEPT !.app = a, !.manifest = m].next = "idle"
      /\ \A a, g : [NoWork EXCEPT !.app = a, !.group = g].manifest = 0
      /\ \A a, i, m : [NoWork EXCEPT !.app = a, !.id = i, !.manifest = m].app = a
      /\ \A a, i, m : [NoWork EXCEPT !.app = a, !.id = i, !.manifest = m].manifest = m
      /\ \A s : [NoWork EXCEPT !.todo = s].next = "idle" /\ [NoWork EXCEPT !.todo = s].manifest = 0
  BY DEF NoWork
<1>3. \A s \in SUBSET Apps : [NoWork EXCEPT !.todo = s] \in AnyWorks
  <2>1. NoWork \in AnyWorks
    BY NoWorkTyped DEF Works
  <2> QED
    BY <2>1 DEF AnyWorks
<1>4. ASSUME NEW w \in AnyWorks, NEW pc \in {"ask", "decide", "name", "sync", "reset"}, Does(Main, pc, w),
             w.next = "idle", pc \notin {"ask", "decide"} => w.manifest = 0
      PROVE  begins
  BY <1>4
<1>5. ASSUME NEW w \in AnyWorks, NEW n \in {"member", "identity", "claim"}, Signs(Main, n, w),
             w.manifest # 0 => w.app \in Apps /\ w.manifest \in accepted'[w.app]
      PROVE  signs
  BY <1>5
<1> HIDE DEF begins, signs
<1>6. ASSUME NEW a \in Apps, Claim(a) PROVE begins
  <2>1. PICK i \in Identity : Does(Main, "ask", [NoWork EXCEPT !.app = a, !.id = i, !.manifest = manifest[a]])
    BY <1>6 DEF Claim
  <2> DEFINE w == [NoWork EXCEPT !.app = a, !.id = i, !.manifest = manifest[a]]
  <2>2. i \in Identities /\ manifest[a] \in Manifests
    BY DEF Identity, GetIdentities, Typed, TablesTyped, HeardTyped
  <2>3. w \in AnyWorks
    BY <2>2, FreshWorkTyped
  <2>4. w.next = "idle"
    BY <1>2
  <2>5. Does(Main, "ask", w)
    BY <2>1
  <2> HIDE DEF w
  <2> QED
    BY <1>4, <2>3, <2>4, <2>5
<1>7. ASSUME NEW a \in Apps, NEW n \in Names, ReadName(a, n) PROVE begins
  <2>1. PICK known \in {about[a], NoName} :
          Does(Main, "name", [NoWork EXCEPT !.app = a,
                               !.meta = Merge([about |-> known, user |-> n], GetAppMetaData(a))])
    BY <1>7 DEF ReadName
  <2> DEFINE m == Merge([about |-> known, user |-> n], GetAppMetaData(a))
             w == [NoWork EXCEPT !.app = a, !.meta = m]
  <2>2. known \in Names \cup {NoName} /\ apps[a].meta \in Meta
    BY DEF Typed, TablesTyped, HeardTyped, Rows
  <2>3. m \in Meta
    BY <2>2 DEF Merge, GetAppMetaData, Meta
  <2>4. Does(Main, "name", w)
    BY <2>1
  <2> HIDE DEF m
  <2>5. w \in AnyWorks /\ w.next = "idle" /\ w.manifest = 0
    BY <1>2, <2>3, FreshWorkTyped
  <2> HIDE DEF w
  <2> QED
    BY <1>4, <2>4, <2>5
<1>8. CASE HandleManifestUpdate
  <2> DEFINE u == Head(updates)
             w == [NoWork EXCEPT !.app = u.app, !.manifest = u.manifest]
  <2>1. u \in Updates /\ Does(Main, "decide", w)
    BY <1>8 DEF HandleManifestUpdate, Typed, HeardTyped
  <2>2. u.app \in Apps /\ u.manifest \in Manifests
    BY <2>1 DEF Updates
  <2> HIDE DEF u
  <2>3. w \in AnyWorks
    BY <2>2, FreshWorkTyped
  <2>4. w.next = "idle"
    BY <1>2
  <2> HIDE DEF w
  <2> QED
    BY <1>4, <2>1, <2>3, <2>4
<1>9. ASSUME NEW a \in Apps, NEW g \in Groups, NEW add \in BOOLEAN, UpdateMembership(a, g, add)
      PROVE  begins \/ signs
  <2> DEFINE w == [NoWork EXCEPT !.app = a, !.group = g]
             v == [NoWork EXCEPT !.todo = {a}]
  <2>1. w \in AnyWorks /\ w.manifest = 0 /\ v \in AnyWorks /\ v.next = "idle" /\ v.manifest = 0
    BY <1>2, <1>3, FreshWorkTyped
  <2>2. Signs(Main, "member", w) \/ Does(Main, "sync", v)
    BY <1>9 DEF UpdateMembership, InstallMembership, RemoveMembership
  <2> HIDE DEF w, v
  <2> QED
    BY <1>4, <1>5, <2>1, <2>2
<1>10. ASSUME NEW g \in Groups, DropGroup(g) PROVE begins
  <2> DEFINE w == [NoWork EXCEPT !.todo = {a \in Apps : members[a][g] # 0}]
  <2>1. w \in AnyWorks /\ w.next = "idle" /\ w.manifest = 0
    BY <1>2, <1>3
  <2>2. Does(Main, "sync", w)
    BY <1>10 DEF DropGroup, RemoveGroup
  <2> HIDE DEF w
  <2> QED
    BY <1>4, <2>1, <2>2
<1>11. ASSUME NEW accept \in BOOLEAN, AnswerClaim(accept) PROVE Ends(Main) \/ signs
  <2> DEFINE w == [th[Main] EXCEPT !.manifest = Granted(Main)]
  <2>1. w.app = th[Main].app /\ w.manifest = th[Main].manifest
    BY <1>1 DEF Granted, AnyWorks
  <2>2. w \in AnyWorks
    BY <1>1 DEF Granted, AnyWorks
  <2>3. th[Main].app \in Apps
    BY <1>1, <1>11 DEF AnswerClaim, Works, Placed, Asking
  <2>4. accept => w.manifest \in accepted'[w.app]
    BY <1>11, <2>1, <2>3 DEF AnswerClaim, Typed, HeardTyped
  <2>5. Ends(Main) \/ (accept /\ Signs(Main, "claim", w))
    BY <1>11 DEF AnswerClaim
  <2> HIDE DEF w
  <2> QED
    BY <1>5, <2>1, <2>2, <2>3, <2>4, <2>5
<1>12. ASSUME NEW accept \in BOOLEAN, Decide(accept) PROVE Ends(Main) \/ signs
  <2>1. th[Main].app \in Apps /\ th[Main].manifest \in Manifests
    BY <1>1, <1>12 DEF Decide, Works, AnyWorks, Placed, Asking
  <2>2. ASSUME NEW i \in Identity, accept, UpdateIdentity(Main, th[Main].app, i, Granted(Main)) PROVE signs
    <3> DEFINE w == [NoWork EXCEPT !.app = th[Main].app, !.id = i, !.manifest = Granted(Main)]
    <3>1. i \in Identities
      BY DEF Identity, GetIdentities, Typed, TablesTyped
    <3>2. w \in AnyWorks
      BY <2>1, <3>1, FreshWorkTyped DEF Granted
    <3>3. w.app = th[Main].app /\ w.manifest = th[Main].manifest
      BY <1>2 DEF Granted
    <3>4. w.manifest \in accepted'[w.app]
      BY <1>12, <2>1, <2>2, <3>3 DEF Decide, Typed, HeardTyped
    <3>5. Signs(Main, "identity", w)
      BY <2>2 DEF UpdateIdentity
    <3> HIDE DEF w
    <3> QED
      BY <1>5, <2>1, <3>2, <3>3, <3>4, <3>5
  <2> QED
    BY <1>12, <2>2 DEF Decide
<1>13. ASSUME NEW a \in Apps, Unclaim(a) PROVE begins
  <2> DEFINE w == [NoWork EXCEPT !.todo = {a}]
  <2>1. w \in AnyWorks /\ w.next = "idle" /\ w.manifest = 0
    BY <1>2, <1>3
  <2>2. Does(Main, "reset", w)
    BY <1>13 DEF Unclaim
  <2> HIDE DEF w
  <2> QED
    BY <1>4, <2>1, <2>2
<1>14. ASSUME NEW g \in Groups, AddGroup(g) PROVE UNCHANGED th
  BY <1>14 DEF AddGroup
<1>15. CASE Command
  BY <1>6, <1>7, <1>8, <1>9, <1>10, <1>13, <1>14, <1>15 DEF Command, begins, signs
<1>16. CASE Answers
  BY <1>11, <1>12, <1>16 DEF Answers, begins, signs
<1> QED
  BY <1>15, <1>16

\* Main does not start again while the process runs.
LEMMA UpStays ==
  ASSUME Typed, Up, Command \/ Answers \/ RemoteClaim \/ StoreName \/ Steps(Main)
  PROVE  Up'
<1> USE RegistryAssumption DEF Starting
<1>1. /\ Main \in Threads /\ th[Main].next \in {"idle", "member", "identity", "claim"}
      /\ th[Main].pc \notin Starting
  BY DEF Works, AnyWorks, Nexts, Typed, Up, Threads
<1>2. ASSUME NEW w \in AnyWorks, NEW pc, pc \notin Starting, w.next = "idle", Does(Main, pc, w) PROVE Up'
  BY <1>1, <1>2, DoesWhat DEF Up
<1>3. ASSUME NEW w \in AnyWorks, NEW n \in {"member", "identity", "claim"}, Signs(Main, n, w) PROVE Up'
  BY <1>1, <1>3, DoesWhat DEF Up
<1>4. ASSUME Ends(Main) PROVE Up'
  BY <1>1, <1>4, DoesWhat DEF Up, Idle
<1>5. ASSUME NEW pc, pc \notin Starting, Goes(Main, pc) PROVE Up'
  BY <1>1, <1>5, DoesWhat DEF Up
<1>6. ASSUME UNCHANGED th PROVE Up'
  BY <1>6 DEF Up
<1>7. CASE RemoteClaim \/ StoreName
  BY <1>4, <1>5, <1>7 DEF RemoteClaim, StoreName
<1>8. CASE Command \/ Answers
  BY <1>2, <1>3, <1>4, <1>6, <1>8, MainActs
<1>9. CASE Steps(Main)
  <2>1. CASE ReadSerial(Main)
    BY <1>1, <1>5, <2>1 DEF ReadSerial, Typed, Up, Works, AnyWorks
  <2>2. CASE SignCertificate(Main)
    BY <1>1, <1>5, <2>2 DEF SignCertificate
  <2>3. CASE Marks(Main)
    <3>1. ASSUME NEW pc \in Marking, NEW a \in Apps \cup {Nobody}, NEW s \in SUBSET Apps,
                 Does(Main, pc, [NoWork EXCEPT !.app = a, !.todo = s])
          PROVE  Up'
      <4> DEFINE w == [NoWork EXCEPT !.app = a, !.todo = s]
      <4>1. w \in AnyWorks /\ w.next = "idle" /\ pc \notin Starting /\ Does(Main, pc, w)
        BY <3>1, MarkWork DEF Marking
      <4> HIDE DEF w
      <4> QED
        BY <1>2, <4>1
    <3> QED
      BY <1>1, <1>4, <2>3, <3>1, MarksDo
  <2> DEFINE w == [NoWork EXCEPT !.todo = {th[Main].app}]
  <2>4. ASSUME th[Main].pc \in Placed
        PROVE  w \in AnyWorks /\ w.next = "idle"
    <3>1. {th[Main].app} \in SUBSET Apps /\ NoWork \in AnyWorks
      BY <1>1, <2>4, NoWorkTyped DEF Typed, Works
    <3> QED
      BY <3>1 DEF AnyWorks, NoWork
  <2>5. CASE StoreMembership(Main)
    BY <1>2, <1>4, <2>4, <2>5 DEF StoreMembership, Placed
  <2>6. CASE StoreApplication(Main) \/ StoreIdentityCertificate(Main) \/ UndoClaim(Main) \/ Fails(Main)
    BY <1>4, <1>5, <2>6 DEF StoreApplication, StoreIdentityCertificate, UndoClaim, Fails
  <2>7. CASE StoreManifest(Main)
    BY <1>2, <1>4, <2>4, <2>7 DEF StoreManifest, Placed
  <2> QED
    BY <1>9, <2>1, <2>2, <2>3, <2>5, <2>6, <2>7 DEF Steps
<1> QED
  BY <1>7, <1>8, <1>9

\* What the steps of a call, and the calls of other threads, make a thread do.
LEMMA StepsAct ==
  ASSUME Typed, NEW t \in Threads, Steps(t) \/ OtherCall(t)
  PROVE  \/ UNCHANGED th
         \/ th'[t].manifest = 0
         \/ /\ th[t].pc \notin {"ask", "decide"}
            /\ th'[t].app = th[t].app /\ th'[t].manifest = th[t].manifest
<1> DEFINE same == /\ th[t].pc \notin {"ask", "decide"}
                   /\ th'[t].app = th[t].app /\ th'[t].manifest = th[t].manifest
<1>1. th[t] \in Works /\ th[t] \in AnyWorks
  BY DEF Typed, Works
<1>2. \A s : [NoWork EXCEPT !.todo = s].manifest = 0
  BY DEF NoWork
<1>3. \A s \in SUBSET Apps : [NoWork EXCEPT !.todo = s] \in AnyWorks
  <2>1. NoWork \in AnyWorks
    BY NoWorkTyped DEF Works
  <2> QED
    BY <2>1 DEF AnyWorks
<1>4. ASSUME NEW s \in SUBSET Apps, NEW pc, Does(t, pc, [NoWork EXCEPT !.todo = s]) PROVE th'[t].manifest = 0
  <2> DEFINE w == [NoWork EXCEPT !.todo = s]
  <2>1. w \in AnyWorks /\ w.manifest = 0
    BY <1>2, <1>3
  <2>2. Does(t, pc, w)
    BY <1>4
  <2> HIDE DEF w
  <2> QED
    BY <2>1, <2>2, DoesOne
<1>5. th[t].pc \in Placed => {th[t].app} \in SUBSET Apps
  BY <1>1 DEF Works
<1>6. CASE ReadSerial(t)
  <2>1. CASE open
    BY <1>1, <1>6, <2>1 DEF ReadSerial, Typed, AnyWorks
  <2>2. CASE ~open
    BY <1>6, <2>2, DoesWhat DEF ReadSerial
  <2> QED
    BY <2>1, <2>2
<1>7. CASE SignCertificate(t) \/ StoreApplication(t) \/ UndoClaim(t) \/ Fails(t)
  BY <1>7, DoesWhat DEF SignCertificate, StoreApplication, UndoClaim, Fails, Storing
<1>8. CASE StoreIdentityCertificate(t)
  BY <1>8, DoesWhat DEF StoreIdentityCertificate
<1>9. CASE Marks(t)
  <2>1. ASSUME NEW pc \in Marking, NEW a \in Apps \cup {Nobody}, NEW s \in SUBSET Apps,
               Does(t, pc, [NoWork EXCEPT !.app = a, !.todo = s])
        PROVE  th'[t].manifest = 0
    <3> DEFINE w == [NoWork EXCEPT !.app = a, !.todo = s]
    <3>1. w \in AnyWorks /\ w.manifest = 0 /\ Does(t, pc, w)
      BY <2>1, MarkWork
    <3> HIDE DEF w
    <3> QED
      BY <3>1, DoesOne
  <2> QED
    BY <1>9, <2>1, MarksDo, DoesWhat
<1>10. CASE StoreMembership(t)
  BY <1>4, <1>5, <1>10, DoesWhat DEF StoreMembership, Placed
<1>11. CASE StoreManifest(t)
  BY <1>4, <1>5, <1>11, DoesWhat DEF StoreManifest, Placed
<1>12. CASE OtherCall(t)
  <2>1. ASSUME NEW a \in Apps, NEW g \in Groups, InstallMembership(t, a, g, "own") PROVE th'[t].manifest = 0
    <3> DEFINE w == [NoWork EXCEPT !.app = a, !.group = g]
    <3>1. w \in AnyWorks /\ Signs(t, "member", w)
      BY <2>1, FreshWorkTyped DEF InstallMembership
    <3>2. w.manifest = 0
      BY DEF NoWork
    <3> HIDE DEF w
    <3> QED
      BY <3>1, <3>2, SignsOne
  <2>2. ASSUME NEW g, RemoveGroup(t, g, "own") PROVE th'[t].manifest = 0
    <3>1. {a \in Apps : members[a][g] # 0} \in SUBSET Apps
      OBVIOUS
    <3> QED
      BY <1>4, <2>2, <3>1 DEF RemoveGroup
  <2>3. ASSUME NEW i, RemoveIdentity(t, i) PROVE th'[t].manifest = 0
    <3>1. {a \in Apps : idCerts[a].id = i} \in SUBSET Apps
      OBVIOUS
    <3> QED
      BY <1>4, <2>3, <3>1 DEF RemoveIdentity
  <2>4. ASSUME NEW a \in Apps, NEW g, RemoveMembership(t, a, g, "own") PROVE th'[t].manifest = 0
    BY <1>4, <2>4 DEF RemoveMembership
  <2> QED
    BY <1>12, <2>1, <2>2, <2>3, <2>4 DEF OtherCall
<1> QED
  BY <1>6, <1>7, <1>8, <1>9, <1>10, <1>11, <1>12 DEF Steps

------------------------------------------------------------------------------
(* Rights *)

LEMMA StartsAct ==
  ASSUME Typed, Starts \/ DefaultIdentity \/ RemoteClaim \/ StoreName
  PROVE  \/ th'[Main].manifest = 0
         \/ /\ th[Main].pc \notin {"ask", "decide"}
            /\ th'[Main].app = th[Main].app /\ th'[Main].manifest = th[Main].manifest
<1> USE DEF Threads
<1>1. ASSUME NEW n \in Nexts, NEW pc, Does(Main, pc, [NoWork EXCEPT !.next = n]) PROVE th'[Main].manifest = 0
  <2> DEFINE w == [NoWork EXCEPT !.next = n]
  <2>1. NoWork \in AnyWorks
    BY NoWorkTyped DEF Works
  <2>2. w \in AnyWorks
    BY <2>1 DEF AnyWorks
  <2>3. w.manifest = 0
    BY DEF NoWork
  <2>4. Does(Main, pc, w)
    BY <1>1
  <2> HIDE DEF w
  <2> QED
    BY <2>2, <2>3, <2>4, DoesWhat
<1>2. ASSUME NEW pc, Does(Main, pc, NoWork) PROVE th'[Main].manifest = 0
  <2>1. NoWork \in AnyWorks /\ NoWork.manifest = 0
    BY NoWorkTyped DEF Works, NoWork
  <2> QED
    BY <1>2, <2>1, DoesWhat
<1>3. CASE OpenStorage \/ InitCa \/ NoCa \/ WriteKeys
  BY <1>3, DoesWhat DEF OpenStorage, InitCa, NoCa, WriteKeys
<1>4. CASE InitAgent
  BY <1>1, <1>4, DoesWhat DEF InitAgent, Nexts
<1>5. CASE RegisterAgent
  BY <1>1, <1>5 DEF RegisterAgent, Nexts
<1>6. CASE ClaimSelf
  BY <1>2, <1>6, DoesWhat DEF ClaimSelf
<1>7. CASE DefaultIdentity \/ RemoteClaim \/ StoreName
  BY <1>7, DoesWhat DEF DefaultIdentity, RemoteClaim, StoreName
<1> QED
  BY <1>3, <1>4, <1>5, <1>6, <1>7 DEF Starts, Start

\* The rights in a row stay, or are taken away, or come from a thread that stores them.
RowRights ==
  \A a \in Apps :
    \/ apps'[a].manifest \in {0, apps[a].manifest}
    \/ \E t \in Threads : /\ th[t].pc \in {"manifest", "describe"} /\ th[t].app = a
                          /\ apps'[a].manifest = th[t].manifest

LEMMA FieldsKeepManifest ==
  ASSUME apps \in [Apps -> Rows], NEW b
  PROVE  /\ \A s : apps' = [apps EXCEPT ![b].sync = s] => RowRights
         /\ \A m : apps' = [apps EXCEPT ![b].meta = m] => RowRights
         /\ apps' = [apps EXCEPT ![b] = NoRow] => RowRights
         /\ apps' = [apps EXCEPT ![b] = [NoRow EXCEPT !.stored = TRUE]] => RowRights
         /\ apps' = [a \in Apps |-> NoRow] => RowRights
         /\ UNCHANGED apps => RowRights
<1>1. NoRow.manifest = 0 /\ [NoRow EXCEPT !.stored = TRUE].manifest = 0
  BY DEF NoRow
<1>2. \A s : apps' = [apps EXCEPT ![b].sync = s] => RowRights
  BY DEF Rows, RowRights
<1>3. \A m : apps' = [apps EXCEPT ![b].meta = m] => RowRights
  BY DEF Rows, RowRights
<1>4. apps' = [apps EXCEPT ![b] = NoRow] => RowRights
  BY <1>1 DEF RowRights
<1>5. apps' = [apps EXCEPT ![b] = [NoRow EXCEPT !.stored = TRUE]] => RowRights
  BY <1>1 DEF RowRights
<1>6. (apps' = [a \in Apps |-> NoRow] => RowRights) /\ (UNCHANGED apps => RowRights)
  BY <1>1 DEF RowRights
<1> QED
  BY <1>2, <1>3, <1>4, <1>5, <1>6

LEMMA RowsGetRights ==
  ASSUME Typed, Next
  PROVE  RowRights
<1> USE DEF Typed, TablesTyped, RemoveRow
<1>1. UNCHANGED apps => RowRights
  BY FieldsKeepManifest
<1>2. CASE Starts
  BY <1>1, <1>2 DEF Starts, Start, OpenStorage, InitCa, NoCa, WriteKeys, InitAgent, RegisterAgent, ClaimSelf,
                    tables, database, disk
<1>3. CASE DefaultIdentity \/ Stops \/ Answers \/ RemoteClaim
  BY <1>1, <1>3 DEF DefaultIdentity, Stops, Vanishes, Answers, AnswerClaim, Decide, RemoteClaim, tables, database, disk
<1>4. CASE StoreName
  BY <1>1, <1>4, FieldsKeepManifest DEF StoreName, SetAppMetaData
<1>5. CASE Command
  <2>1. ASSUME NEW a \in Apps, Unclaim(a) PROVE RowRights
    BY <1>1, <2>1 DEF Unclaim, tables, database, disk
  <2>2. ASSUME NEW a \in Apps, NEW n \in Names, Claim(a) \/ ReadName(a, n) PROVE RowRights
    BY <1>1, <2>2 DEF Claim, ReadName, tables, database, disk
  <2>3. ASSUME NEW a \in Apps, NEW g \in Groups, NEW add \in BOOLEAN, UpdateMembership(a, g, add) PROVE RowRights
    BY <1>1, <2>3 DEF UpdateMembership
  <2>4. ASSUME NEW g \in Groups, AddGroup(g) \/ DropGroup(g) PROVE RowRights
    BY <1>1, <2>4 DEF AddGroup, DropGroup
  <2>5. CASE HandleManifestUpdate
    BY <1>1, <2>5 DEF HandleManifestUpdate, tables, database, disk
  <2>6. ASSUME NEW a \in Apps, Claim(a) PROVE RowRights
    BY <1>1, <2>6 DEF Claim, tables, database, disk
  <2> QED
    BY <1>5, <2>1, <2>2, <2>3, <2>4, <2>5, <2>6 DEF Command
<1>6. ASSUME NEW t \in Threads, Working(t) PROVE RowRights
  <2>1. CASE ReadSerial(t) \/ SignCertificate(t) \/ StoreMembership(t) \/ StoreIdentityCertificate(t) \/ Fails(t)
    BY <1>1, <2>1 DEF ReadSerial, SignCertificate, StoreMembership, StoreIdentityCertificate, Fails,
                      tables, database, disk
  <2>2. CASE Marks(t)
    BY <1>1, <2>2, MarksDo, FieldsKeepManifest
  <2>3. CASE StoreApplication(t) \/ UndoClaim(t)
    BY <1>1, <2>3, FieldsKeepManifest DEF StoreApplication, UndoClaim
  <2>4. CASE StoreManifest(t)
    <3>1. CASE UNCHANGED apps
      BY <1>1, <3>1
    <3>2. CASE apps' = [apps EXCEPT ![th[t].app].manifest = th[t].manifest]
      BY <2>4, <3>2 DEF StoreManifest, RowRights, Rows
    <3> QED
      BY <2>4, <3>1, <3>2 DEF StoreManifest
  <2> QED
    BY <1>6, <2>1, <2>2, <2>3, <2>4 DEF Working, Steps
<1>7. ASSUME NEW t \in Threads, OtherCall(t) PROVE RowRights
  <2>1. \/ UNCHANGED apps \/ (\E a \in Apps : RemoveApplication(t, a)) \/ Reset(t)
    BY <1>7 DEF OtherCall, tables
  <2> QED
    BY <1>1, <2>1, FieldsKeepManifest DEF RemoveApplication, Reset
<1>8. ASSUME NEW a \in Apps, NEW n \in Names,
             OnApplicationStateChange(a) \/ OnManifestUpdate(a) \/ ManifestChanges(a) \/ Announced(a, n)
      PROVE  RowRights
  BY <1>1, <1>8 DEF OnApplicationStateChange, OnManifestUpdate, ManifestChanges, Announced,
                    registry, tables, database, disk
<1>9. ASSUME NEW a \in Apps, OnApplicationStateChange(a) \/ OnManifestUpdate(a) \/ ManifestChanges(a)
      PROVE  RowRights
  BY <1>1, <1>9 DEF OnApplicationStateChange, OnManifestUpdate, ManifestChanges, registry, tables, database, disk
<1> QED
  BY <1>2, <1>3, <1>4, <1>5, <1>6, <1>7, <1>8, <1>9 DEF Next

\* What the user has accepted stays accepted.
LEMMA AcceptedGrows ==
  ASSUME Typed, Next
  PROVE  \A a \in Apps : accepted[a] \subseteq accepted'[a]
<1>1. UNCHANGED accepted \/ Answers
  BY DEF Next, Starts, DefaultIdentity, Stops, Command, Claim, Unclaim, ReadName, UpdateMembership, AddGroup,
         DropGroup, HandleManifestUpdate, RemoteClaim, StoreName, Working, OtherCall, OnApplicationStateChange,
         OnManifestUpdate, ManifestChanges, Announced, outside
<1>2. ASSUME NEW b \in BOOLEAN, AnswerClaim(b) \/ Decide(b)
      PROVE  \A a \in Apps : accepted[a] \subseteq accepted'[a]
  BY <1>2 DEF AnswerClaim, Decide, Typed, HeardTyped
<1> QED
  BY <1>1, <1>2 DEF Answers

LEMMA NextRights ==
  ASSUME Typed, RightsInv, Next
  PROVE  RightsInv'
<1> USE DEF Threads
<1>1. OnlyAcceptedRights'
  <2>1. ASSUME NEW a \in Apps, apps'[a].manifest # 0 PROVE apps'[a].manifest \in accepted'[a]
    <3>1. CASE apps'[a].manifest = apps[a].manifest
      BY <2>1, <3>1, AcceptedGrows DEF RightsInv, OnlyAcceptedRights
    <3>2. ASSUME NEW t \in Threads, th[t].pc \in {"manifest", "describe"}, th[t].app = a,
                 apps'[a].manifest = th[t].manifest
          PROVE  apps'[a].manifest \in accepted'[a]
      BY <2>1, <3>2, AcceptedGrows DEF RightsInv, ThreadRights
    <3> QED
      BY <2>1, <3>1, <3>2, RowsGetRights DEF RowRights
  <2> QED
    BY <2>1 DEF OnlyAcceptedRights
<1> DEFINE ok(u) == th'[u].pc \notin {"ask", "decide"} /\ th'[u].app \in Apps
                      => th'[u].manifest = 0 \/ th'[u].manifest \in accepted'[th'[u].app]
           same(u) == th[u].pc \notin {"ask", "decide"} /\ th'[u].app = th[u].app /\ th'[u].manifest = th[u].manifest
<1>2. ASSUME NEW u \in Threads, \/ th'[u] = th[u] \/ th'[u].manifest = 0 \/ same(u) PROVE ok(u)
  BY <1>2, AcceptedGrows DEF RightsInv, ThreadRights
<1>3. CASE UNCHANGED th
  BY <1>1, <1>2, <1>3 DEF RightsInv, ThreadRights
<1>4. CASE Stops
  <2>1. ASSUME NEW u \in Threads PROVE th'[u].manifest = 0
    BY <1>4 DEF Stops, Vanishes, AtStart, NoWork
  <2> QED
    BY <1>1, <1>2, <2>1 DEF RightsInv, ThreadRights
<1>5. ASSUME NEW t \in Threads, Steps(t) \/ OtherCall(t) PROVE ThreadRights'
  <2>1. \A u \in Threads : ok(u)
    BY <1>2, <1>5, StepsMove, StepsAct
  <2> QED
    BY <2>1 DEF ThreadRights
<1>6. CASE Starts \/ DefaultIdentity \/ RemoteClaim \/ StoreName
  <2>1. \A u \in Threads : ok(u)
    BY <1>2, <1>6, MainMoves, StartsAct DEF MainStep
  <2> QED
    BY <1>1, <2>1 DEF RightsInv, ThreadRights
<1>7. CASE Command \/ Answers
  <2>1. \A u \in Others : ok(u)
    BY <1>2, <1>7, MainMoves DEF MainStep
  <2>2. ok(Main)
    <3>1. CASE UNCHANGED th \/ Ends(Main)
      BY <1>2, <3>1, DoesWhat
    <3>2. ASSUME NEW w \in AnyWorks, NEW pc \in {"ask", "decide", "name", "sync", "reset"}, Does(Main, pc, w),
                 pc \notin {"ask", "decide"} => w.manifest = 0
          PROVE  ok(Main)
      BY <3>2, DoesWhat
    <3>3. ASSUME NEW w \in AnyWorks, NEW n \in {"member", "identity", "claim"}, Signs(Main, n, w),
                 w.manifest # 0 => w.app \in Apps /\ w.manifest \in accepted'[w.app]
          PROVE  ok(Main)
      BY <3>3, DoesWhat
    <3> QED
      BY <1>7, <3>1, <3>2, <3>3, MainActs
  <2> QED
    BY <1>1, <2>1, <2>2 DEF RightsInv, ThreadRights
<1>8. ASSUME NEW a \in Apps, NEW n \in Names,
             OnApplicationStateChange(a) \/ OnManifestUpdate(a) \/ ManifestChanges(a) \/ Announced(a, n)
      PROVE  UNCHANGED th
  BY <1>8 DEF OnApplicationStateChange, OnManifestUpdate, ManifestChanges, Announced, registry
<1>9. ASSUME NEW a \in Apps, OnApplicationStateChange(a) \/ OnManifestUpdate(a) \/ ManifestChanges(a)
      PROVE  UNCHANGED th
  BY <1>9 DEF OnApplicationStateChange, OnManifestUpdate, ManifestChanges, registry
<1> QED
  BY <1>1, <1>3, <1>4, <1>5, <1>6, <1>7, <1>8, <1>9 DEF RightsInv, Next, Working

\* Whatever the application asks for meanwhile, and whichever thread stores the
\* certificate: the rights in the database were accepted by the user.  What is
\* needed besides is that a thread which is past the question carries only such rights.
THEOREM RightsAreAccepted == Spec => []OnlyAcceptedRights
<1>1. Init => RightsInv
  <2> SUFFICES ASSUME Init PROVE RightsInv
    OBVIOUS
  <2>1. \A t \in Threads : th[t].manifest = 0
    BY DEF Init, RegistryInit, AtStart, NoWork
  <2>2. \A a \in Apps : apps[a].manifest = 0
    BY DEF Init, RegistryInit, NoRow
  <2> QED
    BY <2>1, <2>2 DEF RightsInv, OnlyAcceptedRights, ThreadRights
<1>2. Typed /\ RightsInv /\ [Next]_vars => RightsInv'
  <2>1. Typed /\ RightsInv /\ UNCHANGED vars => RightsInv'
    BY DEF vars, registry, disk, database, tables, outside, RightsInv, OnlyAcceptedRights, ThreadRights
  <2> QED
    BY <2>1, NextRights
<1>3. RightsInv => OnlyAcceptedRights
  BY DEF RightsInv
<1> QED
  BY <1>1, <1>2, <1>3, InitTyped, NextTyped, PTL DEF Spec

------------------------------------------------------------------------------
(* The key of the authority *)

LEMMA OutsideMoves ==
  ASSUME NEW a \in Apps
  PROVE  /\ OnApplicationStateChange(a) \/ OnManifestUpdate(a) \/ ManifestChanges(a) => UNCHANGED registry
         /\ \A n \in Names : Announced(a, n) => UNCHANGED registry
BY DEF OnApplicationStateChange, OnManifestUpdate, ManifestChanges, Announced

LEMMA NextQuiet ==
  ASSUME Typed, Quiet, Next
  PROVE  Quiet'
<1> USE DEF Threads
<1>1. CASE UNCHANGED th
  BY <1>1 DEF Quiet, Up
<1>2. CASE Stops
  BY <1>2, RegistryAssumption DEF Stops, Vanishes, AtStart, NoWork, Quiet
<1>3. CASE Starts \/ DefaultIdentity
  <2>1. ~Up
    BY <1>3 DEF Starts, Start, OpenStorage, InitCa, NoCa, WriteKeys, InitAgent, RegisterAgent, ClaimSelf,
                DefaultIdentity, Up, Starting
  <2>2. \A u \in Others : th'[u] = th[u]
    BY <1>3, MainMoves DEF MainStep
  <2> QED
    BY <2>1, <2>2 DEF Quiet
<1>4. CASE Command \/ Answers \/ RemoteClaim \/ StoreName
  <2>1. \A u \in Others : th'[u] = th[u]
    BY <1>4, MainMoves DEF MainStep
  <2>2. Up => Up'
    BY <1>4, UpStays
  <2> QED
    BY <2>1, <2>2 DEF Quiet
<1>5. CASE Steps(Main)
  <2>1. \A u \in Others : th'[u] = th[u]
    BY <1>5, StepsMove, RegistryAssumption
  <2>2. Up => Up'
    BY <1>5, UpStays
  <2> QED
    BY <2>1, <2>2 DEF Quiet
<1>6. ASSUME NEW t \in Others, Steps(t) \/ OtherCall(t) PROVE Quiet'
  <2>1. th'[Main] = th[Main]
    BY <1>6, StepsMove, RegistryAssumption
  <2>2. CASE OtherCall(t)
    BY <2>1, <2>2 DEF OtherCall, Calls, Up, Quiet
  <2>3. CASE Steps(t)
    <3>1. th[t].pc # "idle"
      BY <2>3, MarksDo DEF Steps, ReadSerial, SignCertificate, StoreMembership, StoreApplication,
                           StoreIdentityCertificate, StoreManifest, UndoClaim, Fails, Storing, Marking
    <3> QED
      BY <2>1, <3>1 DEF Up, Quiet
  <2> QED
    BY <1>6, <2>2, <2>3
<1>7. OtherCall(Main) => FALSE
  BY RegistryAssumption DEF OtherCall, Calls
<1> QED
  BY <1>1, <1>2, <1>3, <1>4, <1>5, <1>6, <1>7, OutsideMoves DEF Next, Working, registry

\* Before there is a file, the process does nothing but open the storage and create it.
LEMMA NoFileYet ==
  ASSUME Typed, Quiet, Fresh, Next, file.part = "none"
  PROVE  UNCHANGED <<idCerts, members>> /\ pkey' = 0 /\ Fresh'
<1> USE DEF Threads
<1>1. th[Main].pc \in {"down", "open"} /\ pkey = 0 /\ ~Up
  BY DEF Fresh, Up, Starting
<1>2. CASE OpenStorage
  BY <1>1, <1>2, DoesWhat DEF OpenStorage, Fresh, tables
<1>3. CASE InitCa
  BY <1>1, <1>3 DEF InitCa, Fresh, database, tables, Typed, StateTyped
<1>4. CASE UNCHANGED registry
  BY <1>1, <1>4 DEF registry, disk, database, tables, memory, Fresh
<1>5. CASE Stops
  <2>1. th'[Main].pc = "down"
    BY <1>5, RegistryAssumption DEF Stops, Vanishes, AtStart, NoWork
  <2> QED
    BY <1>5, <2>1 DEF Stops, Vanishes, disk, database, tables, Fresh
<1>6. ~(NoCa \/ WriteKeys \/ InitAgent \/ RegisterAgent \/ ClaimSelf)
  BY <1>1 DEF NoCa, WriteKeys, InitAgent, RegisterAgent, ClaimSelf
<1>7. ~(DefaultIdentity \/ Command \/ Answers \/ RemoteClaim \/ StoreName)
  BY <1>1 DEF DefaultIdentity, Command, Claim, Unclaim, ReadName, UpdateMembership, AddGroup, DropGroup,
              HandleManifestUpdate, Prompt, Answers, AnswerClaim, Decide, RemoteClaim, StoreName
<1>8. ASSUME NEW t \in Threads PROVE ~(Working(t) \/ OtherCall(t))
  <2>1. ~OtherCall(t)
    BY <1>1 DEF OtherCall, Calls
  <2>2. th[t].pc \in {"idle", "down", "open"}
    BY <1>1 DEF Quiet
  <2>3. ~Steps(t)
    BY <2>2, MarksDo DEF Steps, ReadSerial, SignCertificate, StoreMembership, StoreApplication,
                         StoreIdentityCertificate, StoreManifest, UndoClaim, Fails, Storing, Marking
  <2> QED
    BY <2>1, <2>3 DEF Working
<1> QED
  BY <1>2, <1>3, <1>4, <1>5, <1>6, <1>7, <1>8, OutsideMoves DEF Next, Starts, Start

\* A certificate that is stored is one of the key in the file.
CertKeys ==
  \A a \in Apps :
    /\ idCerts'[a] \in {NoCert, idCerts[a]} \/ idCerts'[a].key = file.key
    /\ \A g \in Groups : members'[a][g] \in {0, members[a][g], file.key}

LEMMA StepsKeys ==
  ASSUME Typed, NEW t \in Threads, Steps(t)
  PROVE  CertKeys /\ UNCHANGED <<file, pkey>>
<1> USE DEF CertKeys, Typed, TablesTyped
<1>1. CASE ReadSerial(t) \/ SignCertificate(t) \/ Marks(t) \/ StoreApplication(t) \/ StoreManifest(t) \/ Fails(t)
  BY <1>1, MarksDo DEF ReadSerial, SignCertificate, StoreApplication, StoreManifest, Fails, disk, database, tables,
              memory
<1>2. CASE StoreMembership(t)
  BY <1>2 DEF StoreMembership, SigningKey, memory
<1>3. CASE StoreIdentityCertificate(t)
  BY <1>3 DEF StoreIdentityCertificate, IdentityCertificate, SigningKey, memory
<1>4. CASE UndoClaim(t)
  BY <1>4 DEF UndoClaim, RemoveRow, memory
<1> QED
  BY <1>1, <1>2, <1>3, <1>4 DEF Steps

LEMMA CallsKeys ==
  ASSUME Typed, NEW t \in Threads, OtherCall(t)
  PROVE  CertKeys /\ UNCHANGED <<file, pkey>>
<1> USE DEF CertKeys, Typed, TablesTyped
<1>1. UNCHANGED <<file, pkey>>
  BY DEF OtherCall
<1>2. UNCHANGED <<idCerts, members>> => CertKeys
  OBVIOUS
<1>3. ASSUME NEW g \in Groups, RemoveGroup(t, g, "own"), UNCHANGED idCerts PROVE CertKeys
  BY <1>3 DEF RemoveGroup, Cascade
<1>4. ASSUME NEW i \in Identities, RemoveIdentity(t, i), UNCHANGED members PROVE CertKeys
  BY <1>4 DEF RemoveIdentity
<1>5. ASSUME NEW a \in Apps, NEW g \in Groups, RemoveMembership(t, a, g, "own"), UNCHANGED idCerts PROVE CertKeys
  BY <1>5 DEF RemoveMembership
<1>6. ASSUME NEW a \in Apps, RemoveApplication(t, a) PROVE CertKeys
  BY <1>6 DEF RemoveApplication, RemoveRow
<1>7. Reset(t) => CertKeys
  BY DEF Reset
<1> QED
  BY <1>1, <1>2, <1>3, <1>4, <1>5, <1>6, <1>7 DEF OtherCall, tables

LEMMA MainKeys ==
  ASSUME Typed, MainStep, file.part # "none"
  PROVE  /\ CertKeys /\ file'.key = file.key /\ file'.part # "none"
         /\ pkey' \in {pkey, file.key}
<1> USE DEF CertKeys, Typed, TablesTyped
<1>1. UNCHANGED <<idCerts, members>> => CertKeys
  OBVIOUS
<1>2. CASE Starts
  <2>1. UNCHANGED <<idCerts, members>> /\ pkey' \in {pkey, file.key}
    BY <1>2 DEF Starts, Start, OpenStorage, InitCa, NoCa, WriteKeys, InitAgent, RegisterAgent, ClaimSelf,
                tables, database, disk, memory
  <2>2. file' = file \/ \E part \in {"header", "private", "whole"} : file' = [file EXCEPT !.part = part]
    BY <1>2 DEF Starts, Start, OpenStorage, InitCa, NoCa, WriteKeys, InitAgent, RegisterAgent, ClaimSelf, disk
  <2>3. file'.key = file.key /\ file'.part # "none"
    BY <2>2 DEF StateTyped
  <2> QED
    BY <1>1, <2>1, <2>3
<1>3. CASE DefaultIdentity \/ Answers \/ RemoteClaim \/ StoreName
  BY <1>1, <1>3 DEF DefaultIdentity, Answers, AnswerClaim, Decide, RemoteClaim, StoreName, tables, database,
                    disk, memory
<1>4. ASSUME Command PROVE CertKeys /\ UNCHANGED <<file, pkey>>
  <2>1. ASSUME NEW a \in Apps, Claim(a) \/ Unclaim(a) \/ (\E n \in Names : ReadName(a, n))
        PROVE  CertKeys /\ UNCHANGED <<file, pkey>>
    BY <1>1, <2>1 DEF Claim, Unclaim, ReadName, tables, database, disk, memory
  <2>2. ASSUME NEW a \in Apps, NEW g \in Groups, NEW add \in BOOLEAN, UpdateMembership(a, g, add)
        PROVE  CertKeys /\ UNCHANGED <<file, pkey>>
    BY <1>1, <2>2 DEF UpdateMembership, RemoveMembership, memory
  <2>3. ASSUME NEW g \in Groups, AddGroup(g) \/ DropGroup(g) PROVE CertKeys /\ UNCHANGED <<file, pkey>>
    BY <1>1, <2>3 DEF AddGroup, DropGroup, RemoveGroup, Cascade, memory
  <2>4. CASE HandleManifestUpdate
    BY <1>1, <2>4 DEF HandleManifestUpdate, tables, database, disk, memory
  <2> QED
    BY <1>4, <2>1, <2>2, <2>3, <2>4 DEF Command
<1> QED
  BY <1>2, <1>3, <1>4 DEF MainStep

LEMMA NextKeys ==
  ASSUME Typed, Quiet, KeyInv, Next
  PROVE  KeyInv'
<1>1. CASE file.part = "none"
  <2>1. UNCHANGED <<idCerts, members>> /\ pkey' = 0 /\ Fresh'
    BY <1>1, NoFileYet DEF KeyInv
  <2>2. \A a \in Apps : idCerts[a] = NoCert /\ \A g \in Groups : members[a][g] = 0
    BY <1>1 DEF KeyInv, Fresh
  <2> QED
    BY <2>1, <2>2 DEF KeyInv, CertsVerify
<1>2. CASE file.part # "none"
  <2>1. ASSUME CertKeys, file'.key = file.key, file'.part # "none", pkey' \in {0, pkey, file.key} PROVE KeyInv'
    BY <2>1 DEF KeyInv, CertsVerify, CertKeys, Fresh
  <2>2. CASE MainStep
    BY <1>2, <2>1, <2>2, MainKeys
  <2>3. ASSUME NEW t \in Threads, Steps(t) \/ OtherCall(t) PROVE KeyInv'
    BY <1>2, <2>1, <2>3, StepsKeys, CallsKeys
  <2>4. UNCHANGED <<idCerts, members>> => CertKeys
    BY DEF CertKeys
  <2>5. CASE Stops
    BY <1>2, <2>1, <2>4, <2>5 DEF Stops, Vanishes, disk, database, tables
  <2>6. CASE UNCHANGED registry
    BY <1>2, <2>1, <2>4, <2>6 DEF registry, disk, database, tables, memory
  <2> QED
    BY <2>2, <2>3, <2>5, <2>6, OutsideMoves DEF Next, Working, MainStep
<1> QED
  BY <1>1, <1>2

\* No restart, at whatever step of the start the process stopped, and no race makes a
\* certificate in the database worthless: all are of the key that is in the file, which
\* is also the one in memory.  What is needed besides is that nobody gets as far as to
\* store a certificate before there is a file.
THEOREM CertificatesVerify == Spec => []CertsVerify
<1>1. Init => Quiet /\ KeyInv
  <2> SUFFICES ASSUME Init PROVE Quiet /\ KeyInv
    OBVIOUS
  <2> USE DEF Init, RegistryInit
  <2>1. th[Main].pc = "down" /\ \A t \in Others : th[t].pc = "idle"
    BY RegistryAssumption DEF AtStart, NoWork, Threads
  <2>2. /\ pkey = 0
        /\ \A a \in Apps : idCerts[a] = NoCert /\ \A g \in Groups : members[a][g] = 0
    OBVIOUS
  <2> QED
    BY <2>1, <2>2 DEF Quiet, KeyInv, CertsVerify, Fresh
<1>2. Typed /\ Quiet /\ KeyInv /\ [Next]_vars => (Quiet /\ KeyInv)'
  <2>1. Quiet /\ KeyInv /\ UNCHANGED vars => (Quiet /\ KeyInv)'
    BY DEF vars, registry, disk, database, tables, memory, Quiet, Up, KeyInv, CertsVerify, Fresh
  <2> QED
    BY <2>1, NextQuiet, NextKeys
<1>3. KeyInv => CertsVerify
  BY DEF KeyInv
<1> QED
  BY <1>1, <1>2, <1>3, InitTyped, NextTyped, PTL DEF Spec

------------------------------------------------------------------------------
(* Serial numbers *)

LEMMA LimitFacts ==
  /\ Limit \in Nat /\ Limit >= 2 /\ MaxStops \in Nat
  /\ 2 * (MaxStops + 1) <= Limit /\ MaxSigned \in Nat /\ MaxSigned <= Limit /\ Serials = 0 .. Limit - 1
BY RegistryAssumption DEF Limit, Serials

LEMMA ThreadsFinite ==
  \A S \in SUBSET Threads : /\ IsFiniteSet(S) /\ Cardinality(S) \in Nat
                            /\ Cardinality(S) <= Cardinality(Threads)
<1>1. IsFiniteSet(Threads)
  <2>1. IsFiniteSet(Others) /\ Threads = Others \cup {Main}
    BY RegistryAssumption DEF Threads
  <2> QED
    BY <2>1, FS_AddElement
<1> QED
  BY <1>1, FS_Subset, FS_CardinalityType

\* The numbers that are in use differ, and the next one is free.
LEMMA NumbersDiffer ==
  /\ \A i, j \in 1 .. Limit : Number(i) = Number(j) => i = j
  /\ \A i \in 1 .. Limit : Number(i) \in Serials /\ (Number(i) + 1) % Limit = Number(i + 1)
  /\ Number(1) = 1
<1> USE LimitFacts
<1>1. \A i, j \in 1 .. Limit : Number(i) = Number(j) => i = j
  BY DEF Number
<1>2. \A i \in 1 .. Limit : Number(i) \in Serials
  BY DEF Number
<1>3. ASSUME NEW s \in 0 .. Limit - 1 PROVE (s + 1) % Limit = IF s + 1 = Limit THEN 0 ELSE s + 1
  <2> HIDE DEF Limit
  <2> QED
    OBVIOUS
<1>4. ASSUME NEW i \in 1 .. Limit PROVE (Number(i) + 1) % Limit = Number(i + 1)
  <2>1. (Number(i) + 1) % Limit = IF Number(i) + 1 = Limit THEN 0 ELSE Number(i) + 1
    BY <1>2, <1>3
  <2> QED
    BY <2>1 DEF Number
<1> QED
  BY <1>1, <1>2, <1>4 DEF Number

\* A step of t that has nothing to do with the counter, unless t begins to sign.
Plain(t) ==
  /\ UNCHANGED <<counter, signed, mutex>>
  /\ \A u \in Threads \ {t} : th'[u] = th[u]
  /\ \/ th'[t] = th[t]
     \/ th'[t].pc \notin {"serial", "sign"}
     \/ th'[t].pc = "serial" /\ Len(signed) + Cardinality(Threads) <= MaxSigned

LEMMA NumbersStay ==
  ASSUME Numbered, Locked, UNCHANGED <<counter, signed, mutex>>,
         \A u \in Threads : th'[u].pc = "sign" => th'[u] = th[u]
  PROVE  Numbered' /\ Locked'
BY DEF Numbered, Locked, Number

LEMMA PlainSerial ==
  ASSUME Typed, Numbered, Locked, Room, NEW t \in Threads, Plain(t)
  PROVE  (Numbered /\ Locked /\ Room)'
<1>1. Numbered' /\ Locked'
  BY NumbersStay DEF Plain
<1>2. Signing' \subseteq Threads /\ Signing \subseteq Threads /\ Len(signed) \in Nat
  BY DEF Signing, Typed, StateTyped
<1>3. CASE Len(signed) + Cardinality(Threads) <= MaxSigned
  BY <1>1, <1>2, <1>3, ThreadsFinite, LimitFacts DEF Room, Plain
<1>4. CASE th'[t] = th[t] \/ th'[t].pc \notin {"serial", "sign"}
  <2>1. Signing' \subseteq Signing
    BY <1>4 DEF Signing, Plain
  <2>2. Cardinality(Signing') <= Cardinality(Signing)
    BY <1>2, <2>1, ThreadsFinite, FS_Subset
  <2> QED
    BY <1>1, <1>2, <2>2, ThreadsFinite, LimitFacts DEF Room, Plain
<1> QED
  BY <1>3, <1>4 DEF Plain

\* A process that runs has claimed itself, and does not go back.
LEMMA UpIsClaimed ==
  ASSUME StartRoom, Up
  PROVE  selfClaimed.claimed
BY DEF StartRoom, Up, Registering, Early, Starting

LEMMA UpHasRoom ==
  ASSUME StartRoom, Up, Up', UNCHANGED selfClaimed
  PROVE  StartRoom'
BY UpIsClaimed DEF StartRoom, Up, Registering, Early, Starting

LEMMA StartRoomStays ==
  ASSUME StartRoom, th'[Main] = th[Main], UNCHANGED <<selfClaimed, signed>>, spent'.stops = spent.stops
  PROVE  StartRoom'
BY DEF StartRoom, Registering, Taken

\* Only the start changes what the agent knows of itself.
LEMMA SelfStays ==
  ASSUME Typed, \/ DefaultIdentity \/ Command \/ Answers \/ RemoteClaim \/ StoreName
                \/ \E t \in Threads : Steps(t) \/ OtherCall(t)
  PROVE  UNCHANGED selfClaimed /\ spent'.stops = spent.stops
<1> USE DEF disk, history
<1>1. CASE DefaultIdentity \/ Answers \/ RemoteClaim \/ StoreName
  BY <1>1 DEF DefaultIdentity, Answers, AnswerClaim, Decide, RemoteClaim, StoreName
<1>2. CASE Command
  BY <1>2 DEF Command, Claim, Unclaim, ReadName, UpdateMembership, AddGroup, DropGroup, HandleManifestUpdate
<1>3. ASSUME NEW t \in Threads, Steps(t) PROVE UNCHANGED <<selfClaimed, spent>>
  BY <1>3, MarksDo DEF Steps, ReadSerial, SignCertificate, StoreMembership, StoreApplication,
                       StoreIdentityCertificate, StoreManifest, UndoClaim, Fails
<1>4. ASSUME NEW t \in Threads, OtherCall(t) PROVE UNCHANGED selfClaimed /\ spent'.stops = spent.stops
  BY <1>4 DEF OtherCall, Calls, Typed, StateTyped
<1> QED
  BY <1>1, <1>2, <1>3, <1>4

LEMMA PlainMain ==
  ASSUME Typed, DefaultIdentity \/ Command \/ Answers \/ RemoteClaim \/ StoreName
  PROVE  Plain(Main)
<1> USE DEF Threads
<1>1. UNCHANGED <<counter, signed, mutex>>
  <2>1. CASE DefaultIdentity \/ Answers \/ RemoteClaim \/ StoreName
    BY <2>1 DEF DefaultIdentity, Answers, AnswerClaim, Decide, RemoteClaim, StoreName, disk, database, memory, history
  <2>2. CASE Command
    BY <2>2 DEF Command, Claim, Unclaim, ReadName, UpdateMembership, AddGroup, DropGroup, HandleManifestUpdate,
                disk, database, memory, history
  <2> QED
    BY <2>1, <2>2
<1>2. \A u \in Threads \ {Main} : th'[u] = th[u]
  BY MainMoves DEF MainStep
<1>3. Ends(Main) => th'[Main].pc \notin {"serial", "sign"}
  BY DoesWhat DEF Idle
<1>4. CASE DefaultIdentity \/ RemoteClaim \/ StoreName
  BY <1>1, <1>2, <1>3, <1>4, DoesWhat DEF DefaultIdentity, RemoteClaim, StoreName, Plain
<1>5. CASE Command \/ Answers
  <2>1. ASSUME NEW w \in AnyWorks, NEW pc \in {"ask", "decide", "name", "sync", "reset"}, Does(Main, pc, w)
        PROVE  th'[Main].pc \notin {"serial", "sign"}
    BY <2>1, DoesWhat
  <2>2. ASSUME NEW w \in AnyWorks, NEW n \in {"member", "identity", "claim"}, Signs(Main, n, w)
        PROVE  th'[Main].pc = "serial" /\ Len(signed) + Cardinality(Threads) <= MaxSigned
    BY <2>2, DoesWhat
  <2> QED
    BY <1>1, <1>2, <1>3, <1>5, <2>1, <2>2, MainActs DEF Plain
<1> QED
  BY <1>4, <1>5

LEMMA PlainSteps ==
  ASSUME Typed, NEW t \in Threads, Steps(t), ~ReadSerial(t), ~SignCertificate(t)
  PROVE  Plain(t)
<1> USE DEF Typed
<1>1. UNCHANGED <<counter, signed, mutex>>
  BY MarksDo
  DEF Steps, StoreMembership, StoreApplication, StoreIdentityCertificate, StoreManifest, UndoClaim, Fails, disk,
      database, memory, history
<1>2. \A u \in Threads \ {t} : th'[u] = th[u]
  BY StepsMove
<1>3. \A s : Does(t, "sync", [NoWork EXCEPT !.todo = s]) => th'[t].pc = "sync"
  BY DEF Does, NoWork
<1>4. Ends(t) => th'[t].pc \notin {"serial", "sign"}
  BY DoesWhat DEF Idle
<1>5. CASE Marks(t)
  <2>1. th'[t].pc \notin {"serial", "sign"}
    BY <1>4, <1>5, MarksDo DEF Does, NoWork, Marking
  <2> QED
    BY <1>1, <1>2, <2>1 DEF Plain
<1>6. CASE StoreMembership(t) \/ StoreManifest(t)
  BY <1>1, <1>2, <1>3, <1>4, <1>6 DEF StoreMembership, StoreManifest, Plain
<1>7. CASE StoreApplication(t) \/ StoreIdentityCertificate(t) \/ UndoClaim(t) \/ Fails(t)
  BY <1>1, <1>2, <1>4, <1>7, DoesWhat DEF StoreApplication, StoreIdentityCertificate, UndoClaim, Fails, Plain
<1> QED
  BY <1>5, <1>6, <1>7 DEF Steps

LEMMA PlainCalls ==
  ASSUME Typed, NEW t \in Threads, OtherCall(t), ~Reset(t)
  PROVE  Plain(t)
<1> USE DEF Typed
<1>1. UNCHANGED <<counter, signed, mutex>>
  BY DEF OtherCall
<1>2. \A u \in Threads \ {t} : th'[u] = th[u]
  BY StepsMove
<1>3. \A s : /\ Does(t, "sync", [NoWork EXCEPT !.todo = s]) => th'[t].pc = "sync"
             /\ Does(t, "reset", [NoWork EXCEPT !.todo = s]) => th'[t].pc = "reset"
  BY DEF Does, NoWork
<1>4. ASSUME NEW a \in Apps, NEW g \in Groups, InstallMembership(t, a, g, "own")
      PROVE  th'[t].pc = "serial" /\ Len(signed) + Cardinality(Threads) <= MaxSigned
  <2> DEFINE w == [NoWork EXCEPT !.app = a, !.group = g]
  <2>1. w \in AnyWorks /\ Signs(t, "member", w)
    BY <1>4, FreshWorkTyped DEF InstallMembership
  <2> HIDE DEF w
  <2> QED
    BY <2>1, DoesWhat
<1>5. \/ UNCHANGED th
      \/ \E s : Does(t, "sync", [NoWork EXCEPT !.todo = s]) \/ Does(t, "reset", [NoWork EXCEPT !.todo = s])
      \/ \E a \in Apps, g \in Groups : InstallMembership(t, a, g, "own")
  BY DEF OtherCall, RemoveGroup, RemoveIdentity, RemoveMembership
<1> QED
  BY <1>1, <1>2, <1>3, <1>4, <1>5 DEF Plain

\* The number is read, unless another thread is between the reading and the writing.
LEMMA ReadSerialSerial ==
  ASSUME Typed, Numbered, Locked, Room, NEW t \in Threads, ReadSerial(t)
  PROVE  (Numbered /\ Locked /\ Room)'
<1>1. \A u \in Threads \ {t} : th'[u] = th[u]
  BY StepsMove DEF Steps
<1>2. th[t] \in AnyWorks /\ th[t].next \notin {"serial", "sign"} /\ th[t].pc = "serial"
  BY DEF Typed, Works, AnyWorks, Nexts, ReadSerial
<1>3. CASE ~open
  BY <1>1, <1>2, <1>3, PlainSerial, DoesWhat DEF ReadSerial, Plain, disk, database, history
<1>4. CASE open
  <2>1. mutex = Nobody /\ mutex' = t /\ UNCHANGED <<counter, signed>> /\ counter # -1
    BY <1>4 DEF ReadSerial, Free, disk, database, history, Typed, StateTyped
  <2>2. th'[t].pc = "sign" /\ th'[t].serial = counter
    BY <1>2, <1>4 DEF ReadSerial, Typed, AnyWorks
  <2>3. \A u \in Threads : th[u].pc # "sign"
    BY <2>1, RegistryAssumption DEF Locked, Threads
  <2>4. Locked'
    BY <1>1, <2>1, <2>2, <2>3 DEF Locked
  <2>5. Signing' = Signing
    BY <1>1, <1>2, <2>2 DEF Signing
  <2>6. Numbered' /\ Room'
    BY <2>1, <2>5 DEF Numbered, Number, Room
  <2> QED
    BY <2>4, <2>6
<1> QED
  BY <1>3, <1>4

\* The certificate gets the number that the thread has read, which is still the next one.
LEMMA SignSerial ==
  ASSUME Typed, Numbered, Locked, Room, NEW t \in Threads, SignCertificate(t)
  PROVE  (Numbered /\ Locked /\ Room)' /\ Len(signed') = Len(signed) + 1
<1> DEFINE n == Len(signed) + 1
<1>1. \A u \in Threads \ {t} : th'[u] = th[u]
  BY StepsMove DEF Steps
<1>2. th[t].next \notin {"serial", "sign"} /\ th[t].pc = "sign" /\ th'[t].pc = th[t].next
  BY DoesWhat DEF Typed, Works, AnyWorks, Nexts, SignCertificate
<1>3. mutex = t /\ th[t].serial = counter /\ counter # -1
  BY <1>2 DEF Locked
<1>4. Len(signed) \in Nat /\ signed \in Seq(Serials)
  BY DEF Typed, StateTyped
<1>5. Signing' = Signing \ {t} /\ t \in Signing /\ Signing \subseteq Threads
  BY <1>1, <1>2 DEF Signing
<1>6. Cardinality(Signing') = Cardinality(Signing) - 1 /\ Cardinality(Signing) >= 1 /\ Cardinality(Signing) \in Nat
  <2>1. IsFiniteSet(Signing) /\ Cardinality(Signing) \in Nat
    BY <1>5, ThreadsFinite
  <2>2. Cardinality(Signing') = Cardinality(Signing) - 1
    BY <1>5, <2>1, FS_RemoveElement
  <2>3. Cardinality(Signing') \in Nat
    BY <1>5, ThreadsFinite
  <2> QED
    BY <2>1, <2>2, <2>3
<1>7. n \in 1 .. Limit
  BY <1>4, <1>6, LimitFacts DEF Room
<1>8. counter = Number(n)
  BY <1>3 DEF Numbered
<1>9. signed' = Append(signed, Number(n)) /\ counter' = Number(n + 1)
  BY <1>3, <1>7, <1>8, NumbersDiffer DEF SignCertificate, Limit
<1>10. Number(n) \in Serials
  BY <1>7, NumbersDiffer
<1>11. Len(signed') = n /\ \A i \in 1 .. n : signed'[i] = IF i = n THEN Number(n) ELSE signed[i]
  BY <1>4, <1>9, <1>10
<1>12. \A i \in 1 .. n : signed'[i] = Number(i)
  BY <1>4, <1>11 DEF Numbered
<1>13. \A i : Number(i)' = Number(i)
  BY DEF Number, Limit
<1>14. n + 1 \in 1 .. Limit \/ n = Limit
  BY <1>7, LimitFacts
<1>15. counter' # -1
  BY <1>9, <1>14, LimitFacts DEF Number
<1>16. Numbered'
  BY <1>9, <1>11, <1>12, <1>13, <1>15 DEF Numbered
<1>17. Room'
  BY <1>4, <1>6, <1>11, LimitFacts DEF Room, Limit
<1>18. Locked'
  BY <1>1, <1>2, <1>3 DEF Locked
<1> QED
  BY <1>11, <1>16, <1>17, <1>18

\* Nobody is between the reading and the writing of a number when the counter goes.
LEMMA ResetSerial ==
  ASSUME Typed, Numbered, Locked, Room, NEW t \in Threads, OtherCall(t), Reset(t)
  PROVE  (Numbered /\ Locked /\ Room)'
<1>1. UNCHANGED <<mutex, th>> /\ signed' = <<>> /\ counter' = -1 /\ mutex = Nobody
  BY RegistryAssumption DEF OtherCall, Reset, Sql, Free, RemoveGroup, RemoveIdentity, InstallMembership,
     RemoveMembership, RemoveApplication, StoreGroup, StoreIdentity, tables, HasGroup, Typed, StateTyped
<1>2. \A u \in Threads : th'[u].pc # "sign"
  BY <1>1, RegistryAssumption DEF Locked, Threads
<1>3. Signing' = Signing /\ Len(signed) \in Nat /\ Cardinality(Signing) \in Nat
  BY <1>1, ThreadsFinite DEF Signing, Typed, StateTyped
<1> QED
  BY <1>1, <1>2, <1>3, LimitFacts DEF Numbered, Locked, Room

\* Two certificates of its own, and the process has claimed itself.
LEMMA StartSerial ==
  ASSUME Typed, Quiet, Numbered, Locked, Room, StartRoom, Starts
  PROVE  (Numbered /\ Locked /\ Room /\ StartRoom)'
<1> USE DEF Threads
<1>1. /\ \A u \in Others : th'[u] = th[u] /\ th[u].pc = "idle"
      /\ Main \in Threads /\ th[Main] \in AnyWorks /\ Main \notin Others
  <2>1. ~Up
    BY DEF Starts, Start, OpenStorage, InitCa, NoCa, WriteKeys, InitAgent, RegisterAgent, ClaimSelf, Up, Starting
  <2> QED
    BY <2>1, MainMoves, RegistryAssumption DEF MainStep, Quiet, Typed, Works
<1>2. UNCHANGED <<signed, mutex, spent>>
  BY DEF Starts, Start, OpenStorage, InitCa, NoCa, WriteKeys, InitAgent, RegisterAgent, ClaimSelf,
         history, memory
<1>3. Len(signed) \in Nat /\ spent.stops \in 0 .. MaxStops /\ selfClaimed.claimed \in BOOLEAN
  BY DEF Typed, StateTyped
<1>4. CASE OpenStorage
  <2>1. th'[Main].pc = "open" /\ th'[Main].next = th[Main].next /\ th[Main].pc = "down" /\ UNCHANGED selfClaimed
    BY <1>4, DoesWhat DEF OpenStorage
  <2>2. Numbered'
    BY <1>2, <1>4, NumbersDiffer DEF OpenStorage, InitSerialNumber, Numbered, Number
  <2>3. Signing' = {} /\ Cardinality(Signing') = 0
    BY <1>1, <2>1, FS_EmptySet DEF Signing
  <2>4. Locked' /\ Room'
    <3>1. Len(signed) <= Limit
      BY <1>3, LimitFacts, ThreadsFinite DEF Room, Signing
    <3> QED
      BY <1>1, <1>2, <1>3, <2>1, <2>3, <3>1, LimitFacts DEF Locked, Room
  <2>5. StartRoom'
    BY <1>2, <2>1 DEF StartRoom, Registering, Taken, Early
  <2> QED
    BY <2>2, <2>4, <2>5
<1>5. CASE InitCa \/ NoCa \/ WriteKeys
  <2>1. /\ th'[Main].pc \in Early /\ th'[Main].next = th[Main].next /\ th[Main].pc \in Early
        /\ UNCHANGED <<selfClaimed, counter>>
    BY <1>5, DoesWhat DEF InitCa, NoCa, WriteKeys, Early, disk, database
  <2>2. (Numbered /\ Locked /\ Room)'
    BY <1>1, <1>2, <2>1, PlainSerial DEF Plain, Early
  <2>3. StartRoom'
    BY <1>2, <2>1 DEF StartRoom, Registering, Taken, Early
  <2> QED
    BY <2>2, <2>3
<1>6. ASSUME NEW n \in Nexts, Does(Main, "serial", [NoWork EXCEPT !.next = n])
      PROVE  th'[Main].pc = "serial" /\ th'[Main].next = n
  <2>1. NoWork \in AnyWorks /\ NoWork.next = "idle"
    BY NoWorkTyped DEF Works, NoWork
  <2> DEFINE w == [NoWork EXCEPT !.next = n]
  <2>2. w \in AnyWorks
    BY <2>1 DEF AnyWorks
  <2>3. w.next = n
    BY DEF NoWork
  <2>4. Does(Main, "serial", w)
    BY <1>6
  <2> HIDE DEF w
  <2> QED
    BY <2>2, <2>3, <2>4, DoesOne
<1>7. ASSUME th'[Main].pc = "serial", UNCHANGED counter, ~selfClaimed.claimed,
             Taken <= 1
      PROVE  (Numbered /\ Locked /\ Room)'
  <2>1. Signing' = {Main}
    BY <1>1, <1>7 DEF Signing
  <2> HIDE DEF Signing
  <2>4. Cardinality(Signing') = 1
    BY <2>1, FS_Singleton
  <2>2. Len(signed) + 1 <= Limit
    BY <1>3, <1>7, LimitFacts DEF StartRoom, Taken
  <2>3. Numbered' /\ Locked'
    BY <1>1, <1>2, <1>7, NumbersStay
  <2> QED
    BY <1>2, <2>2, <2>3, <2>4 DEF Room, Limit
<1>8. CASE InitAgent
  <2>1. th[Main].pc = "ca" /\ th[Main].next \notin {"register", "agent"} /\ UNCHANGED <<selfClaimed, counter>>
    BY <1>8 DEF InitAgent, StartRoom, Early, disk, database
  <2>2. CASE selfClaimed.claimed
    <3>1. th'[Main].pc = "started" /\ th'[Main].next = th[Main].next
      BY <1>8, <2>2, DoesWhat DEF InitAgent
    <3>2. (Numbered /\ Locked /\ Room)'
      BY <1>1, <1>2, <2>1, <3>1, PlainSerial DEF Plain
    <3> QED
      BY <2>1, <2>2, <3>1, <3>2 DEF StartRoom, Registering, Early
  <2>3. CASE ~selfClaimed.claimed
    <3>1. th'[Main].pc = "serial" /\ th'[Main].next = "register"
      BY <1>6, <1>8, <2>3 DEF InitAgent, Nexts
    <3>2. (Numbered /\ Locked /\ Room)'
      BY <1>7, <2>1, <2>3, <3>1 DEF Taken
    <3>3. StartRoom'
      BY <1>2, <2>1, <2>3, <3>1 DEF StartRoom, Registering, Taken, Early
    <3> QED
      BY <3>2, <3>3
  <2> QED
    BY <2>2, <2>3
<1>9. CASE RegisterAgent
  <2>1. th[Main].pc = "register" /\ UNCHANGED <<selfClaimed, counter>> /\ ~selfClaimed.claimed
    BY <1>9 DEF RegisterAgent, StartRoom, Registering, disk, database
  <2>2. th'[Main].pc = "serial" /\ th'[Main].next = "agent"
    BY <1>6, <1>9 DEF RegisterAgent, Nexts
  <2>3. (Numbered /\ Locked /\ Room)'
    BY <1>7, <2>1, <2>2 DEF Taken
  <2>4. StartRoom'
    BY <1>2, <2>1, <2>2 DEF StartRoom, Registering, Taken, Early
  <2> QED
    BY <2>3, <2>4
<1>10. CASE ClaimSelf
  <2>1. UNCHANGED counter
    BY <1>10 DEF ClaimSelf, database
  <2>2. /\ th'[Main].pc = "install" \/ (th'[Main].pc = "started" /\ th'[Main].next = "idle")
        /\ selfClaimed'.claimed
    <3>1. CASE th[Main].pc = "agent"
      BY <1>10, <3>1, DoesWhat DEF ClaimSelf, Typed, StateTyped
    <3>2. CASE th[Main].pc = "install"
      <4>1. selfClaimed.claimed /\ NoWork \in AnyWorks /\ NoWork.next = "idle"
        BY <3>2, NoWorkTyped DEF StartRoom, Registering, Early, Works, NoWork
      <4>2. Does(Main, "started", NoWork) /\ selfClaimed' = [selfClaimed EXCEPT !.member = TRUE]
        BY <1>10, <3>2 DEF ClaimSelf
      <4>3. th'[Main].pc = "started" /\ th'[Main].next = "idle"
        BY <4>1, <4>2, DoesWhat
      <4>4. selfClaimed'.claimed
        BY <4>1, <4>2 DEF Typed, StateTyped
      <4> QED
        BY <4>3, <4>4
    <3> QED
      BY <1>10, <3>1, <3>2 DEF ClaimSelf
  <2>3. (Numbered /\ Locked /\ Room)'
    BY <1>1, <1>2, <2>1, <2>2, PlainSerial DEF Plain
  <2> QED
    BY <2>2, <2>3 DEF StartRoom, Registering, Early
<1> QED
  BY <1>4, <1>5, <1>8, <1>9, <1>10 DEF Starts, Start

\* A certificate that Main signs, or fails to give a number, takes it one step further.
LEMMA MainSigns ==
  ASSUME Typed, Quiet, Numbered, Locked, Room, StartRoom, Steps(Main)
  PROVE  StartRoom'
<1> USE DEF Threads
<1>1. UNCHANGED selfClaimed /\ spent'.stops = spent.stops
  BY SelfStays
<1>2. CASE Up
  BY <1>1, <1>2, UpStays, UpHasRoom
<1>3. CASE ~Up
  <2>1. th[Main] \in AnyWorks /\ Len(signed) \in Nat
    BY DEF Typed, StateTyped, Works
  <2>2. th[Main].pc \notin Storing \cup Early
    <3>1. th[Main].pc \in Storing \cup {"serial", "sign"}
      BY MarksDo DEF Steps, ReadSerial, SignCertificate, StoreMembership, StoreApplication,
                     StoreIdentityCertificate, StoreManifest, UndoClaim, Fails, Storing, Marking
    <3> QED
      BY <1>3, <3>1 DEF Up, Starting, StartRoom, Storing, Marking, Early
  <2>3. th[Main].pc \in {"serial", "sign"}
    BY <2>2, MarksDo DEF Steps, ReadSerial, SignCertificate, StoreMembership, StoreApplication,
                         StoreIdentityCertificate, StoreManifest, UndoClaim, Fails, Storing, Marking
  <2>4. th[Main].next \in {"register", "agent"}
    BY <1>3, <2>3 DEF Up, Starting
  <2>5. ~selfClaimed.claimed /\ Len(signed) <= 2 * spent.stops + Taken
    BY <2>3, <2>4 DEF StartRoom, Registering
  <2>6. CASE ReadSerial(Main)
    <3>1. UNCHANGED signed /\ th[Main].pc = "serial"
      BY <2>6 DEF ReadSerial, history
    <3>2. th'[Main].next = th[Main].next /\ th'[Main].pc \in {"sign", th[Main].next}
      BY <2>1, <2>6, DoesWhat DEF ReadSerial, Typed, AnyWorks
    <3>3. Taken' >= Taken /\ Registering' /\ th'[Main].pc \notin Early
      <4>1. CASE th[Main].next = "register"
        BY <3>1, <3>2, <4>1 DEF Taken, Registering, Early
      <4>2. CASE th[Main].next = "agent"
        BY <3>1, <3>2, <4>2 DEF Taken, Registering, Early
      <4> QED
        BY <2>4, <4>1, <4>2
    <3>4. th'[Main].pc \in {"serial", "sign", "register", "agent", "install"}
      BY <2>4, <3>2
    <3>5. Len(signed') <= 2 * spent'.stops + Taken'
      BY <1>1, <2>1, <2>5, <3>1, <3>3 DEF Typed, StateTyped, Taken
    <3> QED
      BY <1>1, <2>5, <3>3, <3>4, <3>5 DEF StartRoom
  <2>7. CASE SignCertificate(Main)
    <3>1. Len(signed') = Len(signed) + 1
      BY <2>7, SignSerial
    <3>2. th'[Main].next = th[Main].next /\ th'[Main].pc = th[Main].next /\ th[Main].pc = "sign"
      BY <2>7, DoesWhat DEF SignCertificate
    <3>3. Taken' = Taken + 1 /\ Registering' /\ th'[Main].pc \notin Early
      BY <2>4, <3>2 DEF Taken, Registering, Early
    <3>4. Len(signed') <= 2 * spent'.stops + Taken'
      BY <1>1, <2>1, <2>5, <3>1, <3>3 DEF Typed, StateTyped, Taken
    <3>5. th'[Main].pc \in {"register", "agent"}
      BY <2>4, <3>2
    <3> QED
      BY <1>1, <2>5, <3>3, <3>4, <3>5 DEF StartRoom
  <2> QED
    BY <2>2, <2>3, <2>6, <2>7, MarksDo DEF Steps, StoreMembership, StoreApplication, StoreIdentityCertificate,
       StoreManifest, UndoClaim, Fails, Storing, Marking
<1> QED
  BY <1>2, <1>3

LEMMA NextSerial ==
  ASSUME Typed, Quiet, SerialInv, Next
  PROVE  SerialInv'
<1> USE DEF Threads
<1>1. Numbered /\ Locked /\ Room /\ StartRoom /\ Main \in Threads
  BY DEF SerialInv
<1>2. CASE Starts
  BY <1>1, <1>2, StartSerial DEF SerialInv
<1>3. CASE Stops
  <2>1. /\ \A u \in Threads : th'[u].pc \in {"down", "idle"}
        /\ th'[Main].pc = "down" /\ th'[Main].next = "idle"
        /\ UNCHANGED <<signed, counter, selfClaimed>> /\ spent'.stops = spent.stops + 1
    BY <1>3 DEF Stops, Vanishes, AtStart, NoWork, Typed, StateTyped, disk, database
  <2>2. Signing' = {}
    BY <2>1 DEF Signing
  <2> HIDE DEF Signing
  <2>3. Cardinality(Signing') = 0
    BY <2>2, FS_EmptySet
  <2>4. Signing \in SUBSET Threads
    BY DEF Signing
  <2>5. Len(signed) <= Limit /\ Len(signed) \in Nat /\ spent.stops \in Nat
    BY <1>1, <2>4, LimitFacts, ThreadsFinite DEF Room, Typed, StateTyped
  <2>6. Room' /\ Locked' /\ Numbered'
    BY <1>1, <2>1, <2>3, <2>5, LimitFacts DEF Room, Locked, Numbered, Number, Limit
  <2>7. StartRoom'
    BY <1>1, <2>1, <2>5 DEF StartRoom, Registering, Taken, Early
  <2> QED
    BY <2>6, <2>7 DEF SerialInv
<1>4. CASE DefaultIdentity
  <2>1. /\ selfClaimed.claimed /\ UNCHANGED selfClaimed
        /\ th'[Main].pc = "ready" /\ th'[Main].next = th[Main].next /\ th[Main].pc = "started"
    BY <1>1, <1>4, SelfStays, DoesWhat DEF DefaultIdentity, StartRoom, Registering, Early
  <2>2. StartRoom'
    BY <1>1, <2>1 DEF StartRoom, Registering, Early
  <2> QED
    BY <1>1, <1>4, <2>2, PlainMain, PlainSerial DEF SerialInv
<1>5. CASE Command \/ Answers \/ RemoteClaim \/ StoreName
  <2>1. Up
    BY <1>1, <1>5 DEF Command, Claim, Unclaim, ReadName, UpdateMembership, AddGroup, DropGroup, HandleManifestUpdate,
                Prompt, Answers, AnswerClaim, Decide, RemoteClaim, StoreName, Up, Starting, StartRoom
  <2>2. StartRoom'
    BY <1>1, <1>5, <2>1, UpStays, SelfStays, UpHasRoom
  <2> QED
    BY <1>1, <1>5, <2>2, PlainMain, PlainSerial DEF SerialInv
<1>6. ASSUME NEW t \in Threads, Steps(t) PROVE SerialInv'
  <2>1. (Numbered /\ Locked /\ Room)'
    BY <1>1, <1>6, ReadSerialSerial, SignSerial, PlainSteps, PlainSerial
  <2>2. CASE t = Main
    BY <1>1, <1>6, <2>1, <2>2, MainSigns DEF SerialInv
  <2>3. CASE t \in Others
    <3>1. th[t].pc # "idle"
      BY <1>6, MarksDo DEF Steps, ReadSerial, SignCertificate, StoreMembership, StoreApplication,
                           StoreIdentityCertificate, StoreManifest, UndoClaim, Fails, Storing, Marking
    <3>2. th'[Main] = th[Main] /\ Up
      BY <1>6, <2>3, <3>1, StepsMove, RegistryAssumption DEF Quiet
    <3>3. Up'
      BY <3>2 DEF Up
    <3> QED
      BY <1>1, <1>6, <2>1, <3>2, <3>3, SelfStays, UpHasRoom DEF SerialInv
  <2> QED
    BY <2>2, <2>3
<1>7. ASSUME NEW t \in Threads, OtherCall(t) PROVE SerialInv'
  <2>1. (Numbered /\ Locked /\ Room)'
    BY <1>1, <1>7, ResetSerial, PlainCalls, PlainSerial
  <2>2. t \in Others /\ Up
    BY <1>7 DEF OtherCall, Calls
  <2>3. th'[Main] = th[Main]
    BY <1>7, <2>2, StepsMove, RegistryAssumption
  <2>4. Up'
    BY <2>2, <2>3 DEF Up
  <2> QED
    BY <1>1, <1>7, <2>1, <2>2, <2>4, SelfStays, UpHasRoom DEF SerialInv
<1>8. CASE UNCHANGED registry
  <2>1. Plain(Main)
    BY <1>8 DEF registry, disk, database, memory, history, Plain
  <2>2. StartRoom'
    BY <1>1, <1>8, StartRoomStays DEF registry, disk, history
  <2> QED
    BY <1>1, <2>1, <2>2, PlainSerial DEF SerialInv
<1> QED
  BY <1>2, <1>3, <1>4, <1>5, <1>6, <1>7, <1>8, OutsideMoves DEF Next, Working

\* No two certificates of an authority get the same serial number, for any number of
\* threads and restarts, as long as no more are signed than there are numbers.  The
\* numbers that were signed are the first ones in order, and a thread that has read the
\* counter is alone with it until it has written the next; the bounds leave a number for
\* every thread that is about to sign, the start's own certificates included.
THEOREM SerialNumbersDiffer == Spec => []SerialsAreUnique
<1>1. Init => Quiet /\ SerialInv
  <2> SUFFICES ASSUME Init PROVE Quiet /\ SerialInv
    OBVIOUS
  <2> USE DEF Init, RegistryInit
  <2>1. /\ th[Main].pc = "down" /\ th[Main].next = "idle"
        /\ \A t \in Threads : th[t].pc \in {"idle", "down"}
        /\ \A t \in Others : th[t].pc = "idle"
    BY RegistryAssumption DEF AtStart, NoWork, Threads
  <2>2. Signing = {}
    BY <2>1 DEF Signing
  <2> HIDE DEF Signing
  <2>3. Len(signed) = 0 /\ Cardinality(Signing) = 0
    BY <2>2, FS_EmptySet
  <2>4. Numbered
    BY <2>3 DEF Numbered
  <2>5. Locked /\ Room
    BY <2>1, <2>3, LimitFacts DEF Locked, Room
  <2>6. StartRoom
    BY <2>1, <2>3 DEF StartRoom, Registering, Taken, Early
  <2> QED
    BY <2>1, <2>4, <2>5, <2>6 DEF Quiet, SerialInv
<1>2. Typed /\ Quiet /\ SerialInv /\ [Next]_vars => (Quiet /\ SerialInv)'
  <2>1. ASSUME Typed, Quiet, SerialInv, UNCHANGED vars PROVE (Quiet /\ SerialInv)'
    <3>1. Plain(Main) /\ Main \in Threads
      BY <2>1 DEF vars, registry, disk, database, memory, history, Plain, Threads
    <3>2. StartRoom'
      BY <2>1, StartRoomStays DEF vars, registry, disk, history, SerialInv
    <3>3. Quiet'
      BY <2>1 DEF vars, registry, Quiet, Up
    <3> QED
      BY <2>1, <3>1, <3>2, <3>3, PlainSerial DEF SerialInv
  <2> QED
    BY <2>1, NextQuiet, NextSerial
<1>3. Typed /\ SerialInv => SerialsAreUnique
  <2> SUFFICES ASSUME Typed, SerialInv, NEW i \in DOMAIN signed, NEW j \in DOMAIN signed, signed[i] = signed[j]
               PROVE  i = j
    BY DEF SerialsAreUnique
  <2>1. Signing \in SUBSET Threads
    BY DEF Signing
  <2>2. Len(signed) <= Limit /\ Len(signed) \in Nat
    BY <2>1, LimitFacts, ThreadsFinite DEF SerialInv, Room, Typed, StateTyped
  <2>3. i \in 1 .. Len(signed) /\ j \in 1 .. Len(signed)
    BY DEF Typed, StateTyped
  <2>4. Number(i) = Number(j)
    BY <2>3 DEF SerialInv, Numbered
  <2>5. i \in 1 .. Limit /\ j \in 1 .. Limit
    BY <2>2, <2>3, LimitFacts
  <2> QED
    BY <2>4, <2>5, NumbersDiffer
<1> QED
  BY <1>1, <1>2, <1>3, InitTyped, NextTyped, PTL DEF Spec
================================================================================
