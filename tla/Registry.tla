-------------------------------- MODULE Registry -------------------------------
(***************************************************************************)
(* What UIStorage keeps besides the synchronisation of applications: groups*)
(* and identities, the rows and certificates that refer to them, the meta  *)
(* data, the serial numbers, and the key pair of the certificate authority.*)
(* A process opens the storage and the authority, may crash at any step,   *)
(* and opens them again: the database and the key file survive.            *)
(*                                                                         *)
(* Each call of SQLStorage keeps storageMutex, so it is one step, except   *)
(* for the serial number, which is read and written by two statements.     *)
(* A call of UIStorage that makes several calls of SQLStorage has a step   *)
(* for each; a thread that is in one is in th.  A thread that is in "pend" *)
(* keeps updateLock.                                                       *)
(***************************************************************************)
EXTENDS Integers, FiniteSets, SequencesExt

CONSTANTS
  Apps,        \* applications, by their public keys
  Groups,      \* the ids of security groups
  Identities,  \* the ids of identities
  Names,       \* names of applications, devices and users
  Main,        \* the thread that starts the process
  Others,      \* other threads that call UIStorage
  Nobody,      \* no thread, application, group or identity
  NoName,      \* the empty string
  Width,       \* the serial number has Width bits
  MaxSigned,   \* bound: certificates that are signed, besides the agent's own
  MaxManifest, \* bound: changes of a manifest
  MaxCalls,    \* bound: calls of the Others
  MaxStops     \* bound: exits and crashes of the process

ASSUME RegistryAssumption ==
  /\ Main \notin Others /\ NoName \notin Names /\ IsFiniteSet(Others) /\ Identities # {}
  /\ Nobody \notin {Main} \cup Others \cup Groups \cup Apps \cup Identities
  /\ Width \in Nat /\ 2 ^ Width \in Nat /\ 2 * (MaxStops + 1) <= 2 ^ Width
  /\ MaxSigned \in 0 .. 2 ^ Width
  /\ MaxManifest \in Nat /\ MaxCalls \in Nat /\ MaxStops \in Nat

VARIABLES
  groups,      \* the table of groups: the authority of each, or "none"
  identities,  \* the table of identities
  apps,        \* the table of claimed applications
  idCerts,     \* the identity certificate of an application: of whom, signed by which key
  members,     \* the keys that signed the membership certificates of an application
  counter,     \* the table with the next serial number, -1 if it is empty
  file,        \* the file with the keys of the certificate authority
  selfClaimed, \* what the agent's own key store knows: claimed, in the admin group
  open,        \* nativeStorageDB is open
  pkey,        \* AJNCa::pkey, 0 for nullptr
  mutex,       \* storageMutex, kept from the reading of a serial number to the writing
  leak,        \* the thread that left StoreApplication with storageMutex locked
  th,          \* where the threads are
  signed,      \* the serial numbers of the certificates that were signed, in order
  spent        \* how much of the bounds is used up

tables == <<groups, identities, apps, idCerts, members>>
database == <<tables, counter>>
disk == <<database, file, selfClaimed>>
memory == <<open, pkey, mutex, leak>>
history == <<signed, spent>>
registry == <<disk, memory, th, history>>

Threads == {Main} \cup Others
Serials == 0 .. 2 ^ Width - 1
Keys == 0 .. MaxStops + 1           \* key pairs, in the order of their generation
Manifests == 0 .. MaxManifest       \* versions of a manifest

Meta == [about : Names \cup {NoName}, user : Names \cup {NoName}]
NoMeta == [about |-> NoName, user |-> NoName]
Rows == [stored : BOOLEAN, sync : {"ok", "pending", "will_reset"}, meta : Meta, manifest : Manifests]
NoRow == [stored |-> FALSE, sync |-> "ok", meta |-> NoMeta, manifest |-> 0]
NoCert == [id |-> Nobody, key |-> 0]

Starting == {"down", "open", "header", "private", "public", "ca", "register", "agent", "install",
             "started"}
Marking == {"sync", "pend", "reset"}
Storing == {"member", "identity", "manifest", "row", "certify", "describe", "undo"} \cup Marking
Idle(t) == IF t = Main THEN "ready" ELSE "idle"

NoWork == [pc |-> "idle", next |-> "idle", app |-> Nobody, group |-> Nobody, id |-> Nobody, manifest |-> 0,
           serial |-> 0, meta |-> NoMeta, todo |-> {}]
AtStart == [t \in Threads |-> [NoWork EXCEPT !.pc = IF t = Main THEN "down" ELSE "idle"]]

RegistryInit ==
  /\ groups = [g \in Groups |-> "none"] /\ identities = {}
  /\ apps = [a \in Apps |-> NoRow] /\ idCerts = [a \in Apps |-> NoCert]
  /\ members = [a \in Apps |-> [g \in Groups |-> 0]]
  /\ counter = -1
  /\ file = [part |-> "none", key |-> 0]
  /\ selfClaimed = [claimed |-> FALSE, member |-> FALSE]
  /\ open = FALSE /\ pkey = 0 /\ mutex = Nobody /\ leak = Nobody
  /\ th = AtStart
  /\ signed = <<>>
  /\ spent = [calls |-> 0, stops |-> 0]

Goes(t, to) == th' = [th EXCEPT ![t].pc = to]
Does(t, pc, w) == th' = [th EXCEPT ![t] = [w EXCEPT !.pc = pc]]
Ends(t) == Does(t, Idle(t), NoWork)

\* storageMutex, which a thread may lock again, and updateLock.
Free(t) == mutex = Nobody /\ leak \in {Nobody, t}
MayUpdate(t) == \A u \in Threads \ {t} : th[u].pc # "pend"

\* A thread can run a statement: storageMutex is free, and the database open.
Sql(t) == Free(t) /\ open

------------------------------------------------------------------------------
(* The start of a process: StorageFactory::GetStorage, then the agent *)

\* The first number, if there is none.
InitSerialNumber == IF counter = -1 THEN 1 ELSE counter

\* SQLStorage::Init creates the tables and the serial number, if they are not there.
OpenStorage ==
  /\ th[Main].pc = "down"
  /\ open' = TRUE
  /\ counter' = InitSerialNumber
  /\ Goes(Main, "open")
  /\ UNCHANGED <<tables, file, selfClaimed, pkey, mutex, leak, history>>

\* Mutant: a new key pair is generated at every start.
InitCa_Always ==
  /\ th[Main].pc = "open"
  /\ file' = [part |-> "empty", key |-> file.key + 1]
  /\ Goes(Main, "header")
  /\ UNCHANGED <<database, selfClaimed, memory, history>>

\* AJNCa::Init generates a key pair and creates the file, or loads both keys from
\* a file that is there.
InitCa ==
  /\ th[Main].pc = "open"
  /\ \/ /\ file.part = "none"
        /\ file' = [part |-> "empty", key |-> file.key + 1]
        /\ Goes(Main, "header")
        /\ UNCHANGED pkey
     \/ /\ file.part = "whole"
        /\ pkey' = file.key
        /\ Goes(Main, "ca")
        /\ UNCHANGED file
  /\ UNCHANGED <<database, selfClaimed, open, mutex, leak, history>>

\* A file that is not whole is an error, and the process exits.
NoCa ==
  /\ th[Main].pc = "open" /\ file.part \notin {"none", "whole"}
  /\ open' = FALSE
  /\ Goes(Main, "down")
  /\ UNCHANGED <<disk, pkey, mutex, leak, history>>

\* The header, the private key and the public key are written to the file.
WriteKeys ==
  /\ \/ th[Main].pc = "header" /\ file' = [file EXCEPT !.part = "header"]
        /\ Goes(Main, "private") /\ UNCHANGED pkey
     \/ th[Main].pc = "private" /\ file' = [file EXCEPT !.part = "private"]
        /\ Goes(Main, "public") /\ UNCHANGED pkey
     \/ th[Main].pc = "public" /\ file' = [file EXCEPT !.part = "whole"]
        /\ pkey' = file.key /\ Goes(Main, "ca")
  /\ UNCHANGED <<database, selfClaimed, open, mutex, leak, history>>

\* SecurityAgentImpl::Init: unless the key store says that the agent is claimed, it
\* gets a membership and an identity certificate (RegisterAgent), claims itself, and
\* then installs the membership.
InitAgent ==
  /\ th[Main].pc = "ca"
  /\ IF selfClaimed.claimed THEN Goes(Main, "started")
     ELSE Does(Main, "serial", [NoWork EXCEPT !.next = "register"])
  /\ UNCHANGED <<disk, memory, history>>

RegisterAgent ==
  /\ th[Main].pc = "register"
  /\ Does(Main, "serial", [NoWork EXCEPT !.next = "agent"])
  /\ UNCHANGED <<disk, memory, history>>

ClaimSelf ==
  /\ \/ /\ th[Main].pc = "agent"
        /\ selfClaimed' = [selfClaimed EXCEPT !.claimed = TRUE]
        /\ Goes(Main, "install")
     \/ /\ th[Main].pc = "install"
        /\ selfClaimed' = [selfClaimed EXCEPT !.member = TRUE]
        /\ Does(Main, "started", NoWork)
  /\ UNCHANGED <<database, file, memory, history>>

\* AJNCa::SignCertificate reads the private key from the file each time.
SigningKey == file.key

Start == OpenStorage \/ InitCa \/ NoCa \/ WriteKeys \/ InitAgent \/ RegisterAgent \/ ClaimSelf

\* The process ends, at any step: what is in memory is lost.
Vanishes ==
  /\ th' = AtStart
  /\ open' = FALSE /\ pkey' = 0 /\ mutex' = Nobody /\ leak' = Nobody
  /\ UNCHANGED <<disk, signed>>

------------------------------------------------------------------------------
(* Certificates: AJNCaStorage::SignCertifcate *)

\* ToIdentityCertificate names the identity in the certificate, which is signed then.
IdentityCertificate(i) == [id |-> i, key |-> SigningKey]

\* A thread wants a certificate, for the step `next'.  Every thread may be signing one.
Signs(t, next, work) ==
  /\ Len(signed) + Cardinality(Threads) <= MaxSigned
  /\ Does(t, "serial", [work EXCEPT !.next = next])

\* Mutant: storageMutex is not kept while the next number is computed.
ReadSerial_NoLock(t) ==
  /\ th[t].pc = "serial"
  /\ th' = [th EXCEPT ![t].serial = counter, ![t].pc = "sign"]
  /\ UNCHANGED <<disk, memory, history>>

\* GetNewSerialNumber reads the number; without a database the certificate gets none,
\* and nobody looks at the error.
ReadSerial(t) ==
  /\ th[t].pc = "serial" /\ Free(t)
  /\ IF open
     THEN /\ mutex' = t
          /\ th' = [th EXCEPT ![t].serial = counter, ![t].pc = "sign"]
     ELSE UNCHANGED mutex /\ Goes(t, th[t].next)
  /\ UNCHANGED <<disk, open, pkey, leak, history>>

\* Mutant: storageMutex is not released.
SignCertificate_KeepsLock(t) ==
  /\ th[t].pc = "sign"
  /\ counter' = (th[t].serial + 1) % 2 ^ Width
  /\ signed' = Append(signed, th[t].serial)
  /\ Goes(t, th[t].next)
  /\ UNCHANGED <<tables, file, selfClaimed, memory, spent>>

\* It writes the next one, which starts again at zero after the largest.  Then the
\* certificate is signed, with the private key from the file.
SignCertificate(t) ==
  /\ th[t].pc = "sign"
  /\ counter' = (th[t].serial + 1) % 2 ^ Width
  /\ mutex' = Nobody
  /\ signed' = Append(signed, th[t].serial)
  /\ Goes(t, th[t].next)
  /\ UNCHANGED <<tables, file, selfClaimed, open, pkey, leak, spent>>

------------------------------------------------------------------------------
(* Groups and identities.  ca->GetCaPublicKeyInfo fills in the own authority. *)

\* An INSERT if GetGroup finds none with this authority, which fails if there is one
\* of another authority (ID is the primary key); an UPDATE of the name otherwise.
StoreGroup(t, g, auth) ==
  /\ Sql(t)
  /\ groups' = [groups EXCEPT ![g] = IF @ = "none" THEN auth ELSE @]

HasGroup(t, g, auth) == Sql(t) /\ groups[g] = auth

\* ON DELETE CASCADE removes the certificates that refer to the group.
Cascade(g) == members' = [a \in Apps |-> [members[a] EXCEPT ![g] = 0]]

\* The applications that had one are marked, one after the other.
RemoveGroup(t, g, auth) ==
  /\ HasGroup(t, g, auth)
  /\ groups' = [groups EXCEPT ![g] = "none"]
  /\ Cascade(g)
  /\ Does(t, "sync", [NoWork EXCEPT !.todo = {a \in Apps : members[a][g] # 0}])

GetIdentities(t) == IF Sql(t) THEN identities ELSE {}
GetIdentity(t, i) == Sql(t) /\ i \in identities

StoreIdentity(t, i) == Sql(t) /\ identities' = identities \cup {i}

\* The applications that had it will be reset.
RemoveIdentity(t, i) ==
  /\ GetIdentity(t, i)
  /\ identities' = identities \ {i}
  /\ idCerts' = [a \in Apps |-> IF idCerts[a].id = i THEN NoCert ELSE idCerts[a]]
  /\ Does(t, "reset", [NoWork EXCEPT !.todo = {a \in Apps : idCerts[a].id = i}])

\* StoreApplication(app, true): without the application, or the database, it returns with
\* storageMutex locked, and the call that is made for several applications ends.
UpdateState(t, a, sync, pc) ==
  /\ Free(t)
  /\ \/ /\ open /\ apps[a].stored
        /\ apps' = [apps EXCEPT ![a].sync = sync]
        /\ Does(t, pc, [NoWork EXCEPT !.todo = th[t].todo \ {a}])
        /\ UNCHANGED leak
     \/ /\ ~(open /\ apps[a].stored)
        /\ leak' = t
        /\ Ends(t)
        /\ UNCHANGED apps
  /\ UNCHANGED <<groups, identities, idCerts, members, counter, file, selfClaimed, open, pkey, mutex, history>>

\* ResetApplication, with updateLock; for the next of the applications that are left.
ResetApplication(t) ==
  /\ th[t].pc = "reset" /\ MayUpdate(t)
  /\ \E a \in th[t].todo : UpdateState(t, a, "will_reset", "reset")

\* ApplicationUpdated looks at the next application; one that is gone ends the loop.
ApplicationUpdated(t) ==
  /\ th[t].pc = "sync" /\ MayUpdate(t) /\ Free(t)
  /\ \E a \in th[t].todo :
       \/ ~(open /\ apps[a].stored) /\ Ends(t)
       \/ open /\ apps[a].stored /\ apps[a].sync = "ok"
          /\ Does(t, "pend", [NoWork EXCEPT !.app = a, !.todo = th[t].todo])
       \/ open /\ apps[a].stored /\ apps[a].sync # "ok"
          /\ Does(t, "sync", [NoWork EXCEPT !.todo = th[t].todo \ {a}])
  /\ UNCHANGED <<disk, memory, history>>

\* It stores the new state of one that was up to date.
StorePending(t) ==
  /\ th[t].pc = "pend"
  /\ UpdateState(t, th[t].app, "pending", "sync")

Marked(t) ==
  /\ th[t].pc \in {"sync", "reset"} /\ th[t].todo = {}
  /\ Ends(t)
  /\ UNCHANGED <<disk, memory, history>>

Marks(t) == ResetApplication(t) \/ ApplicationUpdated(t) \/ StorePending(t) \/ Marked(t)

RemoveRow(a) ==
  /\ apps' = [apps EXCEPT ![a] = NoRow]
  /\ idCerts' = [idCerts EXCEPT ![a] = NoCert]
  /\ members' = [members EXCEPT ![a] = [g \in Groups |-> 0]]

------------------------------------------------------------------------------
(* InstallMembership, RemoveMembership, UpdateIdentity and ApplicationClaimed.   *)
(* Foreign keys make a statement fail if what it refers to is gone, primary keys *)
(* if it is there already.                                                       *)

InstallMembership(t, a, g, auth) ==
  /\ HasGroup(t, g, auth) /\ apps[a].stored
  /\ Signs(t, "member", [NoWork EXCEPT !.app = a, !.group = g])

\* Mutant: the foreign keys are not enforced.
MayStoreMember_NoKeys(a, g) == members[a][g] = 0

MayStoreMember(a, g) == apps[a].stored /\ groups[g] # "none" /\ members[a][g] = 0

StoreMembership(t) ==
  /\ th[t].pc = "member" /\ Sql(t)
  /\ LET a == th[t].app
         g == th[t].group
     IN IF MayStoreMember(a, g)
        THEN /\ members' = [members EXCEPT ![a][g] = SigningKey]
             /\ Does(t, "sync", [NoWork EXCEPT !.todo = {a}])
        ELSE Ends(t) /\ UNCHANGED members
  /\ UNCHANGED <<groups, identities, apps, idCerts, counter, file, selfClaimed, memory, history>>

RemoveMembership(t, a, g, auth) ==
  /\ HasGroup(t, g, auth) /\ apps[a].stored /\ members[a][g] # 0
  /\ members' = [members EXCEPT ![a][g] = 0]
  /\ Does(t, "sync", [NoWork EXCEPT !.todo = {a}])

UpdateIdentity(t, a, i, m) ==
  /\ Sql(t) /\ apps[a].stored
  /\ Signs(t, "identity", [NoWork EXCEPT !.app = a, !.id = i, !.manifest = m])

\* ApplicationClaimed begins with an INSERT.
StoreApplication(t) ==
  /\ th[t].pc = "row" /\ Sql(t)
  /\ LET a == th[t].app IN
       IF apps[a].stored THEN Ends(t) /\ UNCHANGED apps
       ELSE apps' = [apps EXCEPT ![a] = [NoRow EXCEPT !.stored = TRUE]] /\ Goes(t, "certify")
  /\ UNCHANGED <<groups, identities, idCerts, members, counter, file, selfClaimed, memory, history>>

\* An identity certificate replaces the one that is there ("identity"), or must find none.
StoreIdentityCertificate(t) ==
  /\ th[t].pc \in {"identity", "certify"} /\ Sql(t)
  /\ LET a == th[t].app
         new == th[t].pc = "certify"
     IN IF apps[a].stored /\ th[t].id \in identities /\ (new => idCerts[a] = NoCert)
        THEN /\ idCerts' = [idCerts EXCEPT ![a] = IdentityCertificate(th[t].id)]
             /\ Goes(t, IF new THEN "describe" ELSE "manifest")
        ELSE /\ IF new THEN Goes(t, "undo") ELSE Ends(t)
             /\ UNCHANGED idCerts
  /\ UNCHANGED <<groups, identities, apps, members, counter, file, selfClaimed, memory, history>>

\* An UPDATE, which is no error if the row is gone.
StoreManifest(t) ==
  /\ th[t].pc \in {"manifest", "describe"} /\ Sql(t)
  /\ LET a == th[t].app IN
       /\ apps' = IF apps[a].stored THEN [apps EXCEPT ![a].manifest = th[t].manifest] ELSE apps
       /\ IF th[t].pc = "describe" THEN Ends(t)
          ELSE Does(t, "sync", [NoWork EXCEPT !.todo = {a}])
  /\ UNCHANGED <<groups, identities, idCerts, members, counter, file, selfClaimed, memory, history>>

\* The row is removed again if the certificate cannot be stored.
UndoClaim(t) ==
  /\ th[t].pc = "undo" /\ Sql(t)
  /\ RemoveRow(th[t].app)
  /\ Ends(t)
  /\ UNCHANGED <<groups, identities, counter, file, selfClaimed, memory, history>>

\* SQLStorage::Reset closed the database: every later statement fails.
Fails(t) ==
  /\ th[t].pc \in Storing \ Marking /\ ~open /\ Free(t)
  /\ Ends(t)
  /\ UNCHANGED <<disk, memory, history>>

Steps(t) ==
  \/ ReadSerial(t) \/ SignCertificate(t) \/ Marks(t) \/ StoreMembership(t) \/ StoreApplication(t)
  \/ StoreIdentityCertificate(t) \/ StoreManifest(t) \/ UndoClaim(t) \/ Fails(t)

------------------------------------------------------------------------------
(* Meta data, removal and the end *)

GetAppMetaData(a) == apps[a].meta

SetAppMetaData(t, a, meta) ==
  /\ Sql(t) /\ apps[a].stored
  /\ apps' = [apps EXCEPT ![a].meta = meta]

RemoveApplication(t, a) == Sql(t) /\ apps[a].stored /\ RemoveRow(a)

\* SQLStorage::Reset closes the database and removes it.  The numbers start again with
\* the next database, so `signed' does.
Reset(t) ==
  /\ Sql(t)
  /\ groups' = [g \in Groups |-> "none"] /\ identities' = {}
  /\ apps' = [a \in Apps |-> NoRow] /\ idCerts' = [a \in Apps |-> NoCert]
  /\ members' = [a \in Apps |-> [g \in Groups |-> 0]]
  /\ counter' = -1
  /\ signed' = <<>>
  /\ open' = FALSE

==============================================================================
