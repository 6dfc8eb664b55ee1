-------------------------------- MODULE Console --------------------------------
(***************************************************************************)
(* The command line security manager: a program that starts the storage    *)
(* and an agent, keeps what it hears of applications, and changes the       *)
(* storage as its user tells it to, while other threads - the agent's      *)
(* queues, or another part of the program - use the storage as well.       *)
(*                                                                         *)
(* A command that only shows something is not a step, nor is one that      *)
(* fails before it has changed anything.                                   *)
(***************************************************************************)
EXTENDS Registry

CONSTANT
  MaxQueue     \* bound: manifest updates in the queue

ASSUME ConsoleAssumption == MaxQueue \in Nat

VARIABLES
  keys,        \* the applications whose keys the console knows
  about,       \* aboutCache: the name that an application announced under its bus name
  updates,     \* manifestUpdates
  manifest,    \* the manifest of the application itself
  accepted     \* the manifests of an application that the user ever accepted

heardOf == <<keys, about, updates>>
outside == <<manifest, accepted>>
vars == <<registry, heardOf, outside>>

Updates == [app : Apps, manifest : Manifests]

\* The console waits for the user to answer: may it claim, may it grant more rights.
Asking == {"ask", "decide", "claim", "name"}

TypeOK ==
  /\ groups \in [Groups -> {"none", "own", "foreign"}] /\ identities \subseteq Identities
  /\ apps \in [Apps -> Rows]
  /\ idCerts \in [Apps -> [id : Identities \cup {Nobody}, key : Keys]]
  /\ members \in [Apps -> [Groups -> Keys]]
  /\ counter \in Serials \cup {-1}
  /\ file \in [part : {"none", "empty", "header", "private", "whole"}, key : Keys]
  /\ selfClaimed \in [claimed : BOOLEAN, member : BOOLEAN]
  /\ open \in BOOLEAN /\ pkey \in Keys
  /\ mutex \in Threads \cup {Nobody} /\ leak \in Threads \cup {Nobody}
  /\ signed \in Seq(Serials)
  /\ spent \in [calls : 0 .. MaxCalls, stops : 0 .. MaxStops]
  /\ \A t \in Threads :
       /\ th[t].pc \in Starting \cup Storing \cup Asking \cup {"idle", "ready", "serial", "sign"}
       /\ th[t].next \in {"idle", "register", "agent", "member", "identity", "claim"}
       /\ th[t].app \in Apps \cup {Nobody} /\ th[t].group \in Groups \cup {Nobody}
       /\ th[t].id \in Identities \cup {Nobody} /\ th[t].manifest \in Manifests
       /\ th[t].serial \in Serials /\ th[t].meta \in Meta /\ th[t].todo \subseteq Apps
  /\ keys \subseteq Apps /\ about \in [Apps -> Names \cup {NoName}]
  /\ updates \in Seq(Updates) /\ Len(updates) <= MaxQueue
  /\ manifest \in [Apps -> Manifests] /\ accepted \in [Apps -> SUBSET Manifests]

Init ==
  /\ RegistryInit
  /\ keys = {} /\ about = [a \in Apps |-> NoName] /\ updates = <<>>
  /\ manifest = [a \in Apps |-> 0] /\ accepted = [a \in Apps |-> {}]

------------------------------------------------------------------------------
(* What the console hears, on threads of the agent *)

Up == th[Main].pc \notin Starting /\ th[Main].next \notin {"register", "agent"}

OnApplicationStateChange(a) ==
  /\ Up
  /\ keys' = keys \cup {a}
  /\ UNCHANGED <<registry, about, updates, outside>>

Announced(a, n) ==
  /\ Up
  /\ about' = [about EXCEPT ![a] = n]
  /\ UNCHANGED <<registry, keys, updates, outside>>

\* The updater found that a managed application wants other rights.
OnManifestUpdate(a) ==
  /\ Up /\ apps[a].stored /\ manifest[a] # apps[a].manifest
  /\ Len(updates) < MaxQueue
  /\ updates' = Append(updates, [app |-> a, manifest |-> manifest[a]])
  /\ UNCHANGED <<registry, keys, about, outside>>

\* A new version of the application.
ManifestChanges(a) ==
  /\ manifest[a] < MaxManifest
  /\ manifest' = [manifest EXCEPT ![a] = @ + 1]
  /\ UNCHANGED <<registry, heardOf, accepted>>

------------------------------------------------------------------------------
(* Starting and quitting *)

\* main stores a default identity when there is none.
DefaultIdentity ==
  /\ th[Main].pc = "started"
  /\ Free(Main)
  /\ identities' = IF identities = {} /\ open THEN {CHOOSE i \in Identities : TRUE} ELSE identities
  /\ Goes(Main, "ready")
  /\ UNCHANGED <<groups, apps, idCerts, members, counter, file, selfClaimed, memory, history,
                 heardOf, outside>>

\* Quit, or a crash: keys, about data and manifest updates are only in memory.
Stops ==
  /\ spent.stops < MaxStops
  /\ Vanishes
  /\ spent' = [spent EXCEPT !.stops = @ + 1]
  /\ keys' = {} /\ about' = [a \in Apps |-> NoName] /\ updates' = <<>>
  /\ UNCHANGED outside

------------------------------------------------------------------------------
(* The commands *)

Prompt == th[Main].pc = "ready"

\* get_default_identity: the first row of the table.
Identity == GetIdentities(Main)

\* claim_application: the manifest is read from the application, and shown.
Claim(a) ==
  /\ Prompt /\ a \in keys
  /\ \E i \in Identity : Does(Main, "ask", [NoWork EXCEPT !.app = a, !.id = i, !.manifest = manifest[a]])
  /\ UNCHANGED <<disk, memory, history, heardOf, outside>>

\* Mutant: the certificate is for the manifest that the application has by now.
Granted_Current(t) == manifest[th[t].app]

\* The manifest that the user saw.
Granted(t) == th[t].manifest

\* CLIClaimListener: the user rejects it, or accepts it and selects a session; then
\* StartApplicationClaiming looks for the identity, and signs.
AnswerClaim(accept) ==
  /\ th[Main].pc = "ask"
  /\ accepted' = IF accept THEN [accepted EXCEPT ![th[Main].app] = @ \cup {th[Main].manifest}] ELSE accepted
  /\ accept => Free(Main)
  /\ IF accept /\ GetIdentity(Main, th[Main].id)
     THEN Signs(Main, "claim", [th[Main] EXCEPT !.manifest = Granted(Main)])
     ELSE Ends(Main)
  /\ UNCHANGED <<disk, memory, history, heardOf, manifest>>

\* The application accepts the claim, unless it is claimed, or its manifest has changed.
RemoteClaim ==
  /\ th[Main].pc = "claim"
  /\ \/ ~apps[th[Main].app].stored /\ Goes(Main, "row")
     \/ Ends(Main)
  /\ UNCHANGED <<disk, memory, history, heardOf, outside>>

\* unclaim_application stops if the storage knows that there is no such application, but not if
\* it cannot look; ResetApplication comes later.
Unclaim(a) ==
  /\ Prompt /\ a \in keys /\ Free(Main)
  /\ ~open \/ apps[a].stored
  /\ Does(Main, "reset", [NoWork EXCEPT !.todo = {a}])
  /\ UNCHANGED <<disk, memory, history, heardOf, outside>>

\* Names that are not given now are kept.
Merge(new, old) ==
  [about |-> IF new.about = NoName THEN old.about ELSE new.about,
   user  |-> IF new.user = NoName THEN old.user ELSE new.user]

\* set_app_meta_data_and_name: GetAppMetaData, and then SetAppMetaData if it differs.
\* An application that is not online, or not announced, adds no names of its own.
ReadName(a, n) ==
  /\ Prompt /\ a \in keys /\ Sql(Main) /\ apps[a].stored
  /\ \E known \in {about[a], NoName} :
       LET new == [about |-> known, user |-> n] IN
         /\ new # GetAppMetaData(a)
         /\ Does(Main, "name", [NoWork EXCEPT !.app = a, !.meta = Merge(new, GetAppMetaData(a))])
  /\ UNCHANGED <<disk, memory, history, heardOf, outside>>

StoreName ==
  /\ th[Main].pc = "name"
  /\ IF Sql(Main) /\ apps[th[Main].app].stored
     THEN SetAppMetaData(Main, th[Main].app, th[Main].meta)
     ELSE Free(Main) /\ UNCHANGED apps
  /\ Ends(Main)
  /\ UNCHANGED <<groups, identities, idCerts, members, counter, file, selfClaimed, memory, history,
                 heardOf, outside>>

\* add_group: a group with a new id.
AddGroup(g) ==
  /\ Prompt /\ groups[g] = "none"
  /\ StoreGroup(Main, g, "own")
  /\ UNCHANGED <<identities, apps, idCerts, members, counter, file, selfClaimed, memory, th, history,
                 heardOf, outside>>

DropGroup(g) ==
  /\ Prompt
  /\ RemoveGroup(Main, g, "own")
  /\ UNCHANGED <<identities, apps, idCerts, counter, file, selfClaimed, memory, history, heardOf, outside>>

\* update_membership
UpdateMembership(a, g, add) ==
  /\ Prompt /\ a \in keys
  /\ IF add THEN InstallMembership(Main, a, g, "own") /\ UNCHANGED members
     ELSE RemoveMembership(Main, a, g, "own")
  /\ UNCHANGED <<groups, identities, apps, idCerts, counter, file, selfClaimed, memory, history,
                 heardOf, outside>>

\* handle_manifest_update takes the update out of the queue before it asks the user.
HandleManifestUpdate ==
  /\ Prompt /\ updates # <<>>
  /\ LET u == Head(updates) IN
       /\ Does(Main, "decide", [NoWork EXCEPT !.app = u.app, !.manifest = u.manifest])
       /\ keys' = keys \cup {u.app}
  /\ updates' = Tail(updates)
  /\ UNCHANGED <<disk, memory, history, about, outside>>

\* Without an identity the update is lost, whatever the user has answered.
Decide(accept) ==
  /\ th[Main].pc = "decide" /\ Free(Main)
  /\ IF accept
     THEN LET a == th[Main].app IN
            /\ accepted' = [accepted EXCEPT ![a] = @ \cup {th[Main].manifest}]
            /\ IF Identity # {} /\ apps[a].stored
               THEN \E i \in Identity : UpdateIdentity(Main, a, i, Granted(Main))
               ELSE Ends(Main)
     ELSE Ends(Main) /\ UNCHANGED accepted
  /\ UNCHANGED <<disk, memory, history, heardOf, manifest>>

Command ==
  \/ \E a \in Apps : Claim(a) \/ Unclaim(a) \/ (\E n \in Names : ReadName(a, n))
  \/ \E a \in Apps, g \in Groups, add \in BOOLEAN : UpdateMembership(a, g, add)
  \/ \E g \in Groups : AddGroup(g) \/ DropGroup(g)
  \/ HandleManifestUpdate

Answers == \E accept \in BOOLEAN : AnswerClaim(accept) \/ Decide(accept)

------------------------------------------------------------------------------
(* Other threads *)

\* They are threads of the agent, or started by a program after it has an agent.
Calls(t) ==
  /\ Up /\ t \in Others /\ th[t].pc = "idle" /\ spent.calls < MaxCalls
  /\ spent' = [spent EXCEPT !.calls = @ + 1]

OtherCall(t) ==
  /\ Calls(t)
  /\ \/ /\ \E g \in Groups, auth \in {"own", "foreign"} : StoreGroup(t, g, auth)
        /\ UNCHANGED <<identities, apps, idCerts, members, counter, signed, open, th>>
     \/ /\ \E g \in Groups : RemoveGroup(t, g, "own")
        /\ UNCHANGED <<identities, apps, idCerts, counter, signed, open>>
     \/ /\ \E i \in Identities : StoreIdentity(t, i)
        /\ UNCHANGED <<groups, apps, idCerts, members, counter, signed, open, th>>
     \/ /\ \E i \in Identities : RemoveIdentity(t, i)
        /\ UNCHANGED <<groups, apps, members, counter, signed, open>>
     \/ /\ \E a \in Apps, g \in Groups : InstallMembership(t, a, g, "own")
        /\ UNCHANGED <<tables, counter, signed, open>>
     \/ /\ \E a \in Apps, g \in Groups : RemoveMembership(t, a, g, "own")
        /\ UNCHANGED <<groups, identities, apps, idCerts, counter, signed, open>>
     \/ /\ \E a \in Apps : RemoveApplication(t, a)
        /\ UNCHANGED <<groups, identities, counter, signed, open, th>>
     \/ Reset(t) /\ UNCHANGED th
  /\ UNCHANGED <<file, selfClaimed, pkey, mutex, leak, heardOf, outside>>

Working(t) == Steps(t) /\ UNCHANGED <<heardOf, outside>>

Starts == Start /\ UNCHANGED <<heardOf, outside>>

Next ==
  \/ Starts \/ DefaultIdentity \/ Stops \/ Command \/ Answers \/ RemoteClaim \/ StoreName
  \/ \E t \in Threads : Working(t) \/ OtherCall(t)
  \/ \E a \in Apps :
       OnApplicationStateChange(a) \/ OnManifestUpdate(a) \/ ManifestChanges(a)
       \/ (\E n \in Names : Announced(a, n))

\* Threads go on, and the user answers; nobody has to give a command.
Fairness ==
  /\ WF_vars(Starts \/ DefaultIdentity \/ Answers \/ RemoteClaim \/ StoreName)
  /\ \A t \in Threads : WF_vars(Working(t))

Spec == Init /\ [][Next]_vars
FairSpec == Spec /\ Fairness

------------------------------------------------------------------------------
(* Properties *)

\* No two certificates of an authority get the same serial number, though threads sign
\* at the same time and the process may stop between the reading of a number and the
\* writing of the next one.
SerialsAreUnique == \A i, j \in DOMAIN signed : signed[i] = signed[j] => i = j

\* A certificate in the database is of an application, and of a group or an identity,
\* that is in the database too, though they are looked up long before it is stored.
CertsHaveOwners ==
  \A a \in Apps :
    /\ idCerts[a] # NoCert => apps[a].stored /\ idCerts[a].id \in identities
    /\ \A g \in Groups : members[a][g] # 0 => apps[a].stored /\ groups[g] # "none"

\* The key an agent hands out as that of the authority is the one that signs, now and
\* in the past: no certificate in the database becomes worthless by a restart.
CertsVerify ==
  /\ pkey # 0 => pkey = file.key
  /\ \A a \in Apps :
       /\ idCerts[a] # NoCert => idCerts[a].key = file.key
       /\ \A g \in Groups : members[a][g] \in {0, file.key}

\* The rights that an application has a certificate for are rights that the user was
\* shown and accepted, whatever the application asks for meanwhile.
OnlyAcceptedRights ==
  \A a \in Apps : apps[a].manifest # 0 => apps[a].manifest \in accepted[a]

\* Starting comes to an end, and so does every command and every call of another thread: the
\* locks are given back, also when what was looked up is gone by then or the storage was wiped
\* in the middle of a call - unless StoreApplication has returned with storageMutex locked.
CommandsEnd ==
  \A t \in Threads :
    LET Rests == th[t].pc \in {"ready", "idle", "down"}
    IN  ~Rests ~> Rests \/ leak # Nobody

==============================================================================
