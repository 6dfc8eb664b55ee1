-------------------------------- MODULE Sessions -------------------------------
(***************************************************************************)
(* ProxyObjectManager: how the threads of an agent get to call a remote    *)
(* application.  The key exchange and the listener that answers for it are *)
(* settings of the bus attachment, which all threads share; a claim brings *)
(* a listener of its own, which is gone when the claim ends.  When the     *)
(* configuration of the application has changed, the connection has to be  *)
(* secured again before the next call; that this fails is not noticed, and *)
(* the call is made over the connection as it is.                          *)
(***************************************************************************)
CONSTANTS
  Callers,  \* threads: the queue of the updater, and those that claim or update
  Nobody,   \* no thread
  Default   \* ProxyObjectManager::listener

ASSUME SessionsAssumption == Nobody \notin Callers /\ Default \notin Callers

VARIABLES
  manager,  \* the agent has its proxy object manager
  bus,      \* the settings of the last EnablePeerSecurity
  lock,     \* ProxyObjectManager::lock
  proxy     \* the ManagedProxyObject of a thread

svars == <<manager, bus, lock, proxy>>

SessionTypes == {"null", "dsa", "psk"}

\* What a session is used for: to look at an application, to claim, update or reset it.
Uses == {"inspect", "claim", "update", "reset"}

\* What has become of the connection: it is secured, the configuration of the application
\* has changed since, or securing it again has failed and nobody looked.
Connections == {"secured", "changed", "refused"}

\* type: the key exchange; needReAuth: the connection is to be secured before the next call.
NoProxy ==
  [pc |-> "idle", use |-> "update", type |-> "dsa", needReAuth |-> FALSE, conn |-> "secured"]

TypesOf(use) ==
  CASE use = "inspect" -> {"null"} [] use = "claim" -> SessionTypes [] OTHER -> {"dsa"}

\* Only a claim has a listener, and only the exchange of a secret asks it.
Settings(t) ==
  [keyx |-> proxy[t].type, listener |-> IF proxy[t].type = "psk" THEN t ELSE Default]

Off == [keyx |-> "none", listener |-> Nobody]
Reset == [keyx |-> "null", listener |-> Default]

SessionInit ==
  /\ manager = FALSE /\ bus = Off /\ lock = Nobody
  /\ proxy = [t \in Callers |-> NoProxy]

\* SecurityAgentImpl::Init
CreateManager ==
  /\ ~manager
  /\ manager' = TRUE
  /\ bus' = [keyx |-> "psk", listener |-> Default]
  /\ UNCHANGED <<lock, proxy>>

\* The agent goes when nobody claims or updates any more.
DestroyManager ==
  /\ manager /\ \A t \in Callers : proxy[t].pc = "idle"
  /\ manager' = FALSE
  /\ bus' = Off
  /\ UNCHANGED <<lock, proxy>>

GetProxyObject(t, use, type) ==
  /\ manager /\ proxy[t].pc = "idle" /\ lock = Nobody
  /\ lock' = t
  /\ proxy' = [proxy EXCEPT ![t] = [pc |-> "join", use |-> use, type |-> type,
                                    needReAuth |-> FALSE, conn |-> "secured"]]
  /\ bus' = Settings(t)'
  /\ UNCHANGED manager

\* A step of t within its session.
SessionStep(t, pc, needReAuth, conn) ==
  /\ proxy' = [proxy EXCEPT ![t] = [pc |-> pc, use |-> proxy[t].use, type |-> proxy[t].type,
                                    needReAuth |-> needReAuth, conn |-> conn]]
  /\ UNCHANGED <<manager, bus, lock>>

JoinSession(t) ==
  proxy[t].pc = "join" /\ SessionStep(t, "open", proxy[t].needReAuth, proxy[t].conn)

\* Mutant: the listener of a claim is left to the bus attachment.
ReleaseProxyObject_KeepsListener(t) ==
  /\ proxy[t].pc \in {"join", "open", "done"}
  /\ UNCHANGED bus
  /\ lock' = Nobody
  /\ proxy' = [proxy EXCEPT ![t] = NoProxy]
  /\ UNCHANGED manager

\* The session cannot be joined, or the proxy object is destroyed.
ReleaseProxyObject(t) ==
  /\ proxy[t].pc \in {"join", "open", "done"}
  /\ bus' = IF proxy[t].use = "claim" THEN Reset ELSE bus
  /\ lock' = Nobody
  /\ proxy' = [proxy EXCEPT ![t] = NoProxy]
  /\ UNCHANGED manager

\* Every call begins with CheckReAuthenticate, which drops the status of SecureConnection.
CheckReAuthenticate(t) ==
  /\ proxy[t].pc = "open"
  /\ \E conn \in IF proxy[t].needReAuth THEN {"secured", "refused"} ELSE {proxy[t].conn} :
       SessionStep(t, "call", FALSE, conn)

\* A call that reads, and succeeds.
Reads(t) ==
  /\ proxy[t].pc = "call" /\ proxy[t].use \in {"inspect", "update"}
  /\ SessionStep(t, "open", proxy[t].needReAuth, proxy[t].conn)

\* UpdateIdentity, InstallMembership, RemoveMembership, UpdatePolicy, ResetPolicy.
Changes(t) ==
  proxy[t].pc = "call" /\ proxy[t].use = "update" /\ SessionStep(t, "open", TRUE, "changed")

\* Claim and Reset are the only call of their session.
ClaimsOrResets(t) ==
  /\ proxy[t].pc = "call" /\ proxy[t].use \in {"claim", "reset"}
  /\ SessionStep(t, "done", proxy[t].needReAuth, "changed")

\* A call fails, or is carried out and its answer is lost: no other one follows.
CallFails(t) ==
  /\ proxy[t].pc = "call"
  /\ \E conn \in {proxy[t].conn} \cup (IF proxy[t].use = "inspect" THEN {} ELSE {"changed"}) :
       SessionStep(t, "done", proxy[t].needReAuth, conn)

Session(t) ==
  \/ \E use \in Uses : \E type \in TypesOf(use) : GetProxyObject(t, use, type)
  \/ JoinSession(t) \/ ReleaseProxyObject(t) \/ CheckReAuthenticate(t)
  \/ Reads(t) \/ Changes(t) \/ ClaimsOrResets(t) \/ CallFails(t)

SessionNext == CreateManager \/ DestroyManager \/ \E t \in Callers : Session(t)

SessionSpec == SessionInit /\ [][SessionNext]_svars

SessionTypeOK ==
  /\ manager \in BOOLEAN /\ lock \in Callers \cup {Nobody}
  /\ bus \in [keyx : SessionTypes \cup {"none"}, listener : Callers \cup {Default, Nobody}]
  /\ proxy \in [Callers -> [pc : {"idle", "join", "open", "call", "done"}, use : Uses,
                            type : SessionTypes, needReAuth : BOOLEAN, conn : Connections]]

(***************************************************************************)
(* While a remote call is made, the bus has the key exchange and the       *)
(* listener that its own thread asked for, and after a change of the       *)
(* configuration securing the connection again was at least tried, though  *)
(* it may have failed; and the bus never keeps the listener of a claim     *)
(* that is over, whichever calls fail.                                     *)
(***************************************************************************)
CallsAreSecured ==
  /\ \A t \in Callers : proxy[t].pc = "call" => bus = Settings(t) /\ proxy[t].conn # "changed"
  /\ bus.listener \in Callers => proxy[bus.listener].use = "claim" /\ proxy[bus.listener].pc # "idle"
================================================================================
