------------------------------- MODULE Manifests -------------------------------
(***************************************************************************)
(* How the rights in a manifest travel: from the application that asks for *)
(* them, through the update that shows the administrator what is new, into *)
(* the storage.  A Manifest object keeps its rules twice, parsed and       *)
(* serialised, and the two can differ: serialising needs the bus attachment*)
(* that Util got from the agent.                                           *)
(*                                                                         *)
(* There is one application, claimed before the start.  A rule is about an *)
(* object (an interface and a path), a member stands for its name and its  *)
(* type, a mask is a set of actions.  The order of rules and of members, of*)
(* which a manifest is an array, means nothing to the code below, so that  *)
(* they are sets.                                                          *)
(***************************************************************************)
EXTENDS Integers, Sequences

CONSTANTS
  Templates,  \* the manifests an application can ask for, sets of rules that are not empty
  MaxOffers   \* bound: updates that wait for a decision; the queue of the agent holds one

ASSUME ManifestsAssumption == {} \notin Templates /\ MaxOffers \in Nat

VARIABLES
  ba,         \* Util::ba is set
  agent,      \* "down", "up", "ending": the updater is destroyed, "stopped": its queue as well
  app,        \* what the application asks for, and whether it is in state NEED_UPDATE
  row,        \* the manifest in the storage, and whether it is still to be sent
  job,        \* where the updater is, with the manifests it has read
  event,      \* the update in the queue of the agent, or NoUpdate
  offers,     \* the updates the administrator has to decide on, oldest first
  approved    \* the rights the administrator has seen and accepted

mvars == <<ba, agent, app, row, job, event, offers, approved>>

\* What a manifest allows: triples of object, member and action.
Rights(rules) ==
  UNION {UNION {{<<r.on, m.id, a>> : a \in m.mask} : m \in r.members} : r \in rules}

\* ---- Manifest objects ----

Empty == [rules |-> {}, bytes |-> {}]

\* A copy of a manifest without bytes is an empty one.
Copy(m) == IF m.bytes = {} THEN Empty ELSE m

\* Util can write rules as bytes and read them again while it has a bus attachment.
Marshals == ba

\* The rules are replaced before they are serialised, which may fail.
SetFromRules(m, rules) == [rules |-> rules, bytes |-> IF Marshals THEN rules ELSE m.bytes]
SetFromByteArray(m, bytes) == IF Marshals THEN [rules |-> bytes, bytes |-> bytes] ELSE m

\* Mutant: the actions are taken from the wrong side.
Left_Swapped(m, members) == UNION {x.mask : x \in {y \in members : y.id = m.id}} \ m.mask

\* The actions of a member that these members do not allow.
Left(m, members) == m.mask \ UNION {x.mask : x \in {y \in members : y.id = m.id}}

\* What the rules of the other side about the same object leave of a rule's members, one rule after
\* the other.  Members without actions stay if there is no such rule.
Remaining(rule, others) ==
  LET same == {o \in others : o.on = rule.on}
  IN  IF same = {} THEN rule.members
      ELSE {m \in {[id |-> m.id, mask |-> Left(m, UNION {o.members : o \in same})] : m \in rule.members} :
              m.mask # {}}

Subtract(rules, others) ==
  {r \in {[on |-> r.on, members |-> Remaining(r, others)] : r \in rules} : r.members # {}}

\* The result keeps what it had if nothing is left or one side has no rules.
Difference(m, other, result) ==
  IF \/ m.rules = {} \/ other.rules = {}
     \/ Subtract(m.rules, other.rules) = {}
  THEN result
  ELSE SetFromRules(result, Subtract(m.rules, other.rules))

ManifestUpdate(old, new) ==
  LET o == Copy(old)
      n == Copy(new)
  IN  [old |-> o, new |-> n, additional |-> Difference(n, o, Empty), removed |-> Difference(o, n, Empty)]

NoUpdate == [old |-> Empty, new |-> Empty, additional |-> Empty, removed |-> Empty]

\* ---- the agent and Util ----

NoJob == [pc |-> "idle", mf |-> Empty, new |-> Empty, send |-> FALSE, late |-> FALSE]

\* Util::Init refuses a bus attachment that is not connected; Init goes on without it.
AgentInit ==
  /\ agent = "down"
  /\ agent' = "up"
  /\ ba' \in BOOLEAN
  /\ UNCHANGED <<app, row, job, event, offers, approved>>

\* The updater is destroyed: it ends what it does, and starts nothing new.
DestroyUpdater ==
  /\ agent = "up"
  /\ agent' = "ending"
  /\ UNCHANGED <<ba, app, row, job, event, offers, approved>>

\* An event that was not told by now is dropped.
StopQueue ==
  /\ agent = "ending" /\ job.pc = "idle"
  /\ agent' = "stopped"
  /\ event' = NoUpdate
  /\ UNCHANGED <<ba, app, row, job, offers, approved>>

\* Mutant: Util is ended before the updater.
UtilFini_Early ==
  /\ agent \in {"up", "ending", "stopped"}
  /\ ba
  /\ ba' = FALSE
  /\ UNCHANGED <<agent, app, row, job, event, offers, approved>>

UtilFini ==
  /\ agent = "stopped"
  /\ agent' = "down"
  /\ ba' = FALSE
  /\ UNCHANGED <<app, row, job, event, offers, approved>>

\* ---- the updater ----

\* StartUpdates reads the manifest of the storage; the update ends if that fails.
ReadStored ==
  /\ agent = "up" /\ job.pc = "idle" /\ (app.needs \/ row.fresh)
  /\ LET mf == SetFromByteArray(Empty, row.bytes)
     IN  job' = IF ba THEN [NoJob EXCEPT !.pc = "identity", !.mf = mf, !.send = row.fresh] ELSE NoJob
  /\ UNCHANGED <<ba, agent, app, row, event, offers, approved>>

\* A certificate that was stored since is sent with its manifest, and that is all.
SendIdentity ==
  /\ job.pc = "identity" /\ job.send
  /\ row' = [row EXCEPT !.fresh = job.late]
  /\ app' = [app EXCEPT !.needs = FALSE]
  /\ job' = NoJob
  /\ UNCHANGED <<ba, agent, event, offers, approved>>

\* The template of an application in state NEED_UPDATE is read; the application may not answer.
ReadTemplate ==
  /\ job.pc = "identity" /\ ~job.send
  /\ \/ /\ app.needs /\ ba
        /\ job' = [job EXCEPT !.pc = "compare", !.new = SetFromRules(Empty, app.template)]
     \/ job' = NoJob
  /\ UNCHANGED <<ba, agent, app, row, event, offers, approved>>

\* The update is handed to the queue of the agent.
Compare ==
  /\ job.pc = "compare" /\ event = NoUpdate
  /\ event' = ManifestUpdate(job.mf, job.new)
  /\ job' = NoJob
  /\ UNCHANGED <<ba, agent, app, row, offers, approved>>

\* The listener keeps a copy.
OnManifestUpdate ==
  /\ event # NoUpdate /\ agent \in {"up", "ending"} /\ Len(offers) < MaxOffers
  /\ offers' = Append(offers, [p \in DOMAIN event |-> Copy(event[p])])
  /\ event' = NoUpdate
  /\ UNCHANGED <<ba, agent, app, row, job, approved>>

\* ---- the administrator ----

\* The oldest update is shown; its new manifest is stored if it is accepted and has bytes.
HandleManifestUpdate ==
  /\ offers # <<>>
  /\ offers' = Tail(offers)
  /\ \/ /\ Head(offers).new.bytes # {}
        /\ approved' = approved \cup Rights(Head(offers).additional.rules)
        /\ row' = [bytes |-> Head(offers).new.bytes, fresh |-> TRUE]
        /\ job' = [job EXCEPT !.late = job.pc # "idle"]
     \/ UNCHANGED <<approved, row, job>>
  /\ UNCHANGED <<ba, agent, app, event>>

\* The application asks for other rights.
TemplateChanges ==
  /\ \E t \in Templates : t # app.template /\ app' = [template |-> t, needs |-> TRUE]
  /\ UNCHANGED <<ba, agent, row, job, event, offers, approved>>

\* Claimed with the rights of its template, all of which were shown.
ManifestInit ==
  /\ ba = FALSE /\ agent = "down"
  /\ \E t \in Templates :
       /\ app = [template |-> t, needs |-> FALSE]
       /\ row = [bytes |-> t, fresh |-> FALSE]
       /\ approved = Rights(t)
  /\ job = NoJob /\ event = NoUpdate /\ offers = <<>>

ManifestNext ==
  \/ AgentInit \/ DestroyUpdater \/ StopQueue \/ UtilFini
  \/ ReadStored \/ SendIdentity \/ ReadTemplate \/ Compare \/ OnManifestUpdate
  \/ HandleManifestUpdate \/ TemplateChanges

ManifestSpec == ManifestInit /\ [][ManifestNext]_mvars

(***************************************************************************)
(* No right is ever stored that the administrator was not shown, whatever  *)
(* was accepted or rejected before, and however old the update is.         *)
(***************************************************************************)
OnlyShownRights == Rights(row.bytes) \subseteq approved

(***************************************************************************)
(* An update in the hands of the administrator is exact: what it calls     *)
(* additional and removed is what one manifest allows and the other does   *)
(* not, and its manifests have the bytes of their rules.                   *)
(***************************************************************************)
Exact(u) ==
  /\ Rights(u.additional.rules) = Rights(u.new.rules) \ Rights(u.old.rules)
  /\ Rights(u.removed.rules) = Rights(u.old.rules) \ Rights(u.new.rules)
  /\ \A p \in DOMAIN u : u[p].bytes = u[p].rules

OffersAreExact == \A i \in DOMAIN offers : Exact(offers[i])
================================================================================
