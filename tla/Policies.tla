-------------------------------- MODULE Policies -------------------------------
(***************************************************************************)
(* What policies say.  PolicyGenerator writes the policy that the command  *)
(* line installs: who is denied, the administrators, the groups.           *)
(* PolicyUtil::NormalizePolicy merges the rules of a policy with the same  *)
(* object and their members with the same name and type, in a std::map     *)
(* whose order is given by a comparison of two fields.                     *)
(*                                                                         *)
(* A key of such a map is a pair of ranks <<first field, second field>>.   *)
(* How std::map balances its tree is external: a search may take any tree  *)
(* over the elements, see LowerBounds.                                     *)
(***************************************************************************)
EXTENDS Integers, SequencesExt

CONSTANTS
  Keys,        \* public keys of applications
  Groups,      \* the groups of the administrator
  Admins,      \* the admin group, which policies always name
  Inputs,      \* the access control lists given to NormalizePolicy
  MaxVersion   \* bound: versions of the policy

\* A member with its mask, a set of actions, and a rule.
Members == [key : Int \X Int, mask : SUBSET STRING]
Rules == [key : Int \X Int, members : Seq(Members)]

ASSUME PoliciesAssumption ==
  Admins \notin Groups /\ MaxVersion \in Nat /\ Inputs \subseteq Seq(Rules)

VARIABLES
  groups,      \* the groups in the storage
  deniedKeys,  \* PolicyGenerator::deniedKeys
  policy,      \* the policy of an application in the storage, with its version
  util,        \* Util can serialise
  input,       \* the rules that are normalised
  todo,        \* the rules that are still to be merged, the members of the first partly
  rmap         \* the map of rules, each with its map of members, in the order of iteration

generated == <<groups, deniedKeys, policy, util>>
normalized == <<input, todo, rmap>>
pvars == <<generated, normalized>>

NoPolicy == [version |-> 0, acls |-> <<>>]

\* ---- PolicyGenerator ----

\* Mutant: only one key gets into the list.
DenyAcl_One == [type |-> "key", peers |-> {CHOOSE k \in deniedKeys : TRUE}, mask |-> {}]

DenyAcl == [type |-> "key", peers |-> deniedKeys, mask |-> {}]
AdminAcl == [type |-> "member", peers |-> {Admins}, mask |-> {"provide", "observe", "modify"}]
DefaultGroupPolicyAcl(g) == [type |-> "member", peers |-> {g}, mask |-> {"provide", "observe", "modify"}]

DefaultPolicy(gs) ==
  (IF deniedKeys = {} THEN <<>> ELSE <<DenyAcl>>) \o <<AdminAcl>>
    \o [i \in DOMAIN gs |-> DefaultGroupPolicyAcl(gs[i])]

\* How an application applies a policy: a list that denies a key goes before all others.
Allowed(acls, k, gs) ==
  /\ \A acl \in Range(acls) : acl.type = "key" /\ k \in acl.peers => acl.mask # {}
  /\ \E acl \in Range(acls) : acl.type = "member" /\ acl.peers \cap gs # {} /\ acl.mask # {}

\* A list without actions may only deny keys.
HasValidDenyRules(acls) == \A acl \in Range(acls) : acl.mask = {} => acl.type = "key"

\* ---- the commands about policies ----

StoreGroup(g) == groups' = groups \cup {g} /\ UNCHANGED <<deniedKeys, policy, util>>
RemoveGroup(g) == groups' = groups \ {g} /\ UNCHANGED <<deniedKeys, policy, util>>
Blacklist(k) == deniedKeys' = deniedKeys \cup {k} /\ UNCHANGED <<groups, policy, util>>

\* The groups that are named, each time it is named.
Requests == {<<>>} \cup {<<g>> : g \in Groups} \cup {<<g, h>> : g, h \in Groups}

\* Groups that are not stored are refused; a new policy gets the next version.
InstallPolicy(gs) ==
  /\ Range(gs) \subseteq groups /\ util
  /\ HasValidDenyRules(DefaultPolicy(gs))
  /\ policy.version < MaxVersion
  /\ policy' = [version |-> policy.version + 1, acls |-> DefaultPolicy(gs)]
  /\ UNCHANGED <<groups, deniedKeys, util>>

ResetPolicy == policy' = NoPolicy /\ UNCHANGED <<groups, deniedKeys, util>>

\* The list of denied keys is kept in memory only; Util may get no bus attachment.
Restart == deniedKeys' = {} /\ util' \in BOOLEAN /\ UNCHANGED <<groups, policy>>

Command ==
  /\ \/ \E g \in Groups : StoreGroup(g) \/ RemoveGroup(g)
     \/ \E k \in Keys : Blacklist(k)
     \/ \E gs \in Requests : InstallPolicy(gs)
     \/ ResetPolicy
     \/ Restart
  /\ UNCHANGED normalized

\* ---- NormalizePolicy ----

\* MemberCompare and RuleCompare: the second field counts whenever the first is not less.
Less(k, l) == k[1] < l[1] \/ k[2] < l[2]

\* Where a search for k can end: the elements before are less, the one at p is not.
LowerBounds(s, k) ==
  {p \in 1 .. Len(s) + 1 : /\ p > 1 => Less(s[p - 1].key, k)
                           /\ p <= Len(s) => ~Less(s[p].key, k)}

\* find: nothing, unless k is not less either than the element where the search ends.
\* Mutant: the result of the search is tested the wrong way round.
Found_Less(s, p, k) == p <= Len(s) /\ Less(k, s[p].key)

Found(s, p, k) == p <= Len(s) /\ ~Less(k, s[p].key)

\* AddRules: a rule without an entry gets one.
AddRule ==
  /\ todo # <<>> /\ ~Head(todo).open
  /\ \E p \in LowerBounds(rmap, Head(todo).key) :
       /\ rmap' = IF Found(rmap, p, Head(todo).key) THEN rmap
                  ELSE InsertAt(rmap, p, [key |-> Head(todo).key, members |-> <<>>])
       /\ todo' = <<[Head(todo) EXCEPT !.open = TRUE, !.at = p]>> \o Tail(todo)
  /\ UNCHANGED <<input, generated>>

\* Mutant: the second mask replaces the first.
Merged_Last(s, p, m) ==
  IF Found(s, p, m.key) THEN [s EXCEPT ![p].mask = m.mask] ELSE InsertAt(s, p, m)

Merged(s, p, m) ==
  IF Found(s, p, m.key) THEN [s EXCEPT ![p].mask = @ \cup m.mask] ELSE InsertAt(s, p, m)

\* AddMembers: masks of the same member are ORed.
AddMember ==
  /\ todo # <<>> /\ Head(todo).open /\ Head(todo).members # <<>>
  /\ LET r == Head(todo)
         m == Head(r.members)
     IN  \E p \in LowerBounds(rmap[r.at].members, m.key) :
           /\ rmap' = [rmap EXCEPT ![r.at].members = Merged(@, p, m)]
           /\ todo' = <<[r EXCEPT !.members = Tail(@)]>> \o Tail(todo)
  /\ UNCHANGED <<input, generated>>

NextRule ==
  /\ todo # <<>> /\ Head(todo).open /\ Head(todo).members = <<>>
  /\ todo' = Tail(todo)
  /\ UNCHANGED <<input, rmap, generated>>

Normalize == AddRule \/ AddMember \/ NextRule

GeneratorInit == groups = {} /\ deniedKeys = {} /\ policy = NoPolicy /\ util \in BOOLEAN

NormalizeInit(lists) ==
  /\ input \in lists
  /\ todo = [i \in DOMAIN input |-> [key |-> input[i].key, members |-> input[i].members,
                                     open |-> FALSE, at |-> 0]]
  /\ rmap = <<>>

PolicySpec == GeneratorInit /\ NormalizeInit(Inputs) /\ [][Command \/ Normalize]_pvars

\* ---- what policies promise ----

(***************************************************************************)
(* Every policy that is stored says exactly what was asked for: a key that *)
(* was denied since the start is denied whatever groups it is a member of, *)
(* and anyone else is allowed as an administrator or a member of one of the*)
(* groups that were named, and not otherwise.                              *)
(***************************************************************************)
SaysWho(acls, gs) ==
  \A k \in Keys, mine \in SUBSET (Groups \cup {Admins}) :
    Allowed(acls, k, mine) <=> k \notin deniedKeys /\ mine \cap (gs \cup {Admins}) # {}

PoliciesSayWho ==
  [][\A gs \in Requests : InstallPolicy(gs) => SaysWho(policy'.acls, Range(gs))]_generated

\* What rules allow, by the keys of the rule and of the member.
Grants(rules) ==
  UNION {UNION {{<<rules[i].key, rules[i].members[j].key, a>> : a \in rules[i].members[j].mask} :
                  j \in DOMAIN rules[i].members} : i \in DOMAIN rules}

(***************************************************************************)
(* Normalising neither adds nor loses a right, at any step and however the *)
(* map searches, although its comparison is not an order.                  *)
(***************************************************************************)
NormalKeepsRights == Grants(rmap) \cup Grants(todo) = Grants(input)

Ordered(s) == \A i, j \in DOMAIN s : i < j => Less(s[i].key, s[j].key) /\ ~Less(s[j].key, s[i].key)

\* No two of these keys are both less than the other.
Comparable(ks) == \A k, l \in ks : ~(Less(k, l) /\ Less(l, k))

KeysOf(s) == {s[i].key : i \in DOMAIN s}

(***************************************************************************)
(* Where the comparison is an order on the keys that occur, every rule and *)
(* every member appears once, and they are sorted.                         *)
(***************************************************************************)
NormalIsSorted ==
  /\ Comparable(KeysOf(input)) => Ordered(rmap)
  /\ \A i \in DOMAIN rmap :
       Comparable(UNION {KeysOf(input[j].members) : j \in DOMAIN input}) => Ordered(rmap[i].members)
================================================================================
